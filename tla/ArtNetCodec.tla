----------------------------- MODULE ArtNetCodec -----------------------------
(***************************************************************************)
(* The numbers of an Art-Net packet (artnet/artnet.go): how EncodeArtDmx   *)
(* and EncodeArtPollReply split a universe into bytes, what DecodeArtDmx   *)
(* makes of them, and how much of a packet it takes for channels.          *)
(***************************************************************************)
EXTENDS Integers

Uint8(n)  == n % 256
Uint16(n) == n % 65536

\* What a universe may be in the program, and what it may be on the wire.
MaxWord        == 65535
Word           == 0..MaxWord
MaxPortAddress == 32767
PortAddress    == 0..MaxPortAddress

\* A universe on the wire: its low byte and seven bits of its high byte.
EncodeUniverse(u) == [subUni |-> Uint8(u), net |-> (u \div 256) % 128]

\* Nothing is masked on the way back.
DecodeUniverse(a) == a.subUni + 256 * a.net

\* The same universe in an ArtPollReply.
NetSwitch(u) == (u \div 256) % 128
SubSwitch(u) == (u \div 16) % 16
SwIn(u)      == u % 16

\* How many channels are taken from a packet of size bytes after its header.
DecodedLength(declared, size, max) ==
  LET length == IF declared > max THEN max ELSE declared
  IN  IF size < length THEN size ELSE length
=============================================================================
