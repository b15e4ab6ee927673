---------------------------- MODULE BridgeProofs ----------------------------
(***************************************************************************)
(* The universes of an Art-Net packet, the types of the bridge, and that   *)
(* it tells its packets apart; and that it never merges with itself, for   *)
(* any mappings and consoles, if the node knows the address its packets    *)
(* leave by and every output universe fits on the wire.                    *)
(***************************************************************************)
EXTENDS Bridge, TLAPS

----------------------------------------------------------------------------
(* What the packet arithmetic of ArtNetCodec returns for every input.      *)

\* What comes back of a universe that goes out: its low byte, and its high byte
\* without the top bit.
LEMMA OverTheWire ==
  ASSUME NEW u \in Int
  PROVE  DecodeUniverse(EncodeUniverse(u)) = (u % 256) + 256 * ((u \div 256) % 128)
<1>1. EncodeUniverse(u).subUni = u % 256
  BY DEF EncodeUniverse, Uint8
<1>2. EncodeUniverse(u).net = (u \div 256) % 128
  BY DEF EncodeUniverse
<1> QED
  BY <1>1, <1>2 DEF DecodeUniverse

\* A universe of the documented range comes back from the wire as it went out:
\* EncodeArtDmx and DecodeArtDmx agree.
THEOREM UniverseRoundTrip ==
  ASSUME NEW u \in Nat, u <= 32767
  PROVE  DecodeUniverse(EncodeUniverse(u)) = u
<1>1. /\ u = 256 * (u \div 256) + (u % 256)
      /\ u \div 256 \in Int /\ 0 <= u \div 256 /\ u \div 256 <= 127
  OBVIOUS
<1>2. (u \div 256) % 128 = u \div 256
  BY <1>1
<1> QED
  BY <1>1, <1>2, OverTheWire

\* Any other universe the program can hold is sent as one of that range, and so
\* shares it with another: the top bit is lost.
THEOREM UniverseAliases ==
  ASSUME NEW u \in Nat, 32768 <= u, u <= 65535
  PROVE  DecodeUniverse(EncodeUniverse(u)) = u - 32768
<1>1. /\ u = 256 * (u \div 256) + (u % 256)
      /\ u \div 256 \in Int /\ 128 <= u \div 256 /\ u \div 256 <= 255
  OBVIOUS
<1>2. (u \div 256) % 128 = (u \div 256) - 128
  BY <1>1
<1> QED
  BY <1>1, <1>2, OverTheWire

\* The ArtPollReply advertises the universe the ArtDmx packets are sent on.
THEOREM PollReplyAgrees ==
  ASSUME NEW u \in Nat
  PROVE  256 * NetSwitch(u) + 16 * SubSwitch(u) + SwIn(u) = DecodeUniverse(EncodeUniverse(u))
<1>1. 16 * ((u \div 16) % 16) + (u % 16) = u % 256
  OBVIOUS
<1> QED
  BY <1>1, OverTheWire DEF NetSwitch, SubSwitch, SwIn

\* DecodeArtDmx reads within the packet and writes within the frame, whatever
\* length the packet declares.
THEOREM DecodedLengthFits ==
  ASSUME NEW declared \in Nat, NEW size \in Nat, NEW max \in Nat
  PROVE  /\ DecodedLength(declared, size, max) \in 0..max
         /\ DecodedLength(declared, size, max) <= size
  BY DEF DecodedLength

----------------------------------------------------------------------------
(* Of the ranges only these facts are needed below.                        *)

LEMMA WordRange ==
  /\ \A n \in Int : 0 <= n /\ n <= 65535 => n \in Word
  /\ \A n \in Word : n \in Nat
<1>1. MaxWord \in Nat /\ \A n \in Int : n <= 65535 => n <= MaxWord
  BY DEF MaxWord
<1> QED BY <1>1 DEF Word

LEMMA PortAddressRange ==
  /\ \A n \in Int : 0 <= n /\ n <= 32767 => n \in PortAddress
  /\ \A n \in PortAddress : n \in Nat /\ n <= 32767
<1>1. MaxPortAddress \in Nat /\ \A n \in Int : n <= 32767 <=> n <= MaxPortAddress
  BY DEF MaxPortAddress
<1> QED BY <1>1 DEF PortAddress

LEMMA Uint16Word ==
  ASSUME NEW n \in Nat
  PROVE  Uint16(n) \in Word
<1> DEFINE m == n % 65536
<1>1. m \in Int /\ 0 <= m /\ m <= 65535
  OBVIOUS
<1> HIDE DEF m
<1>2. m \in Word
  BY <1>1, WordRange
<1> QED BY <1>2 DEF m, Uint16

LEMMA Uint16Stays ==
  ASSUME NEW n \in PortAddress
  PROVE  Uint16(n) \in PortAddress
<1>1. n \in Nat /\ n <= 32767
  BY PortAddressRange
<1>2. n % 65536 = n
  BY <1>1
<1> QED BY <1>2 DEF Uint16

LEMMA WordIsNat == Word \subseteq Nat
BY WordRange

LEMMA PortAddressIsNat == PortAddress \subseteq Nat
BY PortAddressRange

LEMMA OnTheWire ==
  ASSUME NEW u \in Nat
  PROVE  DecodeUniverse(EncodeUniverse(u)) \in PortAddress
<1>1. (u % 256) + 256 * ((u \div 256) % 128) \in PortAddress
  <2>1. /\ u % 256 \in Int /\ 0 <= u % 256 /\ u % 256 <= 255
        /\ (u \div 256) % 128 \in Int
        /\ 0 <= (u \div 256) % 128 /\ (u \div 256) % 128 <= 127
    OBVIOUS
  <2> DEFINE low == u % 256  high == (u \div 256) % 128
  <2>2. /\ low \in Int /\ 0 <= low /\ low <= 255
        /\ high \in Int /\ 0 <= high /\ high <= 127
    BY <2>1
  <2> HIDE DEF low, high
  <2>3. low + 256 * high \in PortAddress
    BY <2>2, PortAddressRange
  <2> QED BY <2>3 DEF low, high
<1>2. DecodeUniverse(EncodeUniverse(u)) = (u % 256) + 256 * ((u \div 256) % 128)
  <2>1. u \in Int
    OBVIOUS
  <2> QED BY <2>1, OverTheWire
<1> QED BY <1>1, <1>2

LEMMA PortAddressRoundTrip ==
  ASSUME NEW u \in PortAddress
  PROVE  DecodeUniverse(EncodeUniverse(u)) = u
<1>1. u \in Nat /\ u <= 32767
  BY PortAddressRange
<1> QED BY <1>1, UniverseRoundTrip

LEMMA SeqBytesRange ==
  /\ SeqBytes \in Nat /\ SeqBytes > 1 /\ SeqByte = 0..(SeqBytes - 1)
  /\ 0 \in SeqByte
BY BridgeAssumption DEF BridgeAssumption, SeqByte

LEMMA NextSeqIs ==
  ASSUME seq \in SeqByte
  PROVE  NextSeq = IF seq + 1 = SeqBytes THEN 1 ELSE seq + 1
<1>1. CASE seq + 1 = SeqBytes
  <2>1. (seq + 1) % SeqBytes = 0
    BY <1>1, SeqBytesRange
  <2> QED BY <1>1, <2>1 DEF NextSeq
<1>2. CASE seq + 1 < SeqBytes
  <2>1. (seq + 1) % SeqBytes = seq + 1
    BY <1>2, SeqBytesRange
  <2> QED BY <1>2, <2>1, SeqBytesRange DEF NextSeq
<1> QED BY <1>1, <1>2, SeqBytesRange

LEMMA NextSeqInRange ==
  ASSUME seq \in SeqByte
  PROVE  NextSeq \in 1..(SeqBytes - 1)
BY NextSeqIs, SeqBytesRange

----------------------------------------------------------------------------
(* The packets and the channel.                                            *)

LEMMA DmxIsDatagram ==
  ASSUME NEW ip \in {OwnIP} \cup {c.ip : c \in Consoles}, NEW u \in Nat,
         NEW s \in SeqByte
  PROVE  Dmx(ip, u, s) \in Datagram
<1>1. DecodeUniverse(EncodeUniverse(u)) \in PortAddress
  BY OnTheWire
<1> QED BY <1>1, SeqBytesRange DEF Dmx, Datagram

LEMMA OtherIsDatagram ==
  ASSUME NEW d \in Datagram, NEW k \in {"poll", "other"}
  PROVE  [d EXCEPT !.kind = k] \in Datagram
BY DEF Datagram

LEMMA TrySendKeepsSeq ==
  ASSUME NEW S, NEW ch \in Seq(S), NEW cap \in Nat, NEW x \in S, Len(ch) <= cap
  PROVE  TrySend(ch, cap, x) \in Seq(S) /\ Len(TrySend(ch, cap, x)) <= cap
BY DEF TrySend

LEMMA PassedKeeps ==
  ASSUME NEW d \in Datagram
  PROVE  /\ Passed(d) \in Datagram
         /\ Passed(d).ip = d.ip /\ Passed(d).universe = d.universe /\ Passed(d).seq = d.seq
         /\ d.ip = OwnIP /\ Passed(d).since < SeqBytes - 1 => Passed(d).since = d.since + 1
<1>1. CASE d.ip = OwnIP /\ d.since < SeqBytes - 1
  <2>1. d.since + 1 \in SeqByte
    BY <1>1, SeqBytesRange DEF Datagram
  <2> QED BY <1>1, <2>1 DEF Passed, Datagram
<1>2. CASE ~(d.ip = OwnIP /\ d.since < SeqBytes - 1)
  BY <1>2 DEF Passed, Datagram
<1> QED BY <1>1, <1>2

\* After a send the socket holds what it held, and perhaps the packet sent.
LEMMA SendKeepsSocket ==
  ASSUME socket \in Seq(Datagram), Len(socket) <= SocketMax,
         NEW u \in Nat, SendDmxUniverse(u), seq' \in SeqByte
  PROVE  /\ socket' \in Seq(Datagram) /\ Len(socket') <= SocketMax
         /\ \A i \in DOMAIN socket' :
              \/ socket'[i] = Dmx(OwnIP, u, seq')
              \/ i \in DOMAIN socket /\ socket'[i] = Passed(socket[i])
<1>1. SocketMax \in Nat
  BY BridgeAssumption DEF BridgeAssumption
<1>2. /\ OthersPassed \in Seq(Datagram) /\ Len(OthersPassed) = Len(socket)
      /\ \A i \in DOMAIN OthersPassed :
           i \in DOMAIN socket /\ OthersPassed[i] = Passed(socket[i])
  <2>1. \A i \in DOMAIN socket : Passed(socket[i]) \in Datagram
    BY PassedKeeps
  <2> QED BY <2>1 DEF OthersPassed
<1>3. Dmx(OwnIP, u, seq') \in Datagram
  BY DmxIsDatagram
<1>4. CASE socket' = OthersPassed
  BY <1>2, <1>4
<1>5. CASE Len(socket) < SocketMax /\ socket' = Append(OthersPassed, Dmx(OwnIP, u, seq'))
  <2> DEFINE others == OthersPassed
             sent   == Dmx(OwnIP, u, seq')
  <2>1. /\ others \in Seq(Datagram) /\ Len(others) = Len(socket) /\ sent \in Datagram
        /\ socket' = Append(others, sent)
        /\ \A i \in DOMAIN others : i \in DOMAIN socket /\ others[i] = Passed(socket[i])
    BY <1>2, <1>3, <1>5
  <2> HIDE DEF others, sent
  <2>2. /\ socket' \in Seq(Datagram) /\ Len(socket') <= SocketMax
        /\ \A i \in DOMAIN socket' :
             socket'[i] = sent \/ (i \in DOMAIN others /\ socket'[i] = others[i])
    BY <1>1, <1>5, <2>1
  <2> QED BY <2>1, <2>2 DEF sent
<1> QED BY <1>4, <1>5 DEF SendDmxUniverse

\* The network only ever delivers what has been sent.
LEMMA NetworkKeepsSocket ==
  ASSUME socket \in Seq(Datagram), Len(socket) <= SocketMax, Duplicated \/ Overtaken
  PROVE  /\ socket' \in Seq(Datagram) /\ Len(socket') <= SocketMax
         /\ \A i \in DOMAIN socket' : \E k \in DOMAIN socket : socket'[i] = socket[k]
         /\ UNCHANGED <<setupVars, seq, received, due>>
<1>1. SocketMax \in Nat
  BY BridgeAssumption DEF BridgeAssumption
<1>2. CASE Duplicated
  <2>1. PICK k \in DOMAIN socket : Arrives(socket[k])
    BY <1>2 DEF Duplicated
  <2>2. socket[k] \in Datagram /\ Len(socket) < SocketMax /\ socket' = Append(socket, socket[k])
    BY <2>1 DEF Arrives
  <2>3. \A i \in DOMAIN socket' :
          socket'[i] = socket[k] \/ (i \in DOMAIN socket /\ socket'[i] = socket[i])
    BY <2>2
  <2>4. \A i \in DOMAIN socket' : \E n \in DOMAIN socket : socket'[i] = socket[n]
    BY <2>3
  <2> QED BY <1>1, <2>1, <2>2, <2>4 DEF Arrives, setupVars
<1>3. CASE Overtaken
  <2>1. PICK k \in 1..(Len(socket) - 1) :
          /\ socket' = [socket EXCEPT ![k] = socket[k + 1], ![k + 1] = socket[k]]
          /\ UNCHANGED <<setupVars, seq, received, due>>
    BY <1>3 DEF Overtaken
  <2>2. k \in DOMAIN socket /\ k + 1 \in DOMAIN socket
    BY <2>1
  <2>3. socket' \in Seq(Datagram) /\ Len(socket') = Len(socket) /\ DOMAIN socket' = DOMAIN socket
    BY <2>1, <2>2
  <2>4. \A i \in DOMAIN socket' :
          socket'[i] = socket[i] \/ socket'[i] = socket[k] \/ socket'[i] = socket[k + 1]
    BY <2>1, <2>2
  <2> QED BY <2>1, <2>2, <2>3, <2>4 DEF setupVars
<1> QED BY <1>2, <1>3

\* The universes of a pair are words.
LEMMA PairWords ==
  ASSUME NEW i \in 1..Len(MergeInputs)
  PROVE  Uint16(MergeInputs[i].src) \in Word /\ Uint16(MergeInputs[i].out) \in Word
<1>1. MergeInputs[i] \in Pair
  BY BridgeAssumption DEF BridgeAssumption
<1>2. MergeInputs[i].src \in Nat /\ MergeInputs[i].out \in Nat
  BY <1>1 DEF Pair
<1> QED BY <1>2, Uint16Word

----------------------------------------------------------------------------
(* Type correctness.                                                       *)

LEMMA UpdateKeepsDue ==
  ASSUME NEW id, Update(id), due \subseteq Word, \A s \in DOMAIN sources : sources[s] \in Word
  PROVE  due' \subseteq Word
BY DEF Update

LEMMA ArrivesKeepsType ==
  ASSUME TypeOK, NEW d \in Datagram, Arrives(d)
  PROVE  TypeOK'
BY BridgeAssumption DEF Arrives, TypeOK, setupVars, BridgeAssumption

\* Every variable of the bridge keeps its type, for any mappings, any consoles
\* and any capacities: the universes of main.go stay 16 bits wide and ReceivedDmx
\* within its capacity.
THEOREM TypeCorrect == Spec => []TypeOK
<1>1. Init => TypeOK
  <2> SUFFICES ASSUME Init PROVE TypeOK
    OBVIOUS
  <2>1. ArtnetUniverse \in Nat /\ SeqBytes \in Nat /\ SeqBytes > 1 /\ SocketMax \in Nat
        /\ ReceivedCap \in Nat /\ Len(MergeInputs) \in Nat
    BY BridgeAssumption, PortAddressIsNat DEF BridgeAssumption
  <2>2. Uint16(ArtnetUniverse) \in Word
    BY <2>1, Uint16Word
  <2>3. seq \in SeqByte /\ added \in 0..Len(MergeInputs)
    BY <2>1 DEF Init, SeqByte
  <2>4. /\ socket \in Seq(Datagram) /\ Len(socket) <= SocketMax
        /\ received \in Seq(ReceivedFrame) /\ Len(received) <= ReceivedCap
    BY <2>1 DEF Init
  <2> QED BY <2>2, <2>3, <2>4 DEF Init, TypeOK
<1>2. TypeOK /\ [Next]_vars => TypeOK'
  <2> SUFFICES ASSUME TypeOK, [Next]_vars PROVE TypeOK'
    OBVIOUS
  <2>1. CASE AddMapping
    <3>1. added + 1 \in 1..Len(MergeInputs)
      BY <2>1, BridgeAssumption DEF AddMapping, TypeOK, BridgeAssumption
    <3> DEFINE new == ArtNet(Adding.src)
               out == Uint16(Adding.out)
    <3>2. out \in Word
      BY <3>1, PairWords DEF Adding
    <3>3. sources' = [id \in DOMAIN sources \cup {new} |->
                        IF id = new THEN out ELSE sources[id]]
      BY <2>1 DEF AddMapping
    <3> HIDE DEF new, out
    <3>4. \A id \in DOMAIN sources' : sources'[id] \in Word
      BY <3>2, <3>3 DEF TypeOK
    <3> QED BY <2>1, <3>4 DEF AddMapping, TypeOK
  <2>2. CASE AllowSource
    <3>1. added + 1 \in 1..Len(MergeInputs)
      BY <2>2, BridgeAssumption DEF AllowSource, TypeOK, BridgeAssumption
    <3>2. Uint16(Adding.src) \in Word
      BY <3>1, PairWords DEF Adding
    <3> QED BY <2>2, <3>2 DEF AllowSource, TypeOK
  <2>3. CASE AddOutputUniverse
    <3>1. added + 1 \in 1..Len(MergeInputs) /\ added' \in 0..Len(MergeInputs)
      BY <2>3, BridgeAssumption DEF AddOutputUniverse, TypeOK, BridgeAssumption
    <3>2. Uint16(Adding.out) \in Word
      BY <3>1, PairWords DEF Adding
    <3> QED BY <2>3, <3>1, <3>2 DEF AddOutputUniverse, TypeOK
  <2>4. CASE NodeReceives
    <3>1. /\ socket' \in Seq(Datagram) /\ Len(socket') <= SocketMax
          /\ Head(socket) \in Datagram
      BY <2>4, BridgeAssumption DEF NodeReceives, TypeOK, BridgeAssumption
    <3> DEFINE rf == [ip |-> Head(socket).ip, universe |-> Head(socket).universe]
    <3>2. rf \in ReceivedFrame
      BY <3>1 DEF Datagram, ReceivedFrame
    <3>3. received' = received \/ received' = TrySend(received, ReceivedCap, rf)
      BY <2>4 DEF NodeReceives
    <3> HIDE DEF rf
    <3>4. received' \in Seq(ReceivedFrame) /\ Len(received') <= ReceivedCap
      <4>1. /\ TrySend(received, ReceivedCap, rf) \in Seq(ReceivedFrame)
            /\ Len(TrySend(received, ReceivedCap, rf)) <= ReceivedCap
        BY <3>2, TrySendKeepsSeq, BridgeAssumption DEF TypeOK, BridgeAssumption
      <4> QED BY <3>3, <4>1 DEF TypeOK
    <3> QED BY <2>4, <3>1, <3>4 DEF NodeReceives, TypeOK, setupVars
  <2>5. ASSUME NEW u \in due, SendDmxUniverse(u) PROVE TypeOK'
    <3>1. seq' \in SeqByte /\ u \in Nat
      BY <2>5, NextSeqInRange, SeqBytesRange, WordIsNat DEF SendDmxUniverse, TypeOK
    <3>2. socket' \in Seq(Datagram) /\ Len(socket') <= SocketMax
      BY <2>5, <3>1, SendKeepsSocket DEF TypeOK
    <3> QED BY <2>5, <3>1, <3>2 DEF SendDmxUniverse, TypeOK, setupVars
  <2>6. CASE ForwardLocal
    <3>1. due' \subseteq Word
      BY <2>6, UpdateKeepsDue DEF ForwardLocal, TypeOK
    <3> QED BY <2>6, <3>1 DEF ForwardLocal, TypeOK, setupVars
  <2>7. CASE ForwardArtNet
    <3>1. due' \subseteq Word
      BY <2>7, UpdateKeepsDue DEF ForwardArtNet, TypeOK
    <3>2. received' \in Seq(ReceivedFrame) /\ Len(received') <= ReceivedCap
      BY <2>7, BridgeAssumption DEF ForwardArtNet, TypeOK, BridgeAssumption
    <3> QED BY <2>7, <3>1, <3>2 DEF ForwardArtNet, TypeOK, setupVars
  <2>8. CASE ConsoleSends
    <3>1. 0 \in SeqByte
      BY BridgeAssumption DEF BridgeAssumption, SeqByte
    <3>2. ASSUME NEW c \in Consoles
          PROVE  Dmx(c.ip, c.universe, 0) \in Datagram /\ Dmx(c.ip, 0, 0) \in Datagram
      <4>1. c.universe \in Nat
        BY BridgeAssumption, PortAddressIsNat DEF BridgeAssumption
      <4> QED BY <3>1, <4>1, DmxIsDatagram
    <3> QED BY <2>8, <3>2, OtherIsDatagram, ArrivesKeepsType DEF ConsoleSends
  <2>9. CASE Duplicated \/ Overtaken
    BY <2>9, NetworkKeepsSocket DEF TypeOK, setupVars
  <2>10. CASE UNCHANGED vars
    BY <2>10 DEF vars, setupVars, TypeOK
  <2> QED
    BY <2>1, <2>2, <2>3, <2>4, <2>5, <2>6, <2>7, <2>8, <2>9, <2>10 DEF Next
<1> QED BY <1>1, <1>2, PTL DEF Spec

----------------------------------------------------------------------------
(* The bridge does not hear itself.                                        *)

\* What setting up the mappings needs to know of the settings: every output
\* universe is in the range of the documentation.
OutputsOnTheWire == \A i \in 1..Len(MergeInputs) : MergeInputs[i].out \in PortAddress

LEMMA OutputStays ==
  ASSUME OutputsOnTheWire, NEW i \in 1..Len(MergeInputs)
  PROVE  Uint16(MergeInputs[i].out) \in PortAddress
BY Uint16Stays DEF OutputsOnTheWire

\* No pair is half set up once the main loop and the forwarders run.
LEMMA ReadyIsSetUp ==
  ASSUME TypeOK, Ready
  PROVE  step = "mapping"
BY DEF TypeOK, Ready

\* The filter's view of the set-up does not change but by its steps.
LEMMA SetUpStays ==
  ASSUME UNCHANGED setupVars
  PROVE  BeingAdded' = BeingAdded
BY DEF setupVars, BeingAdded, Adding

\* A packet that is dropped or delivered leaves the others as they were.
LEMMA TrySendElements ==
  ASSUME NEW S, NEW ch \in Seq(S), NEW cap \in Nat, NEW x \in S,
         NEW i \in DOMAIN TrySend(ch, cap, x)
  PROVE  TrySend(ch, cap, x)[i] = x \/ (i \in DOMAIN ch /\ TrySend(ch, cap, x)[i] = ch[i])
BY DEF TrySend

LEMMA TailElements ==
  ASSUME NEW S, NEW s \in Seq(S), s # <<>>, NEW i \in DOMAIN Tail(s)
  PROVE  i + 1 \in DOMAIN s /\ Tail(s)[i] = s[i + 1]
OBVIOUS

LEMMA AppendElements ==
  ASSUME NEW S, NEW s \in Seq(S), NEW x \in S, NEW i \in DOMAIN Append(s, x)
  PROVE  Append(s, x)[i] = x \/ (i \in DOMAIN s /\ Append(s, x)[i] = s[i])
OBVIOUS

\* What a console sends is no packet of the tool.
LEMMA ConsoleArrives ==
  ASSUME ConsoleSends
  PROVE  \E d \in Datagram : Arrives(d) /\ d.ip # OwnIP
<1>1. ASSUME NEW c \in Consoles
      PROVE  /\ Dmx(c.ip, c.universe, 0) \in Datagram /\ Dmx(c.ip, c.universe, 0).ip # OwnIP
             /\ Dmx(c.ip, 0, 0) \in Datagram /\ Dmx(c.ip, 0, 0).ip # OwnIP
  <2>1. c.universe \in Nat /\ c.ip # OwnIP
    BY BridgeAssumption, PortAddressIsNat DEF BridgeAssumption
  <2>2. Dmx(c.ip, c.universe, 0).ip = c.ip /\ Dmx(c.ip, 0, 0).ip = c.ip
    BY DEF Dmx
  <2> QED BY <2>1, <2>2, SeqBytesRange, DmxIsDatagram
<1>2. ASSUME NEW d \in Datagram, NEW k \in {"poll", "other"}
      PROVE  [d EXCEPT !.kind = k].ip = d.ip
  BY DEF Datagram
<1> QED BY <1>1, <1>2, OtherIsDatagram DEF ConsoleSends

\* While main adds mappings to a node that already receives (main.go:133), the
\* merger knows the output of the pair being set up before the filter does
\* (main.go:145, main.go:148), and of no other; what is due and what an own packet
\* under way carries the filter holds without exception.
THEOREM OwnUniverses ==
  ASSUME LocalIP = OwnIP, OutputsOnTheWire
  PROVE  Spec => []OwnUniversesKnown
<1>1. Init => OwnUniversesKnown
  <2> SUFFICES ASSUME Init PROVE OwnUniversesKnown
    OBVIOUS
  <2>1. ArtnetUniverse \in PortAddress
    BY BridgeAssumption DEF BridgeAssumption
  <2>2. Uint16(ArtnetUniverse) \in PortAddress
    BY <2>1, Uint16Stays
  <2>3. outputUniverses \subseteq PortAddress
    BY <2>2 DEF Init
  <2> QED BY <2>3 DEF Init, OwnUniversesKnown, NeverMergesItself
<1>2. TypeOK /\ OwnUniversesKnown /\ [Next]_vars => OwnUniversesKnown'
  <2> SUFFICES ASSUME TypeOK, OwnUniversesKnown, [Next]_vars PROVE OwnUniversesKnown'
    OBVIOUS
  <2>1. CASE AddMapping
    <3>1. step = "mapping" /\ BeingAdded' = {Uint16(Adding.out)}
      BY <2>1 DEF AddMapping, BeingAdded, Adding
    <3> DEFINE new == ArtNet(Adding.src)
               out == Uint16(Adding.out)
    <3>2. /\ sources' = [id \in DOMAIN sources \cup {new} |->
                           IF id = new THEN out ELSE sources[id]]
          /\ BeingAdded' = {out} /\ BeingAdded = {}
          /\ UNCHANGED <<outputUniverses, socket, received, due>>
      BY <2>1, <3>1 DEF AddMapping, BeingAdded
    <3> HIDE DEF new, out
    <3> QED BY <3>2 DEF OwnUniversesKnown, NeverMergesItself
  <2>2. CASE AllowSource
    <3>1. BeingAdded' = BeingAdded
      BY <2>2 DEF AllowSource, BeingAdded, Adding
    <3> QED BY <2>2, <3>1 DEF AllowSource, OwnUniversesKnown, NeverMergesItself
  <2>3. CASE AddOutputUniverse
    <3>1. added + 1 \in 1..Len(MergeInputs)
      BY <2>3, BridgeAssumption DEF AddOutputUniverse, TypeOK, BridgeAssumption
    <3>2. Uint16(Adding.out) \in PortAddress
      BY <3>1, OutputStays DEF Adding
    <3>3. /\ BeingAdded = {Uint16(Adding.out)} /\ BeingAdded' = {}
          /\ outputUniverses' = outputUniverses \cup {Uint16(Adding.out)}
          /\ UNCHANGED <<sources, socket, received, due>>
      BY <2>3 DEF AddOutputUniverse, BeingAdded
    <3> QED BY <3>2, <3>3 DEF OwnUniversesKnown, NeverMergesItself
  <2>4. CASE NodeReceives
    <3> DEFINE d == Head(socket)
    <3>1. /\ socket \in Seq(Datagram) /\ socket # <<>> /\ d \in Datagram
          /\ 1 \in DOMAIN socket /\ d = socket[1]
      BY <2>4 DEF NodeReceives, TypeOK
    <3>2. d.ip = OwnIP => Loopback(d)
      BY <3>1 DEF OwnUniversesKnown, Loopback
    <3>3. NeverMergesItself'
      <4> SUFFICES ASSUME NEW i \in DOMAIN received' PROVE received'[i].ip # OwnIP
        BY DEF NeverMergesItself
      <4>1. CASE received' = received
        BY <4>1 DEF OwnUniversesKnown, NeverMergesItself
      <4>2. CASE /\ d.ip # OwnIP
                 /\ received' = TrySend(received, ReceivedCap,
                                        [ip |-> d.ip, universe |-> d.universe])
        <5> DEFINE rf == [ip |-> d.ip, universe |-> d.universe]
        <5>1. rf \in ReceivedFrame /\ rf.ip # OwnIP
          BY <3>1, <4>2 DEF Datagram, ReceivedFrame
        <5>2. received' = TrySend(received, ReceivedCap, rf)
          BY <4>2
        <5> HIDE DEF rf
        <5>3. received'[i] = rf \/ (i \in DOMAIN received /\ received'[i] = received[i])
          BY <5>1, <5>2, TrySendElements, BridgeAssumption DEF TypeOK, BridgeAssumption
        <5> QED BY <5>1, <5>3 DEF OwnUniversesKnown, NeverMergesItself
      <4> QED BY <2>4, <3>2, <4>1, <4>2 DEF NodeReceives
    <3>4. \A i \in DOMAIN socket' :
            socket'[i].ip = OwnIP => socket'[i].universe \in outputUniverses
      BY <2>4, <3>1, TailElements DEF NodeReceives, OwnUniversesKnown
    <3> QED BY <2>4, <3>3, <3>4, SetUpStays DEF NodeReceives, OwnUniversesKnown, setupVars
  <2>5. ASSUME NEW u \in due, SendDmxUniverse(u) PROVE OwnUniversesKnown'
    <3>1. u \in outputUniverses /\ u \in PortAddress /\ u \in Nat
      BY PortAddressIsNat DEF OwnUniversesKnown
    <3>2. seq' \in SeqByte
      BY <2>5, NextSeqInRange, SeqBytesRange DEF SendDmxUniverse, TypeOK
    <3>3. Dmx(OwnIP, u, seq').universe = u
      BY <3>1, PortAddressRoundTrip DEF Dmx
    <3>4. \A i \in DOMAIN socket' :
            \/ socket'[i] = Dmx(OwnIP, u, seq')
            \/ i \in DOMAIN socket /\ socket'[i] = Passed(socket[i])
      BY <2>5, <3>1, <3>2, SendKeepsSocket DEF TypeOK
    <3>5. \A i \in DOMAIN socket' :
            socket'[i].ip = OwnIP => socket'[i].universe \in outputUniverses
      BY <3>1, <3>3, <3>4, PassedKeeps DEF OwnUniversesKnown, TypeOK
    <3> QED BY <2>5, <3>5, SetUpStays
         DEF SendDmxUniverse, OwnUniversesKnown, NeverMergesItself, setupVars
  <2>6. CASE ForwardLocal
    <3>1. BeingAdded = {} /\ BeingAdded' = {}
      BY <2>6, ReadyIsSetUp DEF ForwardLocal, BeingAdded, setupVars
    <3> QED BY <2>6, <3>1
         DEF ForwardLocal, Update, OwnUniversesKnown, NeverMergesItself, setupVars
  <2>7. CASE ForwardArtNet
    <3>0. BeingAdded = {} /\ BeingAdded' = {}
      BY <2>7, ReadyIsSetUp DEF ForwardArtNet, BeingAdded, setupVars
    <3>1. due' \subseteq outputUniverses
      BY <2>7, <3>0 DEF ForwardArtNet, Update, OwnUniversesKnown
    <3>2. NeverMergesItself'
      BY <2>7, TailElements DEF ForwardArtNet, OwnUniversesKnown, NeverMergesItself, TypeOK
    <3> QED BY <2>7, <3>1, <3>2, SetUpStays DEF ForwardArtNet, OwnUniversesKnown, setupVars
  <2>8. CASE ConsoleSends
    <3>1. PICK d \in Datagram : Arrives(d) /\ d.ip # OwnIP
      BY <2>8, ConsoleArrives
    <3>2. \A i \in DOMAIN socket' :
            socket'[i].ip = OwnIP => socket'[i].universe \in outputUniverses
      BY <3>1, AppendElements DEF Arrives, OwnUniversesKnown, TypeOK
    <3> QED BY <3>1, <3>2, SetUpStays DEF Arrives, OwnUniversesKnown, NeverMergesItself, setupVars
  <2>9. CASE Duplicated \/ Overtaken
    BY <2>9, SetUpStays, NetworkKeepsSocket
       DEF TypeOK, OwnUniversesKnown, NeverMergesItself, setupVars
  <2>10. CASE UNCHANGED vars
    BY <2>10, SetUpStays DEF vars, setupVars, OwnUniversesKnown, NeverMergesItself
  <2> QED
    BY <2>1, <2>2, <2>3, <2>4, <2>5, <2>6, <2>7, <2>8, <2>9, <2>10 DEF Next
<1> QED BY <1>1, <1>2, TypeCorrect, PTL DEF Spec

\* "The tool's own output universes are filtered out by source IP so it never
\* merges with itself" (README.md:201): true of any mappings whose outputs are
\* in range, of any consoles and any number of packets under way, provided the
\* address the node compares with is the one its packets carry.
THEOREM NoSelfMerge ==
  ASSUME LocalIP = OwnIP, OutputsOnTheWire
  PROVE  Spec => []NeverMergesItself
<1>1. OwnUniversesKnown => NeverMergesItself
  BY DEF OwnUniversesKnown
<1> QED BY <1>1, OwnUniverses, PTL
----------------------------------------------------------------------------
(* The sequence.                                                           *)

\* The sequence of an own packet, moved on by what was sent after it, is that of
\* the node, or has wrapped since.
OwnSequence(d, s) ==
  /\ d.seq # 0
  /\ d.since < SeqBytes - 1 =>
       d.seq + d.since = s \/ d.seq + d.since = s + (SeqBytes - 1)

SeqInv == \A i \in DOMAIN socket : socket[i].ip = OwnIP => OwnSequence(socket[i], seq)

\* A send moves the packets under way on, and the node with them.
LEMMA SendKeepsSequence ==
  ASSUME TypeOK, NEW d \in Datagram, d.ip = OwnIP, OwnSequence(d, seq)
  PROVE  OwnSequence(Passed(d), NextSeq)
<1> DEFINE p == Passed(d)
           s == NextSeq
<1>1. /\ p.seq = d.seq /\ p.since \in Int
      /\ p.since < SeqBytes - 1 => p.since = d.since + 1
  BY PassedKeeps, SeqBytesRange DEF Datagram
<1>2. /\ d.seq \in 0..(SeqBytes - 1) /\ d.since \in 0..(SeqBytes - 1)
      /\ seq \in 0..(SeqBytes - 1)
  BY SeqBytesRange DEF Datagram, TypeOK
<1>3. s = IF seq + 1 = SeqBytes THEN 1 ELSE seq + 1
  BY NextSeqIs DEF TypeOK
<1>4. ASSUME p.since < SeqBytes - 1
      PROVE  p.seq + p.since = s \/ p.seq + p.since = s + (SeqBytes - 1)
  <2> HIDE DEF p, s
  <2>1. /\ p.since = d.since + 1 /\ p.seq = d.seq
        /\ d.seq + d.since = seq \/ d.seq + d.since = seq + (SeqBytes - 1)
    BY <1>1, <1>2, <1>4, SeqBytesRange DEF OwnSequence
  <2> QED BY <1>2, <1>3, <1>4, <2>1, SeqBytesRange
<1>5. p.seq # 0
  BY <1>1 DEF OwnSequence
<1> QED BY <1>4, <1>5 DEF OwnSequence

\* "The sequence field increments per packet and wraps" past zero (README.md:192):
\* for any size of the byte, any number of packets under way, lost, repeated or
\* out of order.
THEOREM SequencesApart == Spec => []SequenceTellsApart
<1>1. Init => SeqInv
  BY DEF Init, SeqInv
<1>2. TypeOK /\ SeqInv /\ [Next]_vars => SeqInv'
  <2> SUFFICES ASSUME TypeOK, SeqInv, [Next]_vars,
                      NEW i \in DOMAIN socket', socket'[i].ip = OwnIP
               PROVE  OwnSequence(socket'[i], seq')
    BY DEF SeqInv
  <2>1. CASE UNCHANGED seq /\ \E k \in DOMAIN socket : socket'[i] = socket[k]
    BY <2>1 DEF SeqInv, OwnSequence
  <2>2. ASSUME NEW u \in due, SendDmxUniverse(u)
        PROVE  OwnSequence(socket'[i], seq')
    <3>1. seq' = NextSeq /\ seq' \in 1..(SeqBytes - 1) /\ seq' \in SeqByte /\ u \in Nat
      BY <2>2, NextSeqInRange, SeqBytesRange, WordIsNat DEF SendDmxUniverse, TypeOK
    <3>2. \/ socket'[i] = Dmx(OwnIP, u, seq')
          \/ i \in DOMAIN socket /\ socket'[i] = Passed(socket[i])
      BY <2>2, <3>1, SendKeepsSocket DEF TypeOK
    <3>3. CASE socket'[i] = Dmx(OwnIP, u, seq')
      <4>1. socket'[i].seq = seq' /\ socket'[i].since = 0
        BY <3>3 DEF Dmx
      <4> QED BY <3>1, <4>1 DEF OwnSequence
    <3>4. CASE i \in DOMAIN socket /\ socket'[i] = Passed(socket[i])
      <4>1. socket[i] \in Datagram /\ socket[i].ip = OwnIP /\ OwnSequence(socket[i], seq)
        BY <3>4, PassedKeeps DEF TypeOK, SeqInv
      <4> QED BY <3>1, <3>4, <4>1, SendKeepsSequence
    <3> QED BY <3>2, <3>3, <3>4
  <2>3. CASE NodeReceives
    BY <2>1, <2>3, TailElements DEF NodeReceives, TypeOK
  <2>4. CASE ConsoleSends
    <3>1. PICK d \in Datagram : Arrives(d) /\ d.ip # OwnIP
      BY <2>4, ConsoleArrives
    <3>2. socket'[i] = d \/ (i \in DOMAIN socket /\ socket'[i] = socket[i])
      BY <3>1, AppendElements DEF Arrives, TypeOK
    <3> QED BY <2>1, <3>1, <3>2 DEF Arrives
  <2>5. CASE Duplicated \/ Overtaken
    BY <2>1, <2>5, NetworkKeepsSocket DEF TypeOK
  <2>6. CASE AddMapping \/ AllowSource \/ AddOutputUniverse
    BY <2>1, <2>6 DEF AddMapping, AllowSource, AddOutputUniverse
  <2>7. CASE ForwardLocal \/ ForwardArtNet \/ UNCHANGED vars
    BY <2>1, <2>7 DEF ForwardLocal, ForwardArtNet, vars
  <2> QED BY <2>2, <2>3, <2>4, <2>5, <2>6, <2>7 DEF Next
<1>3. TypeOK /\ SeqInv => SequenceTellsApart
  <2> SUFFICES ASSUME TypeOK, SeqInv,
                      NEW i \in DOMAIN socket, socket[i].ip = OwnIP,
                      NEW j \in DOMAIN socket, socket[j].ip = OwnIP,
                      socket[i].since < SeqBytes - 1, socket[j].since < SeqBytes - 1,
                      socket[i].since # socket[j].since
               PROVE  socket[i].seq # socket[j].seq
    BY DEF SequenceTellsApart, SeqInv, OwnSequence
  <2>1. /\ OwnSequence(socket[i], seq) /\ OwnSequence(socket[j], seq)
        /\ socket[i] \in Datagram /\ socket[j] \in Datagram
    BY DEF SeqInv, TypeOK
  <2>2. /\ socket[i].seq \in Int /\ socket[i].since \in 0..(SeqBytes - 1)
        /\ socket[j].seq \in Int /\ socket[j].since \in 0..(SeqBytes - 1) /\ seq \in Int
    BY <2>1, SeqBytesRange DEF Datagram, TypeOK
  <2> QED BY <2>1, <2>2, SeqBytesRange DEF OwnSequence
<1> QED BY <1>1, <1>2, <1>3, TypeCorrect, PTL DEF Spec
=============================================================================
