----------------------------- MODULE SerialPort -----------------------------
(***************************************************************************)
(* The serial port of darwin and linux (dmx/serial_unix.go).               *)
(*                                                                         *)
(* ReadChunk goes round a loop: it serves what has been decoded, decodes   *)
(* what has been read, or reads.  One action is one round of it, or one    *)
(* byte of the decoder's loop within it.                                   *)
(***************************************************************************)
EXTENDS Parmrk, SequencesExt

CONSTANTS
  Byte,            \* the values a slot can have
  RawBufSize,      \* the size of carryBuf, 4096
  BufSize,         \* the size of the caller's buffer, 1024 in the receiver
  UsbPayload,      \* usbPayloadSize: a read of fewer bytes is a short one
  Platforms,       \* the platforms the program can be built for
  TtyMax           \* bound: the bytes the tty holds for the port

\* breakFromShortRead, and the events that the driver reports in the data.
Platform == [shortReadBreaks : BOOLEAN, lineEvents : SUBSET {"break", "error"}]

Darwin == [shortReadBreaks |-> TRUE, lineEvents |-> {}]
Linux  == [shortReadBreaks |-> FALSE, lineEvents |-> {"break", "error"}]

\* A short read stands for a break only "where the driver reports no break of
\* its own" (serial_unix.go:207), nor any other event of the line.
ASSUME SerialAssumption ==
  /\ 0 \in Byte /\ Byte \subseteq 0..FF
  /\ RawBufSize \in Nat \ {0} /\ BufSize \in Nat \ {0} /\ UsbPayload \in Nat
  /\ Platforms \subseteq Platform
  /\ \A p \in Platforms : p.shortReadBreaks => p.lineEvents = {}
  /\ TtyMax \in Nat

VARIABLES
  platform,     \* the one it is built for
  running,      \* FALSE once ReadChunk has returned an error
  tty,          \* what the tty holds
  decState,     \* parmrkDecoder.state
  carry,        \* bytes read and not yet decoded
  out,          \* bytes decoded and not yet returned
  mark,         \* the event pending once out drains
  pendingBreak, \* a short read is waiting to be reported as a break
  undecoded,    \* what the tty held of the bytes in carry
  due           \* the items decoded from the line and not yet returned

portVars == <<decState, carry, out, mark, pendingBreak>>
vars     == <<platform, running, tty, portVars, undecoded, due>>

----------------------------------------------------------------------------
(* The tty: bytes, each with the item that it is the last byte of, and     *)
(* whether the adapter's buffer was found empty after it.                  *)

Item == {BreakItem, ErrorItem} \cup {DataItem(b) : b \in Byte}
Cell == [byte : Byte \cup {0, FF}, ends : {<<>>} \cup {<<item>> : item \in Item}, flush : BOOLEAN]

Cells(bytes, item) ==
  [i \in DOMAIN bytes |-> [byte  |-> bytes[i],
                           ends  |-> IF i = Len(bytes) THEN <<item>> ELSE <<>>,
                           flush |-> FALSE]]

BytesOf(cells) == [i \in DOMAIN cells |-> cells[i].byte]

\* An empty buffer of the adapter stands for a break.
Ended(cell) == cell.ends \o (IF cell.flush THEN <<BreakItem>> ELSE <<>>)

Occur(bytes, item) == /\ Len(tty) + Len(bytes) <= TtyMax
                      /\ tty' = tty \o Cells(bytes, item)
                      /\ UNCHANGED <<running, portVars, undecoded, due>>

SlotArrives  == \E b \in Byte : Occur(DataBytes(b), DataItem(b))
BreakArrives == "break" \in platform.lineEvents /\ Occur(BreakBytes, BreakItem)
ErrorArrives == "error" \in platform.lineEvents /\ \E b \in Byte \ {0} : Occur(ErrorBytes(b), ErrorItem)

----------------------------------------------------------------------------
(* ReadChunk.                                                              *)

\* It returns these bytes and this event, which are due no longer.
Event(m) == CASE m = "none"  -> <<>>
              [] m = "break" -> <<BreakItem>>
              [] m = "error" -> <<ErrorItem>>

Items(bytes, m) == [i \in DOMAIN bytes |-> DataItem(bytes[i])] \o Event(m)

Return(bytes, m) ==
  due' = SubSeq(due, Len(Items(bytes, m)) + 1, Len(due))

\* Mutant: the event is returned with the bytes that fit, not with the last.
MarkAtOnce(rest) == mark

\* The caller's buffer filled first: the event stays pending.
MarkNow(rest) == IF rest = <<>> THEN mark ELSE "none"

\* A call of decode that has begun goes on to the next event or the last byte.
Decoding == mark = "none" /\ carry # <<>>

\* What the next round returns, if out or mark holds anything.
Served == SubSeq(out, 1, IF Len(out) < BufSize THEN Len(out) ELSE BufSize)
Unserved == SubSeq(out, BufSize + 1, Len(out))

ServeData ==
  /\ running /\ ~Decoding /\ out # <<>>
  /\ Return(Served, MarkNow(Unserved))
  /\ out' = Unserved
  /\ mark' = IF MarkNow(Unserved) = "none" THEN mark ELSE "none"
  /\ UNCHANGED <<running, tty, decState, carry, undecoded, pendingBreak>>

ServeMark ==
  /\ running /\ out = <<>> /\ mark # "none"
  /\ Return(<<>>, mark)
  /\ mark' = "none"
  /\ UNCHANGED <<running, tty, decState, carry, undecoded, out, pendingBreak>>

\* Mutant: what follows an event is dropped.
StashNothing(d) == IF d.mark = "none" THEN Tail(carry) ELSE <<>>

\* What follows an event stays for the next call.
Stash(d) == Tail(carry)

\* The break of a short read is found with the last byte of the read, if no
\* event of the driver is.
Decode ==
  /\ running /\ Decoding
  /\ LET d == DecodeByte([state |-> decState, out |-> out, mark |-> "none"], Head(carry))
         short == d.mark = "none" /\ Stash(d) = <<>> /\ pendingBreak
     IN  /\ decState' = d.state
         /\ carry' = Stash(d)
         /\ out' = d.out
         /\ mark' = IF short THEN "break" ELSE d.mark
         /\ pendingBreak' = IF short THEN FALSE ELSE pendingBreak
  /\ due' = due \o Ended(Head(undecoded))
  /\ undecoded' = Tail(undecoded)
  /\ UNCHANGED <<running, tty>>

Reading == running /\ out = <<>> /\ mark = "none" /\ carry = <<>>

\* Mutant: a short read is taken for a break on every platform.
ShortAnywhere(n) == n < UsbPayload

Short(n) == platform.shortReadBreaks /\ n < UsbPayload

\* A read returns n bytes; if they are fewer than the adapter's payload, its
\* buffer was empty after them.
Read == \E n \in 1..Len(tty) :
  /\ Reading /\ n <= RawBufSize
  /\ LET cells == SubSeq(tty, 1, n)
     IN  /\ carry' = BytesOf(cells)
         /\ pendingBreak' = (pendingBreak \/ Short(n))
         /\ undecoded' = undecoded \o [cells EXCEPT ![n].flush = Short(n)]
  /\ tty' = SubSeq(tty, n + 1, Len(tty))
  /\ UNCHANGED <<running, decState, out, mark, due>>

\* The deadline passes: ReadChunk returns no bytes and no event.
ReadTimesOut == Reading /\ tty = <<>> /\ UNCHANGED vars

\* The adapter is gone: the receiver does not call ReadChunk again.
ReadFails == /\ Reading
             /\ running' = FALSE
             /\ UNCHANGED <<tty, portVars, undecoded, due>>

Init == /\ platform \in Platforms
        /\ running = TRUE
        /\ tty = <<>> /\ carry = <<>> /\ out = <<>> /\ undecoded = <<>> /\ due = <<>>
        /\ decState = "idle" /\ mark = "none" /\ pendingBreak = FALSE

Step == \/ SlotArrives \/ BreakArrives \/ ErrorArrives
        \/ ServeData \/ ServeMark
        \/ Decode
        \/ Read \/ ReadTimesOut \/ ReadFails

Next == Step /\ UNCHANGED platform

Spec == Init /\ [][Next]_vars
----------------------------------------------------------------------------
(* Properties.                                                             *)

\* Every variable has its type; nothing outgrows the port's buffers, and only a
\* platform without a break signal takes a short read for one.
TypeOK ==
  /\ platform \in Platforms
  /\ running \in BOOLEAN
  /\ tty \in Seq(Cell) /\ Len(tty) <= TtyMax
  /\ decState \in {"idle", "sawFF", "sawFF00"}
  /\ carry \in Seq(Byte \cup {0, FF}) /\ Len(carry) <= RawBufSize
  /\ out \in Seq(Byte) /\ Len(out) <= RawBufSize
  /\ mark \in Marker
  /\ pendingBreak \in BOOLEAN
  /\ pendingBreak => platform.shortReadBreaks
  /\ undecoded \in Seq(Cell)
  /\ due \in Seq(Item)

\* "The bytes before a break can never be reported after it" (parmrk.go:45):
\* what ReadChunk is about to return is what came first on the line, a literal
\* FF once, each event with the bytes before it, however the reads cut the
\* escapes and however little fits the caller's buffer.
ReturnsInOrder ==
  LET next == IF out # <<>> THEN Items(Served, MarkNow(Unserved))
              ELSE Items(<<>>, mark)
  IN  IsPrefix(next, due)

\* "ReadChunk hands back the data that arrived before a line event together with
\* the event itself" (receiver.go:164): when the port reads again, everything
\* that it has read has been decoded and returned, and no event is left for later.
ReturnsEverything == Reading => undecoded = <<>> /\ due = <<>>
=============================================================================
