-------------------------- MODULE WindowsReception --------------------------
(***************************************************************************)
(* BreakReceiver behind the serial port of Windows (ReadChunk of           *)
(* dmx/serial_windows.go), on a DMX line.                                  *)
(*                                                                         *)
(* The driver keeps the bytes it receives in their order, but of the line  *)
(* events only which of them have occurred since it was last asked.  A     *)
(* read ends at a line event (external: the adapter hands over what it has *)
(* on any change of the line status), and ReadChunk then asks which it     *)
(* was.  The line does not wait meanwhile: an event that comes while no    *)
(* read is waiting is reported with bytes it did not follow, or together   *)
(* with another event as one.                                              *)
(***************************************************************************)
EXTENDS BreakReceiver, FiniteSetsExt

CONSTANTS
  BufSize,   \* the size of the caller's buffer, 1024 in the receiver
  SlotsMax,  \* bound: the slots of a packet, with its start code
  QueueMax   \* bound: the bytes that the driver holds

\* Windows reports breaks (portname_windows.go:56).
ASSUME WindowsAssumption ==
  /\ BufSize \in Nat \ {0} /\ SlotsMax \in Nat \ {0} /\ QueueMax \in Nat \ {0}
  /\ ~InferBreaks

VARIABLES
  slots,    \* the slots so far of the packet on the line, start code first
  clean,    \* history: what it has been through so far
  last,     \* history: the packet whose break is to be reported next
  queue,    \* the bytes that the driver holds
  status,   \* the line events it has noted since it was last asked
  port,     \* "reading" and "asking" in ReadChunk, "handed" after it
  chunk,    \* the bytes that ReadChunk has read
  marker    \* the event that it returns with them

lineVars == <<slots, clean, last>>
portVars == <<queue, status, port, chunk, marker>>
vars     == <<rxVars, lineVars, portVars>>

----------------------------------------------------------------------------
(* The line.  A packet is timely when a read was waiting for its breaks    *)
(* and for every event between them.                                       *)

Unclean == [timely |-> FALSE, intact |-> FALSE]
Nothing == [timely |-> FALSE, channels |-> <<>>]

\* The receiver joins a line that is in use; the port has been purged.
Init == /\ RxInit
        /\ slots = <<0>>
        /\ clean = Unclean /\ last = Nothing
        /\ queue = <<>> /\ status = {}
        /\ port = "reading" /\ chunk = <<>> /\ marker = "none"

ReadWaits == port = "reading" /\ Len(queue) < BufSize
Timely    == ReadWaits /\ status = {}

\* The driver notes an event behind these bytes, and a read that waits ends.
Event(e, bytes) ==
  /\ status' = status \cup {e}
  /\ IF ReadWaits THEN chunk' = bytes /\ queue' = <<>> /\ port' = "asking"
                  ELSE queue' = bytes /\ UNCHANGED <<chunk, port>>
  /\ UNCHANGED <<rxVars, marker>>

\* The line goes on with another slot.
NextSlot(b) == /\ Len(slots) < SlotsMax /\ Len(queue) < QueueMax
               /\ slots' = Append(slots, b)
               /\ UNCHANGED last

Slot == \E b \in Byte :
  /\ NextSlot(b)
  /\ queue' = Append(queue, b)
  /\ UNCHANGED <<rxVars, clean, status, port, chunk, marker>>

\* A framing error: some byte is received for the slot all the same.
BadSlot == \E b \in Byte :
  /\ NextSlot(b)
  /\ Event("error", Append(queue, b))
  /\ clean' = [timely |-> clean.timely /\ Timely, intact |-> FALSE]

Packet == [start |-> Head(slots), data |-> Tail(slots)]

\* What the receiver should publish of the packet that ends.
Due == IF clean.intact /\ Packet.start = StartCodeDMX THEN Channels(Packet) ELSE <<>>

Break == /\ slots # <<>>
         /\ Event("break", queue)
         /\ slots' = <<>>
         /\ clean' = [timely |-> Timely, intact |-> TRUE]
         /\ last' = IF Timely /\ clean.timely THEN [timely |-> TRUE, channels |-> Due] ELSE last

----------------------------------------------------------------------------
(* ReadChunk, and the receiver that goes through what it returns.          *)

\* The buffer is full, two milliseconds pass without a byte, or a tenth of a
\* second passes without any.
ReadEnds ==
  /\ running /\ port = "reading"
  /\ chunk' = SubSeq(queue, 1, Min({Len(queue), BufSize}))
  /\ queue' = SubSeq(queue, BufSize + 1, Len(queue))
  /\ port' = "asking"
  /\ UNCHANGED <<rxVars, lineVars, status, marker>>

\* Mutant: an error takes precedence over the break that came with it.
ErrorFirst == IF "error" \in status THEN "error"
              ELSE IF "break" \in status THEN "break" ELSE "none"

BreakFirst == IF "break" \in status THEN "break"
              ELSE IF "error" \in status THEN "error" ELSE "none"

\* ClearCommError tells the events and clears them.
Ask ==
  /\ port = "asking"
  /\ marker' = BreakFirst
  /\ status' = {}
  /\ port' = "handed"
  /\ UNCHANGED <<rxVars, lineVars, queue, chunk>>

\* It fails: there is no event with these bytes, and those noted stay noted.
AskFails ==
  /\ port = "asking"
  /\ port' = "handed"
  /\ clean' = [clean EXCEPT !.timely = FALSE] /\ last' = Nothing
  /\ UNCHANGED <<rxVars, slots, queue, status, chunk, marker>>

HandByte ==
  /\ port = "handed" /\ chunk # <<>>
  /\ OnByte(Head(chunk))
  /\ chunk' = Tail(chunk)
  /\ UNCHANGED <<lineVars, queue, status, port, marker>>

\* The marker comes after the bytes, and the receiver reads again.
HandMarker ==
  /\ port = "handed" /\ chunk = <<>>
  /\ CASE marker = "break" -> OnBreak
       [] marker = "error" -> OnError
       [] OTHER            -> running /\ UNCHANGED rxVars
  /\ last' = IF marker = "break" THEN Nothing ELSE last
  /\ marker' = "none"
  /\ port' = "reading"
  /\ UNCHANGED <<slots, clean, queue, status, chunk>>

\* The read fails: the adapter is gone.
ReadFails == port = "reading" /\ Stop /\ UNCHANGED <<lineVars, portVars>>

----------------------------------------------------------------------------
Next == \/ Slot
        \/ BadSlot
        \/ Break
        \/ ReadEnds
        \/ Ask
        \/ AskFails
        \/ HandByte
        \/ HandMarker
        \/ ReadFails
        \/ Take /\ UNCHANGED <<lineVars, portVars>>

Spec == Init /\ [][Next]_vars
----------------------------------------------------------------------------
(* Properties.                                                             *)

\* Every variable has its type, and nothing outgrows its buffer.
TypeOK == /\ RxTypeOK
          /\ slots \in Seq(Byte) /\ Len(slots) <= SlotsMax
          /\ clean \in [timely : BOOLEAN, intact : BOOLEAN]
          /\ last.timely \in BOOLEAN /\ last.channels \in Seq(Byte)
          /\ queue \in Seq(Byte) /\ Len(queue) <= QueueMax
          /\ status \subseteq {"break", "error"}
          /\ port \in {"reading", "asking", "handed"}
          /\ chunk \in Seq(Byte) /\ Len(chunk) <= BufSize
          /\ marker \in {"none", "break", "error"}

\* "Reported against the bytes it actually followed" (serial_windows.go:129):
\* when the break of a timely packet is handed to the receiver, the packet is
\* published as it was on the line, unless it was damaged, is no DMX or has no
\* channels.  This is so whatever became of the packets before it: events that
\* merged, came with the wrong bytes or were never told harm only the packets
\* that they touch.
TimelyIsPublished ==
  [][port = "handed" /\ port' = "reading" /\ marker = "break" /\ last.timely =>
       frames' = IF last.channels = <<>> THEN frames
                 ELSE TrySend(frames, FramesCap, last.channels)]_vars
=============================================================================
