-------------------------- MODULE FallbackReceiver --------------------------
(***************************************************************************)
(* The receiver that frames without breaks (-no-break-detect): runFallback *)
(* and findAlignment of dmx/receiver.go, on a DMX line.                    *)
(*                                                                         *)
(* It hunts for the offset at which start codes recur, and from then on    *)
(* counts slots.  ReadChunk returns up to a buffer of slots, wherever they *)
(* begin and end, or none.  An action is one slot that arrives, the end of *)
(* a read with what the loop does before it consumes the bytes, or one     *)
(* byte consumed.                                                          *)
(*                                                                         *)
(* A slot is modelled with its place in the packet it is of, as history:   *)
(* the receiver looks at its value only.                                   *)
(***************************************************************************)
EXTENDS DmxLine, FiniteSetsExt

CONSTANTS
  Sources,     \* what a source may send: sets of packets
  FramesCap,   \* capacity of the Frames channel, 4 in NewReceiver
  ChunkMax,    \* the size of runFallback's buf, 1024: two packets less two slots
  FaultsMax    \* bound: the slots received with an error and the stalls, in all

ASSUME FallbackAssumption ==
  /\ Sources \subseteq SUBSET Packets
  /\ FramesCap \in Nat \ {0}
  /\ ChunkMax \in Nat \ {0}
  /\ FaultsMax \in Nat

PacketSize == 1 + MaxChannels

\* The slots on the line: the at-th of a packet.
Place == UNION {[of : {p}, at : 1..Len(Slots(p))] : p \in Packets}

Value(c) == Slots(c.of)[c.at]

Values(s) == [i \in 1..Len(s) |-> Value(s[i])]

VARIABLES
  running,  \* FALSE once Run has returned
  state,    \* the local variable of the same name
  frame,    \* likewise: Channels[:Length]
  syncBuf,  \* likewise: what has been read while hunting
  chunk,    \* the bytes consume has yet to go through
  frames,   \* the Frames channel
  buf,      \* the bytes of the read in progress
  source,   \* the packets that the source sends
  packet,   \* the packet on the line
  pos,      \* how many of its slots have gone by
  faults    \* how many errors and stalls there have been

rxVars   == <<running, state, frame, syncBuf, chunk, frames>>
lineVars == <<buf, source, packet, pos, faults>>
vars     == <<rxVars, lineVars>>

----------------------------------------------------------------------------
(* findAlignment.                                                          *)

\* Every boundary of read at this offset, and the one a packet later, is zero.
Fits(read, off) ==
  \A p \in off..(Len(read) - PacketSize - 1) : (p - off) % PacketSize = 0 =>
    Value(read[p + 1]) = StartCodeDMX /\ Value(read[p + PacketSize + 1]) = StartCodeDMX

Offsets(read) == IF Len(read) < 2 * PacketSize THEN {}
                 ELSE {off \in 0..(PacketSize - 1) : Fits(read, off)}

\* Mutant: the window keeps its oldest bytes.
OldestBounded(read) == IF Len(read) > 4 * PacketSize
                      THEN SubSeq(read, 1, 2 * PacketSize)
                      ELSE read

\* Keep the hunting window bounded.
Bounded(read) == IF Len(read) > 4 * PacketSize
                THEN SubSeq(read, Len(read) - 2 * PacketSize + 1, Len(read))
                ELSE read

----------------------------------------------------------------------------
(* The loop of runFallback.                                                *)

\* Mutant: bytes are consumed from where the read began, not from the offset.
AlignedFromStart(read) == read

AlignedPart(read) == SubSeq(read, Min(Offsets(read)) + 1, Len(read))

Hunt(read) ==
  IF Offsets(read) # {}
  THEN /\ state' = "waitStartCode"
       /\ chunk' = AlignedPart(read)
       /\ syncBuf' = <<>>
  ELSE /\ state' = "waitBreak"
       /\ chunk' = <<>>
       /\ syncBuf' = Bounded(read)

\* A read of at least one byte.  An error discards the frame in flight first.
OnChunk(bytes, error) ==
  /\ running /\ chunk = <<>>
  /\ frame' = IF error THEN <<>> ELSE frame
  /\ IF error \/ state = "waitBreak"
     THEN Hunt(syncBuf \o bytes)
     ELSE chunk' = bytes /\ UNCHANGED <<state, syncBuf>>
  /\ UNCHANGED <<running, frames>>

\* Mutant: a frame cut off by a gap stays open.
CloseNothing == UNCHANGED <<frame, frames, state>>

\* A partial frame was open and the line went quiet.
ClosePartial ==
  /\ frames' = TrySend(frames, FramesCap, Values(frame))
  /\ frame' = <<>>
  /\ state' = "waitStartCode"

\* Still hunting: the buffered bytes are taken for one complete packet.
TakeBuffered ==
  /\ frames' = IF Value(Head(syncBuf)) = StartCodeDMX
               THEN LET n == Min({Len(syncBuf) - 1, MaxChannels})
                    IN  TrySend(frames, FramesCap, Values(SubSeq(syncBuf, 2, n + 1)))
               ELSE frames
  /\ syncBuf' = <<>>
  /\ state' = "waitStartCode"

\* A read of no bytes, longer than the gap threshold after the last one.  The
\* marker it comes with is not looked at.
OnGap ==
  /\ running /\ chunk = <<>>
  /\ IF state = "readData" /\ frame # <<>> THEN ClosePartial /\ UNCHANGED syncBuf
     ELSE IF state = "waitBreak" /\ Len(syncBuf) > 1 THEN TakeBuffered /\ UNCHANGED frame
     ELSE UNCHANGED <<frames, frame, state, syncBuf>>
  /\ UNCHANGED <<running, chunk>>

\* The same within the threshold.
OnShortGap == running /\ chunk = <<>> /\ UNCHANGED rxVars

(* consume.                                                                *)

ConsumeStart ==
  /\ state = "waitStartCode"
  /\ state' = IF Value(Head(chunk)) = StartCodeDMX THEN "readData" ELSE "waitBreak"
  /\ UNCHANGED <<frame, frames>>

\* Mutant: a frame is complete one channel past its array.
FullPastEnd(f) == Len(f) = MaxChannels + 1

\* Mutant: a frame is complete one channel before the end of its array.
FullTooSoon(f) == Len(f) = MaxChannels - 1

Full(f) == Len(f) = MaxChannels

ConsumeData ==
  /\ state = "readData"
  /\ LET f == Append(frame, Head(chunk)) IN
       IF Full(f)
       THEN /\ frames' = TrySend(frames, FramesCap, Values(f))
            /\ frame' = <<>>
            /\ state' = "waitStartCode"
       ELSE frame' = f /\ UNCHANGED <<state, frames>>

ConsumeNone == state = "waitBreak" /\ UNCHANGED <<state, frame, frames>>

Consume == /\ chunk # <<>>
           /\ chunk' = Tail(chunk)
           /\ ConsumeStart \/ ConsumeData \/ ConsumeNone
           /\ UNCHANGED <<running, syncBuf, lineVars>>

\* The port fails, or the program is shutting down: Run returns.
Stop == /\ running /\ chunk = <<>>
        /\ running' = FALSE
        /\ UNCHANGED <<state, frame, syncBuf, chunk, frames, lineVars>>

\* The forwarder in main.go receives a frame.
Take == /\ frames # <<>>
        /\ frames' = Tail(frames)
        /\ UNCHANGED <<running, state, frame, syncBuf, chunk, lineVars>>

----------------------------------------------------------------------------
(* The line.  The source pauses for longer than GapThreshold after every   *)
(* short packet, and as it likes after a full one.                         *)

Short(p) == Len(p.data) < MaxChannels

\* The next slot of the packet goes by, or the first of the next one.
SlotGoesBy ==
  \/ pos < Len(Slots(packet)) /\ pos' = pos + 1 /\ UNCHANGED packet
  \/ pos = Len(Slots(packet)) /\ ~Short(packet) /\ pos' = 1 /\ packet' \in source

SlotArrives == /\ running /\ chunk = <<>> /\ Len(buf) < ChunkMax
               /\ SlotGoesBy
               /\ buf' = Append(buf, [of |-> packet', at |-> pos'])
               /\ UNCHANGED <<rxVars, source, faults>>

\* A read returns what has arrived.
ReadEnds == /\ buf # <<>> /\ buf' = <<>>
            /\ OnChunk(buf, FALSE)
            /\ UNCHANGED <<source, packet, pos, faults>>

Fault == faults < FaultsMax /\ faults' = faults + 1

\* A slot is received with an error.  The read returns the error with what had
\* arrived before it, or alone: then it is a read of no bytes.
BadSlot == /\ SlotGoesBy /\ Fault
           /\ buf' = <<>> /\ UNCHANGED source
           /\ IF buf # <<>> THEN OnChunk(buf, TRUE) ELSE OnGap \/ OnShortGap

\* The source pauses between two packets, and a read times out.
Pause == /\ buf = <<>> /\ pos \in {0, Len(Slots(packet))}
         /\ pos' = 0 /\ packet' \in source
         /\ OnGap
         /\ UNCHANGED <<buf, source, faults>>

\* The source, or the adapter, pauses as long within a packet.
Stall == /\ buf = <<>> /\ pos \notin {0, Len(Slots(packet))}
         /\ Fault
         /\ OnGap
         /\ UNCHANGED <<buf, source, packet, pos>>

Init == /\ running = TRUE /\ state = "waitBreak"
        /\ frame = <<>> /\ syncBuf = <<>> /\ chunk = <<>> /\ frames = <<>>
        /\ buf = <<>>
        /\ source \in Sources /\ packet \in source
        /\ pos \in 0..Len(Slots(packet))
        /\ faults = 0

Next == \/ SlotArrives
        \/ ReadEnds
        \/ BadSlot
        \/ Pause
        \/ Stall
        \/ Consume
        \/ Stop
        \/ Take

Spec == Init /\ [][Next]_vars

\* The source goes on sending and the goroutines on running.
LiveSpec == /\ Spec
            /\ WF_vars(SlotArrives) /\ WF_vars(ReadEnds) /\ WF_vars(Pause)
            /\ WF_vars(Consume)
            /\ WF_vars(Take)
----------------------------------------------------------------------------
(* Properties.                                                             *)

\* Every variable has its type; the hunting window stays bounded.
TypeOK == /\ running \in BOOLEAN
          /\ state \in {"waitBreak", "waitStartCode", "readData"}
          /\ frame \in Seq(Place) /\ Len(frame) < MaxChannels
          /\ syncBuf \in Seq(Place) /\ Len(syncBuf) <= 4 * PacketSize
          /\ chunk \in Seq(Place) /\ Len(chunk) <= 4 * PacketSize + ChunkMax
          /\ frames \in Seq(Seq(Byte)) /\ Len(frames) <= FramesCap
          /\ \A i \in DOMAIN frames : Len(frames[i]) \in 1..MaxChannels
          /\ buf \in Seq(Place) /\ Len(buf) <= ChunkMax
          /\ source \in Sources /\ packet \in source
          /\ pos \in 0..Len(Slots(packet))
          /\ faults \in 0..FaultsMax

\* No packet of the source has a channel at zero.
Lit == \A p \in source : \A i \in 1..Len(p.data) : p.data[i] # StartCodeDMX

\* If no channel is at zero: from whatever point the receiver joins the line, and
\* until a slot is damaged or the source stalls, a published frame is one of the
\* packets the source sends: it is not rotated, not cut off, and not put together
\* from two packets.
PublishesPackets ==
  [][Lit /\ Len(frames') > Len(frames) /\ faults' = 0 =>
       \E p \in source : frames'[Len(frames')] = Channels(p)]_vars

\* "That holds sync indefinitely against any source sending full-size frames"
\* (receiver.go:263): if no channel is at zero, a receiver that is aligned does not
\* hunt again until a slot is damaged or the source stalls.
HoldsSync ==
  [][Lit /\ state # "waitBreak" /\ faults' = 0 => state' # "waitBreak"]_vars

\* "That holds sync indefinitely" (receiver.go:263): while the source goes on, a
\* receiver that runs goes on publishing.  It does so again after errors and
\* stalls, wherever in a packet and however far into the hunt they come.
KeepsPublishing == <>~running \/ []<>(frames # <<>>)

\* The slot d follows the slot c, and there is no pause between them.
Adjacent(c, d) ==
  \/ d.of = c.of /\ d.at = c.at + 1
  \/ c.at = Len(Slots(c.of)) /\ ~Short(c.of) /\ d.at = 1

Unbroken(s) == \A i \in 1..(Len(s) - 1) : Adjacent(s[i], s[i + 1])

\* The state machine has taken k slots of p for the start code and its channels.
Taken(p, k) ==
  \/ state = "waitStartCode" /\ k \in {0, Len(Slots(p))} /\ frame = <<>>
  \/ /\ state = "readData" /\ k = Len(frame) + 1
     /\ frame = [i \in 1..Len(frame) |-> [of |-> p, at |-> i + 1]]

\* The receiver takes slots for what they are: what is still to be consumed goes on
\* from those it has taken to where the line is.
InStep == \E p \in Packets : \E k \in 0..Len(Slots(p)) :
  LET ahead == <<[of |-> p, at |-> k]>> \o (chunk \o buf) IN
  /\ Taken(p, k)
  /\ Unbroken(ahead) /\ ahead[Len(ahead)] = [of |-> packet, at |-> pos]

\* Whatever the channels hold, and however reads are cut, a receiver that is in
\* step remains so until a slot is damaged or the source stalls.
KeepsStep == [][InStep /\ faults' = faults => InStep']_vars

\* And what it publishes is the packet that has just ended.
PublishesInStep ==
  [][InStep /\ faults' = faults /\ Len(frames') > Len(frames) =>
       LET ended == IF chunk = <<>> THEN packet ELSE Head(chunk).of
       IN  frames'[Len(frames')] = Channels(ended)]_vars

\* "At which point the start-code check in runFallback rejects a wrong alignment and
\* hunts again" (receiver.go:25): while real data appears again and again, a receiver
\* that has taken a dark channel for the start code finds out.
RealData == \E i \in 1..Len(packet.data) : packet.data[i] # 0

RejectsWrongAlignment ==
  []<>RealData => []<>(InStep \/ state = "waitBreak" \/ ~running)
=============================================================================
