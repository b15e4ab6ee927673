----------------------------- MODULE Reception ------------------------------
(***************************************************************************)
(* BreakReceiver on a DMX line.                                            *)
(*                                                                         *)
(* The adapter reports the break between two packets as an event, or a     *)
(* short read after its stray byte is taken for one (macOS).  A slot can   *)
(* be received with an error, and on macOS a read that ends within a       *)
(* packet is taken for a break as well.                                    *)
(***************************************************************************)
EXTENDS BreakReceiver

CONSTANT Noisy  \* whether reads may end within a packet

ASSUME NoiseAssumption == Noisy \in BOOLEAN

VARIABLES packet,  \* the packet on the line
          pos,     \* how many of its slots have been received
          intact,  \* history: all of them, and without an error
  spurious \* history: a read has ended within a packet

lineVars == <<packet, pos, intact, spurious>>
vars     == <<rxVars, lineVars>>

\* The receiver joins a line that is in use.
Init == /\ RxInit
        /\ packet \in Packets
        /\ pos \in 0..Len(Slots(packet))
        /\ intact = FALSE
        /\ spurious = FALSE

Slot == /\ pos < Len(Slots(packet))
        /\ OnByte(Slots(packet)[pos + 1])
        /\ pos' = pos + 1
        /\ UNCHANGED <<packet, intact, spurious>>

BadSlot == /\ pos < Len(Slots(packet))
           /\ OnError
           /\ pos' = pos + 1
           /\ intact' = FALSE
           /\ UNCHANGED <<packet, spurious>>

NextPacket == /\ pos = Len(Slots(packet))
              /\ packet' \in Packets
              /\ pos' = 0
              /\ intact' = TRUE
              /\ UNCHANGED spurious

BreakReported == NextPacket /\ OnBreak

\* The read at the boundary happened to be a full-size one.
BreakMissed == InferBreaks /\ running /\ NextPacket /\ UNCHANGED rxVars

\* A short read within a packet.
SpuriousBreak == /\ InferBreaks /\ Noisy
                 /\ pos \in 1..(Len(Slots(packet)) - 1)
                 /\ OnBreak
                 /\ spurious' = TRUE
                 /\ UNCHANGED <<packet, pos, intact>>

Next == \/ Slot
        \/ BadSlot
        \/ BreakReported
        \/ BreakMissed
        \/ SpuriousBreak
        \/ Stop /\ UNCHANGED lineVars
        \/ Take /\ UNCHANGED lineVars

Spec == Init /\ [][Next]_vars

\* The source goes on sending, a boundary read is short again and again, and
\* the forwarder goes on receiving.
LiveSpec == /\ Spec
            /\ WF_vars(Slot \/ BadSlot \/ BreakReported \/ BreakMissed)
            /\ SF_vars(BreakReported)
            /\ WF_vars(Take /\ UNCHANGED lineVars)
----------------------------------------------------------------------------
(* Properties.                                                             *)

\* Every variable has its type, and no frame or channel exceeds its capacity.
TypeOK == /\ RxTypeOK
          /\ packet \in Packets
          /\ pos \in 0..Len(Slots(packet))
          /\ intact \in BOOLEAN /\ spurious \in BOOLEAN

\* Every published frame has exactly the channels of the DMX packet on the
\* line: never those of an alternate start code, never part of a packet, and
\* never slots of two packets.  Where breaks are inferred, this is so until a
\* read ends within a packet.
PublishedIsPacket ==
  [][Len(frames') > Len(frames) /\ ~spurious =>
       /\ packet.start = StartCodeDMX
       /\ frames'[Len(frames')] = Channels(packet)]_vars

\* Where the driver reports breaks, each DMX packet received without an error
\* is offered to the forwarder when its break arrives, and a damaged one is
\* not: the receiver is never out of step for longer than the damaged packet.
IntactIsPublished ==
  [][pos # 0 /\ pos' = 0 /\ ~InferBreaks =>
       frames' = IF intact /\ packet.start = StartCodeDMX /\ packet.data # <<>>
                 THEN TrySend(frames, FramesCap, Channels(packet))
                 ELSE frames]_vars

\* The receiver is in step with the line.
InStep ==
  \/ state = "waitStartCode" /\ pos \in {0, Len(Slots(packet))}
  \/ /\ state = "readData" /\ packet.start = StartCodeDMX
     /\ pos = Len(frame) + 1 /\ Len(frame) < Len(packet.data)
     /\ frame = SubSeq(packet.data, 1, Len(frame))
  \/ state = "skipTrailer" /\ pos = Len(packet.data) + 1

\* "Length drives framing" (receiver.go:228): once the lock is on the source's
\* packet length, no spurious and no missed break moves a receiver that is in
\* step, and it falls back to waiting for a break when something else does.
LengthKeepsStep ==
  [][InferBreaks /\ locked > 0 /\ locked = Len(packet.data) /\ InStep
     => InStep' \/ state' = "waitBreak"]_vars

\* While the line goes on, a receiver that runs goes on publishing, whatever
\* breaks were missed or made up before: unless slots go on being damaged, breaks
\* go on being made up or the source goes on sending something else than DMX.
KeepsPublishing ==
  \/ <>~running
  \/ []<><<BadSlot>>_vars
  \/ []<><<SpuriousBreak>>_vars
  \/ []<>(packet.start # StartCodeDMX)
  \/ []<>(frames # <<>>)

\* "Persistently wrong means the source changed its packet size, so relearn
\* rather than stall forever" (receiver.go:123): a lock on a length the source
\* does not send any more is given up.  The length learned from n channels is n,
\* or one more where the stray byte of the break is counted.
StaleLockReleased ==
  \A n \in FrameLength :
    <>[](running /\ Len(packet.data) = n) => []<>(locked \in {0, n, n + 1})
=============================================================================
