--------------------------- MODULE BreakReceiver ----------------------------
(***************************************************************************)
(* The receiver that frames on the DMX break: runWithBreakDetect, emit and *)
(* breakValidator of dmx/receiver.go.                                      *)
(*                                                                         *)
(* ReadChunk hands over bytes in their order and each line event at the    *)
(* byte offset it occurred at, so where one chunk ends and the next begins *)
(* makes no difference to the loop: an action is one byte or one event.    *)
(* Reception puts it on a line that they arrive on.                        *)
(***************************************************************************)
EXTENDS DmxLine

CONSTANTS
  VoteWindow,   \* breakVoteWindow, 24 in the program
  FramesCap     \* capacity of the Frames channel, 4 in NewReceiver

ASSUME ReceiverAssumption ==
  /\ VoteWindow \in Nat \ {0}
  /\ FramesCap \in Nat \ {0}

\* The lengths a frame can have when a break ends it.
FrameLength == 1..MaxChannels

VARIABLES
  running,  \* FALSE once Run has returned
  state,    \* the local variable of the same name
  frame,    \* likewise: Channels[:Length]; its StartCode is that of the state
  votes,    \* breakValidator.votes
  locked,   \* breakValidator.locked
  seen,     \* breakValidator.seen
  frames    \* the Frames channel

validator == <<votes, locked, seen>>
rxVars    == <<running, state, frame, validator, frames>>

NoVotes == [l \in FrameLength |-> 0]

RxInit == /\ running = TRUE
          /\ state = "waitBreak"
          /\ frame = <<>>
          /\ votes = NoVotes /\ locked = 0 /\ seen = 0
          /\ frames = <<>>

----------------------------------------------------------------------------
(* The byte switch.                                                        *)

StartCodeByte(b) ==
  /\ state = "waitStartCode"
  /\ state' = IF b = StartCodeDMX THEN "readData" ELSE "waitBreak"
  /\ UNCHANGED <<running, frame, validator, frames>>

\* Mutant: the bound of the array is off by one.
StorePastEnd(b) == IF Len(frame) <= MaxChannels THEN Append(frame, b) ELSE frame

\* Channels beyond the last are not stored.
Store(b) == IF Len(frame) < MaxChannels THEN Append(frame, b) ELSE frame

\* Once the packet length is known, the frame is closed on it.
ClosedByLength(f) == InferBreaks /\ locked > 0 /\ Len(f) = locked

\* Mutant: the stray byte of the break is forgotten.
TrailerForgotten == state' = "waitStartCode"

ExpectTrailer == state' = "skipTrailer"

DataByte(b) ==
  /\ state = "readData"
  /\ LET f == Store(b) IN
       IF ClosedByLength(f)
       THEN /\ frames' = TrySend(frames, FramesCap, f)
            /\ frame' = <<>>
            /\ ExpectTrailer
       ELSE frame' = f /\ UNCHANGED <<state, frames>>
  /\ UNCHANGED <<running, validator>>

TrailerByte(b) ==
  /\ state = "skipTrailer"
  /\ state' = "waitStartCode"
  /\ UNCHANGED <<running, frame, validator, frames>>

IgnoredByte(b) == state = "waitBreak" /\ UNCHANGED rxVars

OnByte(b) ==
  /\ running
  /\ StartCodeByte(b) \/ DataByte(b) \/ TrailerByte(b) \/ IgnoredByte(b)

----------------------------------------------------------------------------
(* breakValidator.classify.                                                *)

Boundary(length) == ~InferBreaks \/ locked = 0 \/ length = locked

Publish(length) == ~InferBreaks \/ (locked > 0 /\ length = locked)

Counted(length) == [votes EXCEPT ![length] = @ + 1]

\* The length most breaks agree on, the longest of them on a tie.
Winner(count) == CHOOSE l \in FrameLength :
  \A k \in FrameLength : count[k] < count[l] \/ (count[k] = count[l] /\ k <= l)

\* Learning: the lock is taken on the last vote of the window.
Vote(length) ==
  /\ seen' = seen + 1
  /\ IF seen + 1 >= VoteWindow
     THEN locked' = Winner(Counted(length)) /\ votes' = NoVotes
     ELSE votes' = Counted(length) /\ UNCHANGED locked

\* Locked, and a break at another length: learn again when this one persists.
\* The loop does not call classify any more by then (see BreakWhileLocked).
Doubt(length) ==
  IF votes[length] + 1 >= VoteWindow
  THEN locked' = 0 /\ seen' = 0 /\ votes' = NoVotes
  ELSE votes' = Counted(length) /\ UNCHANGED <<locked, seen>>

Classify(length) ==
  IF ~InferBreaks THEN UNCHANGED validator
  ELSE IF locked = 0 THEN Vote(length)
  ELSE IF length = locked THEN UNCHANGED validator
  ELSE Doubt(length)

----------------------------------------------------------------------------
(* The marker switch.                                                      *)

\* Mutant: the frame that ends is not cleared.
NextFrameKept == state' = "waitStartCode" /\ UNCHANGED frame

NextFrame == state' = "waitStartCode" /\ frame' = <<>>

\* Mutant: locked or not, a break starts a new frame.
LengthNeverDrives == FALSE

LengthDrives == InferBreaks /\ locked > 0

\* Mutant: a locked receiver takes no notice of breaks at all.
RecoverNever == UNCHANGED state

Recover == state' = IF state = "waitBreak" THEN "waitStartCode" ELSE state

\* With a lock, a break only brings back a receiver that has lost the phase.
BreakWhileLocked ==
  /\ LengthDrives
  /\ Recover
  /\ UNCHANGED <<running, frame, validator, frames>>

BreakAfterData ==
  /\ ~LengthDrives /\ state = "readData" /\ frame # <<>>
  /\ Classify(Len(frame))
  /\ frames' = IF Publish(Len(frame)) THEN TrySend(frames, FramesCap, frame) ELSE frames
  /\ IF Boundary(Len(frame)) THEN NextFrame ELSE UNCHANGED <<state, frame>>
  /\ UNCHANGED running

BreakElsewhere ==
  /\ ~LengthDrives /\ ~(state = "readData" /\ frame # <<>>)
  /\ NextFrame
  /\ UNCHANGED <<running, validator, frames>>

OnBreak == running /\ (BreakWhileLocked \/ BreakAfterData \/ BreakElsewhere)

\* Mutant: an error only clears the frame, and the next byte goes on filling it.
ErrorForgotten == UNCHANGED state

Resync == state' = "waitBreak"

\* A framing or parity error or an overrun.
OnError == /\ running
           /\ Resync
           /\ frame' = <<>>
           /\ UNCHANGED <<running, validator, frames>>

\* The port fails, or the program is shutting down: Run returns.
Stop == running /\ running' = FALSE /\ UNCHANGED <<state, frame, validator, frames>>

\* The forwarder in main.go receives a frame.
Take == /\ frames # <<>>
        /\ frames' = Tail(frames)
        /\ UNCHANGED <<running, state, frame, validator>>
----------------------------------------------------------------------------
RxState == {"waitBreak", "waitStartCode", "readData", "skipTrailer"}

RxTypeOK == /\ running \in BOOLEAN
            /\ state \in RxState
            /\ frame \in Seq(Byte) /\ Len(frame) <= MaxChannels
            /\ votes \in [FrameLength -> 0..VoteWindow]
            /\ locked \in 0..MaxChannels
            /\ seen \in 0..VoteWindow
            /\ frames \in Seq(Seq(Byte)) /\ Len(frames) <= FramesCap
=============================================================================
