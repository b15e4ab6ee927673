---------------------------- MODULE MergerProofs ----------------------------
(***************************************************************************)
(* Proofs about the merger, for any sources, universes, goroutines, frames *)
(* and timeout, and any positive channel capacities.                       *)
(***************************************************************************)
EXTENDS Merger, FiniteSetTheorems, TLAPS

----------------------------------------------------------------------------
(* The merge.  What is proved of it beside computeHTP's loop holds here as *)
(* well; it does not mention the variables of the loop.                    *)

Loop == INSTANCE HTPLoopProofs WITH outputUniverse <- 0, seen <- Source, todo <- {},
                                    result <- ZeroFrame, maxLen <- 0, done <- FALSE

USE FrameAssumption, MergerAssumption

LEMMA MaxOfBounded ==
  ASSUME NEW n \in Nat, NEW S \in SUBSET (0..n), S # {}
  PROVE  Max(S) \in S /\ \A y \in S : y <= Max(S)
BY Loop!MaxOfBounded DEF Max, Loop!Max

\* The definitions of the two modules are the same.
LEMMA SameMerge ==
  /\ Frame = Loop!Frame
  /\ \A fs : Highest(fs) = Loop!Highest(fs)
  /\ \A m, fs : IsMergeOf(m, fs) <=> Loop!IsMergeOf(m, fs)
<1>1. Channel = Loop!Channel
  BY DEF Channel, Loop!Channel
<1>2. Frame = Loop!Frame
  BY <1>1 DEF Frame, Loop!Frame, Level, Loop!Level
<1>3. ASSUME NEW fs PROVE Highest(fs) = Loop!Highest(fs)
  BY <1>1, Zenon DEF Highest, Loop!Highest, Max, Loop!Max, LevelsOn, Loop!LevelsOn
<1>4. ASSUME NEW m, NEW fs PROVE IsMergeOf(m, fs) <=> Loop!IsMergeOf(m, fs)
  BY <1>1, Zenon DEF IsMergeOf, Loop!IsMergeOf
<1> QED BY <1>2, <1>3, <1>4

LEMMA HighestIsFrame ==
  ASSUME NEW fs \in SUBSET Frame
  PROVE  Highest(fs) \in Frame
BY SameMerge, Loop!HighestIsFrame, Zenon

LEMMA HighestIsMerge ==
  ASSUME NEW fs \in SUBSET Frame
  PROVE  IsMergeOf(Highest(fs), fs)
BY SameMerge, Loop!HighestIsMerge, Zenon

\* The frames of any contributing sources merge to a frame.
LEMMA MergeIsFrame ==
  ASSUME NEW fr \in [Source -> Frame], NEW se, NEW u
  PROVE  ComputeHTP(fr, se, u) \in Frame
<1>1. {fr[s] : s \in SeenIn(se, u)} \in SUBSET Frame
  BY DEF SeenIn, Seen
<1> QED BY <1>1, HighestIsFrame DEF ComputeHTP

LEMMA ZeroFrameIsFrame == ZeroFrame \in Frame
BY DEF ZeroFrame, Frame, Channel, Level

\* The merge depends on which sources have been seen, not on how long ago.
LEMMA MergeIgnoresAge ==
  ASSUME NEW fr, NEW se, NEW ne, NEW u, Seen(se) = Seen(ne)
  PROVE  ComputeHTP(fr, se, u) = ComputeHTP(fr, ne, u)
BY DEF ComputeHTP, SeenIn

\* A send that may be dropped keeps a channel within its type and capacity.
LEMMA TrySendType ==
  ASSUME NEW T, NEW ch \in Seq(T), NEW x \in T, NEW cap \in Nat, Len(ch) <= cap
  PROVE  TrySend(ch, cap, x) \in Seq(T) /\ Len(TrySend(ch, cap, x)) <= cap
BY DEF TrySend

----------------------------------------------------------------------------
LEMMA InitIInv == Init => IInv
<1> SUFFICES ASSUME Init PROVE IInv
  OBVIOUS
<1>1. TypeOK
  BY ZeroFrameIsFrame DEF Init, TypeOK, Goroutine, CallOrNone, FrameOrNone, Sending, Age, Zero
<1>2. /\ \A g \in Updater : pc[g] = "idle"
      /\ pc[Ticker] = "idle"
  BY DEF Init, Goroutine
<1> QED BY <1>1, <1>2 DEF IInv, SendHasRoom, Sending

\* Every step keeps the types: one step of the proof for each action.
LEMMA TypeStep == TypeOK /\ [Next]_vars => TypeOK'
<1> SUFFICES ASSUME TypeOK, [Next]_vars PROVE TypeOK'
  OBVIOUS
<1> USE DEF TypeOK, Goroutine, CallOrNone, FrameOrNone, Sending, sourceVars, tickVars, consumed
<1>1. ASSUME NEW g \in Updater, CallUpdate(g) PROVE TypeOK'
  BY <1>1 DEF CallUpdate, Call
<1>2. ASSUME NEW g \in Updater, IgnoreUnknown(g) PROVE TypeOK'
  BY <1>2 DEF IgnoreUnknown
<1>3. ASSUME NEW g \in Updater, Update(g) PROVE TypeOK'
  <2> DEFINE s == call[g].src
  <2>1. s \in Source /\ call[g].frame \in Frame
    BY <1>3 DEF Update, Call
  <2>2. frame' \in [Source -> Frame] /\ since' \in [Source -> Age \cup {Zero}]
        /\ active' \in [Source -> BOOLEAN]
    BY <1>3, <2>1 DEF Update, Age
  <2>3. events' \in Seq(SourceEvent) /\ Len(events') <= EventsCap
    <3>1. [id |-> s, connected |-> TRUE] \in SourceEvent
      BY <2>1 DEF SourceEvent
    <3> QED BY <1>3, <2>1, <3>1, TrySendType DEF Update, Announce
  <2>4. Merged(outputUni[s]) \in OutputFrame
    BY <2>1, <2>2, MergeIsFrame DEF Merged, OutputFrame
  <2>5. out' = [out EXCEPT ![g] = Merged(outputUni[s])]
    BY <1>3 DEF Update
  <2> QED BY <1>3, <2>2, <2>3, <2>4, <2>5 DEF Update, Lock
<1>4. ASSUME NEW g \in Updater, pc[g] \in {"send", "resend"}, SendAndReturn(g) PROVE TypeOK'
  BY <1>4 DEF SendAndReturn, Unlock
<1>5. ASSUME NEW g \in Updater, SendFull(g) PROVE TypeOK'
  BY <1>5 DEF SendFull
<1>6. ASSUME NEW g \in Updater, Drain(g) PROVE TypeOK'
  BY <1>6 DEF Drain, DiscardOldest
<1>7. CASE Tick
  BY <1>7 DEF Tick, Lock
<1>8. ASSUME NEW s \in Source, ExpireOne(s) PROVE TypeOK'
  <2>1. events' \in Seq(SourceEvent) /\ Len(events') <= EventsCap
    <3>1. [id |-> s, connected |-> FALSE] \in SourceEvent
      BY DEF SourceEvent
    <3> QED BY <1>8, <3>1, TrySendType DEF ExpireOne
  <2> QED BY <1>8, <2>1, ZeroFrameIsFrame DEF ExpireOne
<1>9. ASSUME NEW u \in Universe, PublishAffected(u) PROVE TypeOK'
  <2>1. output' \in Seq(OutputFrame) /\ Len(output') <= OutputCap
    <3>1. [universe |-> u, frame |-> ComputeHTP(frame, since, u)] \in OutputFrame
      BY MergeIsFrame DEF OutputFrame
    <3> QED BY <1>9, <3>1, TrySendType DEF PublishAffected
  <2> QED BY <1>9, <2>1 DEF PublishAffected
<1>10. CASE TickDone
  BY <1>10 DEF TickDone, Unlock
<1>11. CASE Receive
  <2>1. Head(output) \in OutputFrame /\ Tail(output) \in Seq(OutputFrame)
        /\ Len(Tail(output)) <= OutputCap
    BY <1>11 DEF Receive
  <2>2. sent' \in [Universe -> Frame]
    BY <1>11, <2>1 DEF Receive, OutputFrame
  <2> QED BY <1>11, <2>1, <2>2 DEF Receive
<1>12. CASE LogEvent
  <2>1. Head(events) \in SourceEvent /\ Tail(events) \in Seq(SourceEvent)
        /\ Len(Tail(events)) <= EventsCap
    BY <1>12 DEF LogEvent
  <2>2. shown' \in [Source -> BOOLEAN]
    <3>1. Head(events).connected \in BOOLEAN
      BY <2>1 DEF SourceEvent
    <3> QED BY <1>12, <3>1, Zenon DEF LogEvent
  <2> QED BY <1>12, <2>1, <2>2 DEF LogEvent
<1>13. CASE TimePasses
  <2>1. \A s \in Source : Older(since[s]) \in Age \cup {Zero}
    <3>1. \A age \in Age \cup {Zero} : Older(age) \in Age \cup {Zero}
      BY DEF Older, Age, Zero
    <3> QED BY <3>1
  <2>2. since' \in [Source -> Age \cup {Zero}]
    BY <1>13, <2>1 DEF TimePasses
  <2> QED BY <1>13, <2>2 DEF TimePasses
<1>14. CASE UNCHANGED vars
  BY <1>14 DEF vars
<1> QED BY <1>1, <1>2, <1>3, <1>4, <1>5, <1>6, <1>7, <1>8, <1>9, <1>10, <1>11, <1>12, <1>13, <1>14
        DEF Next, UpdateSteps, SendSteps, TickerSteps, SendDirect, Resend

\* Time and the ticker never make a source of a silent one.
LEMMA AgeingKeepsSeen ==
  ASSUME TypeOK, TimePasses
  PROVE  Seen(since') = Seen(since) /\ \A s \in Source : Silent(s) => Silent(s)'
<1>1. \A s \in Source : since'[s] = Older(since[s]) /\ since[s] \in Age \cup {Zero}
  BY DEF TimePasses, TypeOK
<1>2. \A s \in Source : since'[s] = Zero <=> since[s] = Zero
  BY <1>1 DEF Older, Age, Zero
<1>3. \A s \in Source : Silent(s) => Silent(s)'
  BY <1>1 DEF Silent, Older, Age, Zero
<1> QED BY <1>2, <1>3 DEF Seen

\* Every step keeps the inductive invariant.  An action that needs the mutex
\* free, or that only its holder takes, finds nobody else in a locked region.
LEMMA InvStep == IInv /\ [Next]_vars => IInv'
<1> SUFFICES ASSUME IInv, [Next]_vars PROVE IInv'
  OBVIOUS
<1>0. TypeOK /\ TypeOK'
  BY TypeStep DEF IInv
<1> USE DEF Sending, Goroutine, sourceVars, tickVars, consumed
<1> DEFINE Rest == /\ \A g \in Updater : pc[g] \in Sending => mu = g
                   /\ pc[Ticker] = "expire" => mu = Ticker
                   /\ SendHasRoom
                   /\ \A g \in Updater : pc[g] \in Sending =>
                        out[g].frame = ComputeHTP(frame, since, out[g].universe)
                   /\ pc[Ticker] = "expire" => \A s \in expired : Silent(s)
<1>a. Rest
  BY DEF IInv
<1>b. /\ pc \in [Goroutine -> {"idle", "lock", "send", "drain", "resend", "expire"}]
      /\ out \in [Updater -> FrameOrNone]
      /\ pc[Ticker] \in {"idle", "expire"} /\ \A g \in Updater : pc[g] # "expire"
      /\ since \in [Source -> Age \cup {Zero}] /\ expired \subseteq Source
  BY <1>0 DEF TypeOK
<1>1. ASSUME NEW g \in Updater, CallUpdate(g) PROVE Rest'
  BY <1>a, <1>b, <1>1 DEF CallUpdate, SendHasRoom, Silent
<1>2. ASSUME NEW g \in Updater, IgnoreUnknown(g) PROVE Rest'
  BY <1>a, <1>b, <1>2 DEF IgnoreUnknown, SendHasRoom, Silent
<1>3. ASSUME NEW g \in Updater, Update(g) PROVE Rest'
  <2>1. /\ \A h \in Updater : pc[h] \notin Sending
        /\ pc[Ticker] # "expire"
    BY <1>a, <1>3 DEF Update, Lock
  <2>2. /\ pc' = [pc EXCEPT ![g] = "send"] /\ mu' = g
        /\ out' = [out EXCEPT ![g] = Merged(outputUni[call[g].src])]
    BY <1>3 DEF Update, Lock
  <2>3. out'[g].frame = ComputeHTP(frame', since', out'[g].universe)
    BY <1>b, <2>2 DEF Merged
  <2> QED BY <1>b, <2>1, <2>2, <2>3 DEF SendHasRoom
<1>4. ASSUME NEW g \in Updater, pc[g] \in {"send", "resend"}, SendAndReturn(g) PROVE Rest'
  <2>1. /\ \A h \in Updater : h # g => pc[h] \notin Sending
        /\ pc[Ticker] # "expire"
    BY <1>a, <1>4
  <2>2. pc' = [pc EXCEPT ![g] = "idle"]
    BY <1>4 DEF SendAndReturn
  <2> QED BY <1>b, <2>1, <2>2 DEF SendHasRoom
<1>5. ASSUME NEW g \in Updater, SendFull(g) PROVE Rest'
  BY <1>a, <1>b, <1>5 DEF SendFull, SendHasRoom, Silent
<1>6. ASSUME NEW g \in Updater, Drain(g) PROVE Rest'
  <2>1. /\ \A h \in Updater : h # g => pc[h] \notin Sending
        /\ pc[Ticker] # "expire"
    BY <1>a, <1>6 DEF Drain
  <2>2. Len(output') < OutputCap
    BY <1>0, <1>6 DEF Drain, DiscardOldest, TypeOK
  <2> QED BY <1>a, <1>b, <1>6, <2>1, <2>2 DEF Drain, SendHasRoom
<1>7. ASSUME Tick PROVE Rest'
  <2>1. \A h \in Updater : pc[h] \notin Sending
    BY <1>a, <1>7 DEF Tick, Lock
  <2>2. \A h \in Updater : pc'[h] = pc[h]
    BY <1>b, <1>7 DEF Tick
  <2>3. mu' = Ticker /\ \A s \in expired' : Silent(s)'
    BY <1>7 DEF Tick, Lock, Silent
  <2> QED BY <2>1, <2>2, <2>3 DEF SendHasRoom
<1>8. ASSUME NEW s \in Source, ExpireOne(s) PROVE Rest'
  <2>1. \A h \in Updater : pc[h] \notin Sending
    BY <1>a, <1>8 DEF ExpireOne
  <2>2. \A t \in expired' : Silent(t)'
    BY <1>a, <1>b, <1>8 DEF ExpireOne, Silent
  <2> QED BY <1>a, <1>8, <2>1, <2>2 DEF ExpireOne, SendHasRoom
<1>9. ASSUME NEW u \in Universe, PublishAffected(u) PROVE Rest'
  <2>1. \A h \in Updater : pc[h] \notin Sending
    BY <1>a, <1>9 DEF PublishAffected
  <2> QED BY <1>a, <1>9, <2>1 DEF PublishAffected, SendHasRoom, Silent
<1>10. ASSUME TickDone PROVE Rest'
  <2>1. \A h \in Updater : pc[h] \notin Sending
    BY <1>a, <1>10 DEF TickDone
  <2>2. pc'[Ticker] = "idle" /\ \A h \in Updater : pc'[h] = pc[h]
    BY <1>b, <1>10 DEF TickDone
  <2> QED BY <2>1, <2>2 DEF SendHasRoom
<1>11. ASSUME Receive PROVE Rest'
  <2>1. Len(output') < OutputCap
    BY <1>0, <1>11 DEF Receive, TypeOK
  <2> QED BY <1>a, <1>b, <1>11, <2>1 DEF Receive, SendHasRoom, Silent
<1>12. ASSUME LogEvent PROVE Rest'
  BY <1>a, <1>b, <1>12 DEF LogEvent, SendHasRoom, Silent
<1>13. ASSUME TimePasses PROVE Rest'
  <2>1. \A u : ComputeHTP(frame, since', u) = ComputeHTP(frame, since, u)
    BY <1>0, <1>13, AgeingKeepsSeen, MergeIgnoresAge
  <2>2. \A s \in expired : Silent(s) => Silent(s)'
    BY <1>0, <1>b, <1>13, AgeingKeepsSeen
  <2> QED BY <1>a, <1>b, <1>13, <2>1, <2>2 DEF TimePasses, SendHasRoom
<1>14. ASSUME UNCHANGED vars PROVE Rest'
  BY <1>a, <1>b, <1>14 DEF vars, SendHasRoom, Silent
<1>15. Rest'
  BY <1>1, <1>2, <1>3, <1>4, <1>5, <1>6, <1>7, <1>8, <1>9, <1>10, <1>11, <1>12, <1>13, <1>14
     DEF Next, UpdateSteps, SendSteps, TickerSteps, SendDirect, Resend
<1> QED BY <1>0, <1>15 DEF IInv

\* The inductive invariant holds in every reachable state.
THEOREM Invariant == Spec => []IInv
BY InitIInv, InvStep, PTL DEF Spec

\* The types, and with them the capacities of both channels.
THEOREM TypeCorrect == Spec => []TypeOK
<1>1. IInv => TypeOK
  BY DEF IInv
<1> QED BY <1>1, Invariant, PTL

\* The send Update makes without a default, holding the mutex, never blocks.
THEOREM SendNeverBlocks == Spec => []SendHasRoom
<1>1. IInv => SendHasRoom
  BY DEF IInv
<1> QED BY <1>1, Invariant, PTL

\* No source is disconnected before it has been silent for the timeout.
THEOREM ExpirySafe == Spec => ExpiryNeedsSilence
<1> DEFINE A == \A s \in Source : since[s] # Zero /\ since'[s] = Zero => since[s] > Timeout
<1>1. IInv /\ [Next]_vars => [A]_vars
  <2> SUFFICES ASSUME IInv, Next PROVE A
    OBVIOUS
  <2>0. TypeOK /\ since \in [Source -> Age \cup {Zero}]
    BY DEF IInv, TypeOK
  <2>1. ASSUME NEW g \in Updater, Update(g) PROVE A
    BY <2>0, <2>1 DEF Update, Zero
  <2>2. ASSUME NEW s \in Source, ExpireOne(s) PROVE A
    BY <2>0, <2>2 DEF ExpireOne, IInv, Silent
  <2>3. CASE TimePasses
    BY <2>0, <2>3, AgeingKeepsSeen DEF Seen
  <2>4. CASE UNCHANGED since
    BY <2>4
  <2> QED BY <2>1, <2>2, <2>3, <2>4
          DEF Next, UpdateSteps, SendSteps, TickerSteps, CallUpdate, IgnoreUnknown, SendDirect,
              SendAndReturn, SendFull, Drain, Resend, Tick, PublishAffected, TickDone, Receive,
              LogEvent, sourceVars
<1> QED BY <1>1, Invariant, PTL DEF Spec, ExpiryNeedsSilence
----------------------------------------------------------------------------
(* The merger implements MergeService.                                     *)

\* What the refinement maps a source to: no frame, or the one it contributes.
Contribution(s) == IF since[s] = Zero THEN {} ELSE {frame[s]}

\* The definitions of the abstract specification over the refinement mapping.
LEMMA ServiceFrames ==
  /\ Service!Frame = Frame /\ Service!ZeroFrame = ZeroFrame
  /\ \A m, fs : Service!IsMergeOf(m, fs) <=> IsMergeOf(m, fs)
<1>1. Service!Channel = Channel /\ Service!Level = Level
  BY DEF Service!Channel, Channel, Service!Level, Level
<1> QED BY <1>1 DEF Service!Frame, Frame, Service!ZeroFrame, ZeroFrame, Service!IsMergeOf, IsMergeOf

\* What computeHTP returns for a universe is the merge of its contributions.
LEMMA ComputesMerge ==
  ASSUME TypeOK, NEW u \in Universe
  PROVE  /\ ComputeHTP(frame, since, u) \in Service!Frame
         /\ Service!IsMergeOf(ComputeHTP(frame, since, u), Service!Contributions(u))
<1> DEFINE fs == {frame[s] : s \in SeenIn(since, u)}
<1>1. Service!Contributions(u) = fs
  BY DEF Service!Contributions, SeenIn, Seen
<1>2. fs \in SUBSET Frame
  BY DEF TypeOK, SeenIn, Seen
<1>3. IsMergeOf(ComputeHTP(frame, since, u), fs)
  BY <1>2, HighestIsMerge DEF ComputeHTP
<1>4. ComputeHTP(frame, since, u) \in Frame
  BY MergeIsFrame DEF TypeOK
<1> QED BY <1>1, <1>3, <1>4, ServiceFrames

\* Each append is an abstract Publish.
LEMMA AppendPublishes ==
  ASSUME TypeOK, NEW u \in Universe, Len(output) < OutputCap,
         output' = Append(output, [universe |-> u, frame |-> ComputeHTP(frame, since, u)]),
         UNCHANGED <<frame, since, sent>>
  PROVE  Service!Publish(u)
<1> DEFINE m == ComputeHTP(frame, since, u)
<1>1. m \in Service!Frame /\ Service!IsMergeOf(m, Service!Contributions(u))
  BY ComputesMerge
<1>2. \E n \in Service!Frame :
        /\ Service!IsMergeOf(n, Service!Contributions(u))
        /\ output' = Append(output, [universe |-> u, frame |-> n])
  BY <1>1
<1> QED BY <1>2 DEF Service!Publish

\* The merger implements its abstract specification: every output frame is the
\* merge at the moment it is appended, and frames leave in order or are lost.
THEOREM Implements == Spec => ImplementsService
<1>1. Init => Service!Init
  <2> SUFFICES ASSUME Init PROVE Service!Init
    OBVIOUS
  <2> QED BY ServiceFrames DEF Init, Service!Init
<1>2. IInv /\ [Next]_vars => [Service!Next]_(Service!vars)
  <2> SUFFICES ASSUME IInv, [Next]_vars PROVE Service!Next \/ UNCHANGED Service!vars
    OBVIOUS
  <2> USE DEF Sending, Goroutine, sourceVars, tickVars, consumed, Service!vars
  <2>0. TypeOK
    BY DEF IInv
  <2>1. ASSUME NEW g \in Updater, Update(g) PROVE Service!Next
    <3>1. call[g].src \in Source /\ call[g].frame \in Frame
      BY <2>0, <2>1 DEF Update, TypeOK, Call, CallOrNone
    <3>2. PICK s \in Source, f \in Frame : s = call[g].src /\ f = call[g].frame
      BY <3>1
    <3>3. /\ frame' = [frame EXCEPT ![s] = f]
          /\ since' = [since EXCEPT ![s] = 0]
          /\ UNCHANGED <<output, sent>>
      BY <2>1, <3>2 DEF Update
    <3>4. ASSUME NEW t \in Source
          PROVE  Contribution(t)' = IF t = s THEN {f} ELSE Contribution(t)
      <4>1. since \in [Source -> Age \cup {Zero}] /\ frame \in [Source -> Frame] /\ 0 # Zero
        BY <2>0 DEF TypeOK, Zero
      <4>2. CASE t = s
        BY <3>3, <4>1, <4>2 DEF Contribution
      <4>3. CASE t # s
        BY <3>3, <4>1, <4>3 DEF Contribution
      <4> QED BY <4>2, <4>3
    <3>5. Service!Contribute(s)
      <4>1. [t \in Source |-> Contribution(t)'] =
            [[t \in Source |-> Contribution(t)] EXCEPT ![s] = {f}]
        BY <3>4
      <4> QED BY <3>3, <4>1, ServiceFrames DEF Service!Contribute, Contribution
    <3> QED BY <3>5 DEF Service!Next
  <2>2. ASSUME NEW g \in Updater, pc[g] \in {"send", "resend"}, SendAndReturn(g)
        PROVE  Service!Next
    <3>1. /\ out[g] \in OutputFrame
          /\ out[g].frame = ComputeHTP(frame, since, out[g].universe)
      BY <2>2 DEF IInv, TypeOK
    <3>2. PICK u \in Universe, f \in Frame : out[g] = [universe |-> u, frame |-> f]
      BY <3>1 DEF OutputFrame
    <3>3. Service!Publish(u)
      BY <2>0, <2>2, <3>1, <3>2, AppendPublishes DEF SendAndReturn
    <3> QED BY <3>3 DEF Service!Next
  <2>3. ASSUME NEW g \in Updater, Drain(g) PROVE Service!Next \/ UNCHANGED Service!vars
    <3>1. UNCHANGED <<frame, since, sent>>
      BY <2>3 DEF Drain
    <3>2. CASE output = <<>>
      BY <2>3, <3>1, <3>2 DEF Drain, DiscardOldest
    <3>3. CASE output # <<>>
      BY <2>3, <3>1, <3>3 DEF Drain, DiscardOldest, Service!Next, Service!Lose
    <3> QED BY <3>2, <3>3
  <2>4. ASSUME NEW s \in Source, ExpireOne(s) PROVE Service!Next
    <3>1. /\ frame' = [frame EXCEPT ![s] = ZeroFrame]
          /\ since' = [since EXCEPT ![s] = Zero]
          /\ UNCHANGED <<output, sent>>
      BY <2>4 DEF ExpireOne
    <3>2. [t \in Source |-> Contribution(t)'] =
          [[t \in Source |-> Contribution(t)] EXCEPT ![s] = {}]
      BY <2>0, <3>1 DEF TypeOK, Contribution
    <3>3. Service!Contribute(s)
      BY <3>1, <3>2 DEF Service!Contribute, Contribution
    <3> QED BY <3>3 DEF Service!Next
  <2>5. ASSUME NEW u \in Universe, PublishAffected(u)
        PROVE  Service!Next \/ UNCHANGED Service!vars
    <3>1. UNCHANGED <<frame, since, sent>>
      BY <2>5 DEF PublishAffected
    <3>2. CASE Len(output) < OutputCap
      BY <2>0, <2>5, <3>1, <3>2, AppendPublishes DEF PublishAffected, TrySend, Service!Next
    <3>3. CASE ~ (Len(output) < OutputCap)
      BY <2>5, <3>1, <3>3 DEF PublishAffected, TrySend
    <3> QED BY <3>2, <3>3
  <2>6. CASE Receive
    BY <2>6 DEF Receive, Service!Next, Service!Send
  <2>7. CASE TimePasses
    <3>1. \A s \in Source : since'[s] = Zero <=> since[s] = Zero
      BY <2>0, <2>7, AgeingKeepsSeen DEF Seen
    <3> QED BY <2>7, <3>1 DEF TimePasses
  <2>8. CASE UNCHANGED <<frame, since, output, sent>>
    BY <2>8
  <2> QED BY <2>1, <2>2, <2>3, <2>4, <2>5, <2>6, <2>7, <2>8
          DEF Next, vars, UpdateSteps, SendSteps, TickerSteps, CallUpdate, IgnoreUnknown,
              SendDirect, SendFull, Resend, Tick, TickDone, LogEvent
<1> QED BY <1>1, <1>2, Invariant, PTL DEF Spec, ImplementsService, Service!Spec
----------------------------------------------------------------------------
(* Freshness.                                                              *)

\* With one universe the newest frame is the last one in the channel.
Newest(u) == IF output = <<>> THEN sent[u] ELSE output[Len(output)].frame

LEMMA LatestIsNewest ==
  ASSUME TypeOK, NEW u, Universe = {u}
  PROVE  Latest(u) = Newest(u)
<1> DEFINE waiting == {i \in DOMAIN output : output[i].universe = u}
<1>1. waiting = 1..Len(output) /\ Len(output) \in Nat
  <2>1. DOMAIN output = 1..Len(output) /\ Len(output) \in Nat
    BY DEF TypeOK
  <2>2. \A i \in 1..Len(output) : output[i] \in OutputFrame
    BY DEF TypeOK
  <2>3. \A i \in 1..Len(output) : output[i].universe = u
    BY <2>2 DEF OutputFrame
  <2> QED BY <2>1, <2>3
<1>2. CASE output = <<>>
  BY <1>1, <1>2 DEF Latest, Newest
<1>3. CASE output # <<>>
  <2>1. Len(output) \in waiting /\ waiting # {} /\ waiting \in SUBSET (0..Len(output))
    <3>1. Len(output) # 0
      BY <1>3 DEF TypeOK
    <3>2. Len(output) \in 1..Len(output)
      BY <1>1, <3>1
    <3> HIDE DEF waiting
    <3> QED BY <1>1, <3>2
  <2>2. Max(waiting) \in waiting /\ \A i \in waiting : i <= Max(waiting)
    BY <1>1, <2>1, MaxOfBounded
  <2>3. Max(waiting) = Len(output)
    <3>1. Len(output) <= Max(waiting)
      BY <2>1, <2>2
    <3>2. Max(waiting) \in 1..Len(output)
      BY <1>1, <2>2
    <3> HIDE DEF waiting
    <3> QED BY <1>1, <3>1, <3>2
  <2> QED BY <1>3, <2>1, <2>3 DEF Latest, Newest
<1> QED BY <1>2, <1>3

\* Where all sources share one universe and never expire, a slow main loop
\* loses intermediate frames and never the newest one.  Neither hypothesis can
\* be dropped: the runs of the README show what happens without them.
THEOREM FreshWhenUnshared ==
  ASSUME NEW u, Universe = {u}, Timeout = 0
  PROVE  Spec => []Fresh
<1> DEFINE J == /\ pc[Ticker] = "idle"
                /\ mu = None => Newest(u) = ComputeHTP(frame, since, u)
<1>1. Init => J
  <2> SUFFICES ASSUME Init PROVE J
    OBVIOUS
  <2>1. SeenIn(since, u) = {}
    BY DEF Init, SeenIn, Seen
  <2>2. Max({0}) = 0
    BY MaxOfBounded
  <2>3. Highest({}) = ZeroFrame
    <3>1. \A i \in Channel : {0} \cup LevelsOn({}, i) = {0}
      BY DEF LevelsOn
    <3>2. {0} \cup {f.Length : f \in {}} = {0}
      OBVIOUS
    <3> QED BY <2>2, <3>1, <3>2, Zenon DEF Highest, ZeroFrame
  <2> QED BY <2>1, <2>3 DEF Init, ComputeHTP, Newest, Goroutine
<1>2. IInv /\ J /\ [Next]_vars => J'
  <2> SUFFICES ASSUME IInv, J, [Next]_vars PROVE J'
    OBVIOUS
  <2> USE DEF Goroutine, sourceVars, tickVars, consumed
  <2>0. TypeOK /\ pc[Ticker] = "idle" /\ Ticker \notin Updater
    BY DEF IInv
  <2>t. \A g \in Updater : \A v : [pc EXCEPT ![g] = v][Ticker] = "idle"
    BY <2>0 DEF TypeOK
  <2>1. ASSUME NEW g \in Updater, CallUpdate(g) PROVE J'
    BY <2>0, <2>t, <2>1 DEF CallUpdate, Newest
  <2>2. ASSUME NEW g \in Updater, IgnoreUnknown(g) PROVE J'
    BY <2>0, <2>t, <2>2 DEF IgnoreUnknown, Newest
  <2>3. ASSUME NEW g \in Updater, Update(g) PROVE J'
    BY <2>0, <2>t, <2>3 DEF Update, Lock
  <2>4. ASSUME NEW g \in Updater, pc[g] \in {"send", "resend"}, SendAndReturn(g) PROVE J'
    <3>1. /\ out[g] \in OutputFrame
          /\ out[g].frame = ComputeHTP(frame, since, out[g].universe)
      BY <2>4 DEF IInv, TypeOK, Sending
    <3>2. out[g].universe = u
      BY <3>1 DEF OutputFrame
    <3>3. output' # <<>> /\ output'[Len(output')] = out[g]
      <4>1. output \in Seq(OutputFrame) /\ output' = Append(output, out[g])
        BY <2>0, <2>4 DEF SendAndReturn, TypeOK
      <4> QED BY <3>1, <4>1
    <3> QED BY <2>0, <2>t, <2>4, <3>1, <3>2, <3>3 DEF SendAndReturn, Newest
  <2>5. ASSUME NEW g \in Updater, SendFull(g) \/ Drain(g) PROVE J'
    <3>1. mu = g
      BY <2>5 DEF IInv, SendFull, Drain, Sending
    <3> QED BY <2>0, <2>t, <2>5, <3>1 DEF SendFull, Drain
  <2>6. CASE Receive
    <3>1. Head(output) \in OutputFrame /\ output # <<>>
      BY <2>0, <2>6 DEF Receive, TypeOK
    <3>2. Head(output).universe = u
      BY <3>1 DEF OutputFrame
    <3>3. Newest(u)' = Newest(u)
      <4>1. CASE Len(output) = 1
        <5>1. output' = <<>> /\ sent'[u] = Head(output).frame
          BY <2>0, <2>6, <3>2, <4>1 DEF Receive, TypeOK
        <5> QED BY <2>0, <3>1, <4>1, <5>1 DEF Newest, TypeOK
      <4>2. CASE Len(output) # 1
        <5>1. output' # <<>> /\ output'[Len(output')] = output[Len(output)]
          <6>1. output \in Seq(OutputFrame) /\ output' = Tail(output) /\ Len(output) > 1
            <7>1. output \in Seq(OutputFrame) /\ output' = Tail(output)
              BY <2>0, <2>6 DEF Receive, TypeOK
            <7>2. Len(output) \in Nat /\ Len(output) # 0
              BY <7>1, <3>1
            <7>3. \A n \in Nat : n # 0 /\ n # 1 => n > 1
              OBVIOUS
            <7>4. Len(output) > 1
              BY <7>2, <7>3, <4>2
            <7> QED BY <7>1, <7>4
          <6>2. Len(output') = Len(output) - 1 /\ Len(output) \in Nat
            BY <6>1
          <6>3. output'[Len(output) - 1] = output[Len(output)]
            BY <6>1, <6>2
          <6>4. Len(output') > 0
            BY <6>1, <6>2
          <6> QED BY <6>2, <6>3, <6>4
        <5> QED BY <3>1, <5>1 DEF Newest
      <4> QED BY <4>1, <4>2
    <3> QED BY <2>0, <2>6, <3>3 DEF Receive
  <2>7. CASE LogEvent
    BY <2>7 DEF LogEvent, Newest
  <2>8. CASE UNCHANGED vars
    BY <2>8 DEF vars, Newest
  <2> QED BY <2>0, <2>1, <2>2, <2>3, <2>4, <2>5, <2>6, <2>7, <2>8
          DEF Next, UpdateSteps, SendSteps, SendDirect, Resend, Tick, TickerSteps, ExpireOne,
              PublishAffected, TickDone, TimePasses
<1>3. IInv /\ J => Fresh
  BY LatestIsNewest DEF IInv, Fresh
<1> QED BY <1>1, <1>2, <1>3, Invariant, PTL DEF Spec
----------------------------------------------------------------------------
(* The printed status.                                                     *)

\* Without a timeout a source is announced once: what waits in the channel is
\* one connection of each of some active sources, and an active source has been
\* printed or waits.
EventInv ==
  /\ pc[Ticker] = "idle"
  /\ \A i \in DOMAIN events : events[i].connected /\ active[events[i].id]
  /\ \A i, j \in DOMAIN events : events[i].id = events[j].id => i = j
  /\ \A s \in Source : active[s] <=> shown[s] \/ \E i \in DOMAIN events : events[i].id = s

\* What is in the channel is an event of a source.
LEMMA EventsOfSources ==
  ASSUME TypeOK, NEW i \in DOMAIN events
  PROVE  i \in Nat /\ events[i].id \in Source /\ events[i].connected \in BOOLEAN
<1>1. events \in Seq(SourceEvent)
  BY DEF TypeOK
<1>2. i \in Nat /\ events[i] \in SourceEvent
  BY <1>1
<1> QED BY <1>2 DEF SourceEvent

\* A source that has not been announced finds room in a channel that has room
\* for an event of every source.
LEMMA EventsHaveRoom ==
  ASSUME TypeOK, EventInv, IsFiniteSet(Source), Cardinality(Source) <= EventsCap,
         NEW s \in Source, ~active[s]
  PROVE  Len(events) < EventsCap
<1> DEFINE n == Len(events)
           T == Source \ {s}
<1>1. n \in Nat /\ DOMAIN events = 1..n /\ \A i \in 1..n : events[i].id \in Source
  <2>1. events \in Seq(SourceEvent)
    BY DEF TypeOK
  <2>2. n \in Nat /\ DOMAIN events = 1..n
    BY <2>1
  <2> QED BY <2>2, EventsOfSources
<1>2. IsFiniteSet(T) /\ Cardinality(T) = Cardinality(Source) - 1 /\ Cardinality(Source) \in Nat
  BY FS_RemoveElement, FS_CardinalityType
<1>3. IsFiniteSet(1..n) /\ Cardinality(1..n) = n
  BY <1>1, FS_Interval
<1>4. ASSUME n > Cardinality(T) PROVE FALSE
  <2> DEFINE f == [i \in 1..n |-> events[i].id]
  <2>1. f \in [1..n -> T]
    <3>1. \A i \in 1..n : events[i].id # s
      BY <1>1 DEF EventInv
    <3> QED BY <1>1, <3>1
  <2>2. \E i, j \in 1..n : i # j /\ f[i] = f[j]
    <3> HIDE DEF f
    <3> QED BY <1>2, <1>3, <1>4, <2>1, FS_PigeonHole
  <2> QED BY <1>1, <2>2 DEF EventInv
<1>5. EventsCap \in Nat
  BY DEF MergerAssumption
<1> QED BY <1>1, <1>2, <1>4, <1>5

LEMMA EventInit == Init => EventInv
BY DEF Init, EventInv, Goroutine

\* The first frame of a source announces it; the others announce nothing.
LEMMA AnnouncedOnce ==
  ASSUME TypeOK, EventInv, IsFiniteSet(Source), Cardinality(Source) <= EventsCap,
         NEW g \in Updater, Update(g)
  PROVE  EventInv'
<1> DEFINE s == call[g].src
<1>1. s \in Source /\ active' = [active EXCEPT ![s] = TRUE] /\ UNCHANGED shown
  BY DEF Update, consumed
<1>2. pc'[Ticker] = "idle"
  BY DEF Update, TypeOK, EventInv, Goroutine
<1>3. active \in [Source -> BOOLEAN] /\ events \in Seq(SourceEvent)
  BY DEF TypeOK
<1>4. CASE active[s]
  <2>1. events' = events /\ active' = active
    BY <1>1, <1>3, <1>4 DEF Update, Announce
  <2> QED BY <1>1, <1>2, <2>1 DEF EventInv
<1>5. CASE ~active[s]
  <2> DEFINE e == [id |-> s, connected |-> TRUE]
             n == Len(events)
  <2>1. events' = Append(events, e)
    <3>1. Len(events) < EventsCap
      BY <1>1, <1>5, EventsHaveRoom
    <3> QED BY <1>5, <3>1 DEF Update, Announce, TrySend
  <2>2. n \in Nat /\ DOMAIN events = 1..n /\ DOMAIN events' = 1..(n + 1)
    BY <1>3, <2>1
  <2>3. events'[n + 1] = e /\ \A i \in 1..n : events'[i] = events[i]
    BY <1>3, <2>1
  <2>4. \A i \in 1..n : events[i].id # s /\ events[i].connected /\ active[events[i].id]
    BY <1>5, <2>2 DEF EventInv
  <2>5. e.id = s /\ e.connected
    OBVIOUS
  <2> HIDE DEF e
  <2>6. \A i \in 1..n : events[i].id \in Source
    BY <2>2, EventsOfSources
  <2>7. \A i \in 1..(n + 1) : i \in 1..n \/ i = n + 1
    BY <2>2
  <2>8. \A i \in DOMAIN events' : events'[i].connected /\ active'[events'[i].id]
    BY <1>1, <1>3, <2>2, <2>3, <2>4, <2>5, <2>6, <2>7
  <2>9. \A i, j \in DOMAIN events' : events'[i].id = events'[j].id => i = j
    BY <2>2, <2>3, <2>4, <2>5, <2>7 DEF EventInv
  <2>10. ASSUME NEW t \in Source
         PROVE  active'[t] <=> shown'[t] \/ \E i \in DOMAIN events' : events'[i].id = t
    <3>1. CASE t = s
      <4>1. n + 1 \in DOMAIN events' /\ events'[n + 1].id = t
        BY <2>2, <2>3, <2>5, <3>1
      <4> QED BY <1>1, <1>3, <3>1, <4>1
    <3>2. CASE t # s
      <4>1. (\E i \in DOMAIN events' : events'[i].id = t) <=> \E i \in DOMAIN events : events[i].id = t
        BY <2>2, <2>3, <2>5, <2>7, <3>2
      <4>2. active'[t] = active[t] /\ shown'[t] = shown[t]
        BY <1>1, <1>3, <3>2
      <4> QED BY <4>1, <4>2 DEF EventInv
    <3> QED BY <3>1, <3>2
  <2> QED BY <1>2, <2>8, <2>9, <2>10 DEF EventInv
<1> QED BY <1>4, <1>5

\* The logger prints the oldest event.
LEMMA LoggedOnce ==
  ASSUME TypeOK, EventInv, LogEvent
  PROVE  EventInv'
<1> DEFINE n == Len(events)
<1>1. /\ events \in Seq(SourceEvent) /\ events # <<>> /\ events' = Tail(events)
      /\ shown' = [shown EXCEPT ![Head(events).id] = Head(events).connected]
      /\ UNCHANGED <<pc, active>> /\ shown \in [Source -> BOOLEAN]
  BY DEF LogEvent, TypeOK, sourceVars
<1>2. n \in Nat /\ n > 0 /\ DOMAIN events = 1..n /\ DOMAIN events' = 1..(n - 1)
      /\ Head(events) = events[1] /\ \A i \in 1..(n - 1) : events'[i] = events[i + 1]
  BY <1>1
<1>3. events[1].id \in Source /\ events[1].connected
  BY <1>2, EventsOfSources DEF EventInv
<1>4. \A i \in DOMAIN events' : events'[i].connected /\ active'[events'[i].id]
  BY <1>1, <1>2 DEF EventInv
<1>5. \A i, j \in DOMAIN events' : events'[i].id = events'[j].id => i = j
  <2> SUFFICES ASSUME NEW i \in 1..(n - 1), NEW j \in 1..(n - 1), events'[i].id = events'[j].id
               PROVE  i = j
    BY <1>2
  <2>1. i + 1 \in DOMAIN events /\ j + 1 \in DOMAIN events /\ events[i + 1].id = events[j + 1].id
    BY <1>2
  <2>2. i + 1 = j + 1
    BY <2>1 DEF EventInv
  <2> QED BY <1>2, <2>2
<1>6. ASSUME NEW t \in Source
      PROVE  active'[t] <=> shown'[t] \/ \E i \in DOMAIN events' : events'[i].id = t
  <2>1. CASE t = events[1].id
    <3>1. shown'[t] /\ active[t]
      <4>1. active[events[1].id]
        BY <1>2 DEF EventInv
      <4> QED BY <1>1, <1>2, <1>3, <2>1, <4>1
    <3> QED BY <1>1, <3>1
  <2>2. CASE t # events[1].id
    <3>1. ASSUME NEW i \in DOMAIN events, events[i].id = t
          PROVE  \E j \in DOMAIN events' : events'[j].id = t
      <4>1. i \in 2..n
        BY <1>2, <2>2, <3>1
      <4>2. i - 1 \in DOMAIN events' /\ events'[i - 1] = events[i]
        BY <1>2, <4>1
      <4> QED BY <3>1, <4>2
    <3>2. ASSUME NEW j \in DOMAIN events', events'[j].id = t
          PROVE  \E i \in DOMAIN events : events[i].id = t
      <4>1. j + 1 \in DOMAIN events /\ events[j + 1] = events'[j]
        BY <1>2
      <4> QED BY <3>2, <4>1
    <3>3. shown'[t] = shown[t]
      BY <1>1, <1>2, <2>2
    <3> QED BY <1>1, <3>1, <3>2, <3>3 DEF EventInv
  <2> QED BY <2>1, <2>2
<1>7. pc'[Ticker] = "idle"
  BY <1>1 DEF EventInv
<1> QED BY <1>4, <1>5, <1>6, <1>7 DEF EventInv

\* What the last event of a source says, printed or waiting, is so: with no
\* timeout, and room in the channel for an event of every source. The README shows
\* how an expiry is lost without this room.
THEOREM StatusTruthfulWhileEventsFit ==
  ASSUME Timeout = 0, IsFiniteSet(Source), Cardinality(Source) <= EventsCap
  PROVE  Spec => []StatusTruthful
<1>1. IInv /\ EventInv /\ [Next]_vars => EventInv'
  <2> SUFFICES ASSUME IInv, EventInv, [Next]_vars PROVE EventInv'
    OBVIOUS
  <2>0. TypeOK /\ pc[Ticker] = "idle" /\ Ticker \notin Updater
    BY DEF IInv, EventInv
  <2>1. ASSUME NEW g \in Updater, Update(g) PROVE EventInv'
    BY <2>0, <2>1, AnnouncedOnce
  <2>2. CASE LogEvent
    BY <2>0, <2>2, LoggedOnce
  <2>3. ASSUME pc'[Ticker] = "idle", UNCHANGED <<events, active, shown>> PROVE EventInv'
    BY <2>3 DEF EventInv
  <2>4. \A g \in Updater : \A v : [pc EXCEPT ![g] = v][Ticker] = "idle"
    BY <2>0 DEF TypeOK, Goroutine
  <2>5. ASSUME NEW g \in Updater, CallUpdate(g) \/ IgnoreUnknown(g) \/ SendSteps(g)
        PROVE  pc'[Ticker] = "idle" /\ UNCHANGED <<events, active, shown>>
    BY <2>4, <2>5 DEF CallUpdate, IgnoreUnknown, SendSteps, SendDirect, SendFull, Drain, Resend,
       SendAndReturn, sourceVars, consumed
  <2>6. ASSUME Receive \/ UNCHANGED vars
        PROVE  pc'[Ticker] = "idle" /\ UNCHANGED <<events, active, shown>>
    BY <2>0, <2>6 DEF Receive, vars, sourceVars, consumed
  <2>7. ~Tick /\ ~TickerSteps /\ ~TimePasses
    BY <2>0 DEF Tick, TickerSteps, ExpireOne, PublishAffected, TickDone, TimePasses
  <2> QED BY <2>1, <2>2, <2>3, <2>5, <2>6, <2>7 DEF Next, UpdateSteps
<1>2. IInv /\ EventInv => StatusTruthful
  <2> SUFFICES ASSUME IInv, EventInv, NEW s \in Source PROVE LatestStatus(s) = active[s]
    BY DEF StatusTruthful
  <2> DEFINE waiting == {i \in DOMAIN events : events[i].id = s}
  <2>0. active[s] \in BOOLEAN /\ shown[s] \in BOOLEAN
    BY DEF IInv, TypeOK
  <2>1. CASE waiting = {}
    <3>1. active[s] <=> shown[s]
      BY <2>1 DEF EventInv
    <3> QED BY <2>0, <2>1, <3>1, Zenon DEF LatestStatus
  <2>2. CASE waiting # {}
    <3>1. PICK i \in DOMAIN events : waiting = {i} /\ events[i].id = s
      BY <2>2 DEF EventInv
    <3>2. i \in Nat /\ events[i].connected \in BOOLEAN
      BY EventsOfSources DEF IInv
    <3>3. Max({i}) = i
      <4>1. {i} \in SUBSET (0..i) /\ {i} # {}
        BY <3>2
      <4>2. Max({i}) \in {i}
        BY <3>2, <4>1, MaxOfBounded
      <4> QED BY <4>2
    <3>4. LatestStatus(s) = events[i].connected
      BY <2>2, <3>1, <3>3 DEF LatestStatus
    <3>5. events[i].connected /\ active[s]
      BY <3>1 DEF EventInv
    <3> QED BY <2>0, <3>2, <3>4, <3>5, Zenon
  <2> QED BY <2>1, <2>2
<1> QED BY <1>1, <1>2, EventInit, Invariant, PTL DEF Spec
=============================================================================
