------------------------------- MODULE Merger -------------------------------
(***************************************************************************)
(* The merger (merge/merge.go) with the goroutines of main.go around it.   *)
(*                                                                         *)
(* Forwarder goroutines call Update with the frames of their sources, one  *)
(* ticker goroutine calls expireSources, the main loop receives from the   *)
(* Output channel and the event logger from the Events channel.  Update    *)
(* and expireSources hold the mutex mu; the two consumers never take it,   *)
(* so they may receive between any two steps of a goroutine that holds it. *)
(* One action is one step of one goroutine between two channel or mutex    *)
(* operations that another goroutine can observe.                          *)
(***************************************************************************)
EXTENDS HTP, GoChannel

CONSTANTS
  SourceID,     \* the identifiers Update may be called with
  Source,       \* those AddMapping registered: the keys of Merger.sources
  Universe,     \* the output universes
  outputUni,    \* sourceState.outputUni, of each registered source
  Updater,      \* the goroutines that call Update
  feeds,        \* the identifiers each of them calls Update with
  Ticker,       \* the goroutine of Merger.Run
  None,         \* no goroutine, no call, no frame
  Frames,       \* the frames the sources deliver
  Timeout,      \* Merger.timeout in units of time; 0 for never
  OutputCap,    \* capacity of the Output channel, 4 in NewMerger
  EventsCap     \* capacity of the Events channel, 8 in NewMerger

Goroutine == Updater \cup {Ticker}
Call      == [src : SourceID, frame : Frames]
OutputFrame == [universe : Universe, frame : Frame]
SourceEvent == [id : Source, connected : BOOLEAN]

ASSUME MergerAssumption ==
  /\ Source \subseteq SourceID
  /\ outputUni \in [Source -> Universe]
  /\ feeds \in [Updater -> SUBSET SourceID]
  /\ Frames \subseteq Frame
  /\ Ticker \notin Updater
  /\ None \notin Goroutine \cup Call \cup OutputFrame
  /\ Timeout \in Nat
  /\ OutputCap \in Nat \ {0}
  /\ EventsCap \in Nat \ {0}

\* since[s] is the age of lastSeen, cut off one unit past the timeout; Zero
\* stands for the zero time.Time, a source that is not contributing.
Zero == -1
Age  == 0..(Timeout + 1)

VARIABLES
  mu,        \* the goroutine that holds the mutex, or None
  pc,        \* where each goroutine is
  call,      \* the arguments of the Update each updater is in
  out,       \* the output frame each updater is sending
  frame,     \* sourceState.frame, of each source
  since,     \* sourceState.lastSeen, as an age
  active,    \* sourceState.active
  expired,   \* the sources the loop of expireSources has yet to clear
  affected,  \* its local variable of the same name
  output,    \* the Output channel
  events,    \* the Events channel
  sent,      \* the last frame the main loop received for each universe
  shown      \* the last event the logger printed for each source

sourceVars == <<frame, since, active>>
tickVars   == <<expired, affected>>
consumed   == <<sent, shown>>
vars == <<mu, pc, call, out, sourceVars, tickVars, output, events, consumed>>

----------------------------------------------------------------------------
(* computeHTP over a given state of the sources.                           *)

Seen(sinceOf) == {s \in Source : sinceOf[s] # Zero}

SeenIn(sinceOf, u) == {s \in Seen(sinceOf) : outputUni[s] = u}

ComputeHTP(frameOf, sinceOf, u) == Highest({frameOf[s] : s \in SeenIn(sinceOf, u)})

(* sync.Mutex.  A goroutine that finds it held waits.                       *)

\* Mutant: the mutex is looked at and not taken.
LockForgotten(g) == mu = None /\ UNCHANGED mu

Lock(g) == mu = None /\ mu' = g

Unlock == mu' = None

----------------------------------------------------------------------------
Init ==
  /\ mu = None
  /\ pc = [g \in Goroutine |-> "idle"]
  /\ call = [g \in Updater |-> None]
  /\ out = [g \in Updater |-> None]
  /\ frame = [s \in Source |-> ZeroFrame]
  /\ since = [s \in Source |-> Zero]
  /\ active = [s \in Source |-> FALSE]
  /\ expired = {}
  /\ affected = {}
  /\ output = <<>>
  /\ events = <<>>
  /\ sent = [u \in Universe |-> ZeroFrame]
  /\ shown = [s \in Source |-> FALSE]

----------------------------------------------------------------------------
(* Update.                                                                 *)

\* A forwarder has received a frame and calls Update; it waits for mu.Lock.
CallUpdate(g) ==
  /\ pc[g] = "idle"
  /\ \E s \in feeds[g], f \in Frames : call' = [call EXCEPT ![g] = [src |-> s, frame |-> f]]
  /\ pc' = [pc EXCEPT ![g] = "lock"]
  /\ UNCHANGED <<mu, out, sourceVars, tickVars, output, events, consumed>>

\* The identifier was never mapped: Update returns at once.
IgnoreUnknown(g) ==
  /\ pc[g] = "lock" /\ mu = None
  /\ call[g].src \notin Source
  /\ pc' = [pc EXCEPT ![g] = "idle"]
  /\ call' = [call EXCEPT ![g] = None]
  /\ UNCHANGED <<mu, out, sourceVars, tickVars, output, events, consumed>>

\* Mutant: wasActive is read after active has been set.
AnnounceTooLate(s) == events' = IF active'[s] THEN events
                                ELSE TrySend(events, EventsCap, [id |-> s, connected |-> TRUE])

\* The connection of a source that was not active.
Announce(s) == events' = IF active[s] THEN events
                         ELSE TrySend(events, EventsCap, [id |-> s, connected |-> TRUE])

\* Mutant: the merge is computed before the new frame is stored.
MergedTooEarly(u) == [universe |-> u, frame |-> ComputeHTP(frame, since, u)]

\* The output frame of universe u, from the sources as this step leaves them.
Merged(u) == [universe |-> u, frame |-> ComputeHTP(frame', since', u)]

\* The source's state is replaced, its connection announced, and the merge of
\* its universe computed; the send is still to come.
Update(g) ==
  /\ pc[g] = "lock" /\ Lock(g)
  /\ call[g].src \in Source
  /\ LET s == call[g].src IN
       /\ frame' = [frame EXCEPT ![s] = call[g].frame]
       /\ since' = [since EXCEPT ![s] = 0]
       /\ active' = [active EXCEPT ![s] = TRUE]
       /\ Announce(s)
       /\ out' = [out EXCEPT ![g] = Merged(outputUni[s])]
  /\ pc' = [pc EXCEPT ![g] = "send"]
  /\ UNCHANGED <<call, tickVars, output, consumed>>

\* The frame is appended and Update returns, which releases the mutex.
SendAndReturn(g) ==
  /\ Len(output) < OutputCap
  /\ output' = Append(output, out[g])
  /\ out' = [out EXCEPT ![g] = None]
  /\ call' = [call EXCEPT ![g] = None]
  /\ pc' = [pc EXCEPT ![g] = "idle"]
  /\ Unlock
  /\ UNCHANGED <<sourceVars, tickVars, events, consumed>>

SendDirect(g) == pc[g] = "send" /\ SendAndReturn(g)

\* The outer select finds the channel full and takes its default.
SendFull(g) ==
  /\ pc[g] = "send" /\ Len(output) = OutputCap
  /\ pc' = [pc EXCEPT ![g] = "drain"]
  /\ UNCHANGED <<mu, call, out, sourceVars, tickVars, output, events, consumed>>

\* Mutant: nothing is discarded before the blocking send.
DiscardNothing == UNCHANGED output

DiscardOldest == output' = IF output = <<>> THEN <<>> ELSE Tail(output)

\* The inner select: the oldest output frame is discarded, whichever universe
\* it is for, unless the main loop has emptied the channel meanwhile.
Drain(g) ==
  /\ pc[g] = "drain"
  /\ DiscardOldest
  /\ pc' = [pc EXCEPT ![g] = "resend"]
  /\ UNCHANGED <<mu, call, out, sourceVars, tickVars, events, consumed>>

\* The plain send after it.  It would block on a full channel.
Resend(g) == pc[g] = "resend" /\ SendAndReturn(g)

----------------------------------------------------------------------------
(* Run and expireSources.  Without a timeout Run only waits for the end.   *)

\* Mutant: a source is only noticed in the instant the timeout elapses.
SilentExactly(s) == since[s] # Zero /\ since[s] = Timeout

Silent(s) == since[s] # Zero /\ since[s] > Timeout

\* The ticker fires, takes the mutex and reads the clock.
Tick ==
  /\ Timeout > 0
  /\ pc[Ticker] = "idle" /\ Lock(Ticker)
  /\ pc' = [pc EXCEPT ![Ticker] = "expire"]
  /\ expired' = {s \in Source : Silent(s)}
  /\ affected' = {}
  /\ UNCHANGED <<call, out, sourceVars, output, events, consumed>>

\* One round of the loop over the sources, which Go visits in any order.
ExpireOne(s) ==
  /\ pc[Ticker] = "expire" /\ s \in expired
  /\ expired' = expired \ {s}
  /\ frame' = [frame EXCEPT ![s] = ZeroFrame]
  /\ since' = [since EXCEPT ![s] = Zero]
  /\ active' = [active EXCEPT ![s] = FALSE]
  /\ affected' = affected \cup {outputUni[s]}
  /\ events' = TrySend(events, EventsCap, [id |-> s, connected |-> FALSE])
  /\ UNCHANGED <<mu, pc, call, out, output, consumed>>

\* One round of the loop over the affected universes.
PublishAffected(u) ==
  /\ pc[Ticker] = "expire" /\ expired = {} /\ u \in affected
  /\ affected' = affected \ {u}
  /\ output' = TrySend(output, OutputCap,
                       [universe |-> u, frame |-> ComputeHTP(frame, since, u)])
  /\ UNCHANGED <<mu, pc, call, out, sourceVars, expired, events, consumed>>

\* expireSources returns, which releases the mutex.
TickDone ==
  /\ pc[Ticker] = "expire" /\ expired = {} /\ affected = {}
  /\ pc' = [pc EXCEPT ![Ticker] = "idle"]
  /\ Unlock
  /\ UNCHANGED <<call, out, sourceVars, tickVars, output, events, consumed>>

----------------------------------------------------------------------------
(* The consumers in main.go, and the clock.                                *)

\* The main loop receives an output frame and sends it on the network.
Receive ==
  /\ output # <<>>
  /\ sent' = [sent EXCEPT ![Head(output).universe] = Head(output).frame]
  /\ output' = Tail(output)
  /\ UNCHANGED <<mu, pc, call, out, sourceVars, tickVars, events, shown>>

\* The event logger prints a connection or a disconnection.
LogEvent ==
  /\ events # <<>>
  /\ shown' = [shown EXCEPT ![Head(events).id] = Head(events).connected]
  /\ events' = Tail(events)
  /\ UNCHANGED <<mu, pc, call, out, sourceVars, tickVars, output, sent>>

Older(age) == IF age = Zero \/ age > Timeout THEN age ELSE age + 1

\* Nothing reads an age when there is no timeout.
TimePasses ==
  /\ Timeout > 0
  /\ since' = [s \in Source |-> Older(since[s])]
  /\ since' # since
  /\ UNCHANGED <<mu, pc, call, out, frame, active, tickVars, output, events, consumed>>

----------------------------------------------------------------------------
UpdateSteps(g) == IgnoreUnknown(g) \/ Update(g)

SendSteps(g) == SendDirect(g) \/ SendFull(g) \/ Drain(g) \/ Resend(g)

TickerSteps == \/ \E s \in Source : ExpireOne(s)
               \/ \E u \in Universe : PublishAffected(u)
               \/ TickDone

Next == \/ \E g \in Updater : CallUpdate(g) \/ UpdateSteps(g) \/ SendSteps(g)
        \/ Tick
        \/ TickerSteps
        \/ Receive
        \/ LogEvent
        \/ TimePasses

Spec == Init /\ [][Next]_vars

\* Go runs every runnable goroutine and fires the ticker every second.  A mutex
\* released again and again is strongly fair: sync.Mutex hands itself over to a
\* goroutine that has waited for more than a millisecond.
ProducerFairness ==
  /\ \A g \in Updater : SF_vars(UpdateSteps(g)) /\ WF_vars(SendSteps(g))
  /\ SF_vars(Tick)
  /\ WF_vars(TickerSteps)
  /\ WF_vars(TimePasses)

\* The main loop and the logger go on receiving.
ConsumerFairness == WF_vars(Receive) /\ WF_vars(LogEvent)

\* The consumers may stop for ever: SendDmxUniverse or a print may block.
FairSpec == Spec /\ ProducerFairness

LiveSpec == FairSpec /\ ConsumerFairness
----------------------------------------------------------------------------
(* Properties.                                                             *)

Sending == {"send", "drain", "resend"}   \* with the frame computed

CallOrNone  == Call \cup {None}
FrameOrNone == OutputFrame \cup {None}

\* Every variable has its type.  No channel exceeds its capacity, and a
\* goroutine has a call and a frame to send exactly where Update has them.
TypeOK ==
  /\ mu \in Goroutine \cup {None}
  /\ pc \in [Goroutine -> {"idle", "lock", "send", "drain", "resend", "expire"}]
  /\ call \in [Updater -> CallOrNone]
  /\ out \in [Updater -> FrameOrNone]
  /\ \A g \in Updater : /\ pc[g] # "expire"
                        /\ call[g] \in Call <=> pc[g] # "idle"
                        /\ out[g] \in OutputFrame <=> pc[g] \in Sending
  /\ pc[Ticker] \in {"idle", "expire"}
  /\ frame \in [Source -> Frame]
  /\ since \in [Source -> Age \cup {Zero}]
  /\ active \in [Source -> BOOLEAN]
  /\ expired \subseteq Source
  /\ affected \subseteq Universe
  /\ output \in Seq(OutputFrame) /\ Len(output) <= OutputCap
  /\ events \in Seq(SourceEvent) /\ Len(events) <= EventsCap
  /\ sent \in [Universe -> Frame]
  /\ shown \in [Source -> BOOLEAN]

\* The send of Update that has no default (merge.go:94) is made with the mutex
\* held.  It never finds the channel full, so it never blocks the other
\* goroutines behind a main loop that has stopped receiving.
SendHasRoom == \A g \in Updater : pc[g] = "resend" => Len(output) < OutputCap

\* The inductive invariant.  Whoever is between its lock and its unlock holds
\* the mutex; therefore the frame an updater is about to send stays the merge
\* of its universe, the sources the ticker has collected stay silent, and room
\* made in the channel stays there.
IInv ==
  /\ TypeOK
  /\ \A g \in Updater : pc[g] \in Sending => mu = g
  /\ pc[Ticker] = "expire" => mu = Ticker
  /\ SendHasRoom
  /\ \A g \in Updater : pc[g] \in Sending =>
       out[g].frame = ComputeHTP(frame, since, out[g].universe)
  /\ pc[Ticker] = "expire" => \A s \in expired : Silent(s)

\* A source is only disconnected after it has been silent for more than the
\* timeout: an Update that races with the ticker is never undone by it.
ExpiryNeedsSilence ==
  [][\A s \in Source : since[s] # Zero /\ since'[s] = Zero => since[s] > Timeout]_vars

\* Every output frame is the merge of what the sources of its universe
\* contribute at the moment it is appended, and frames leave the channel in
\* the order they were appended.
Service == INSTANCE MergeService WITH
  contributed <- [s \in Source |-> IF since[s] = Zero THEN {} ELSE {frame[s]}],
  stream <- output

ImplementsService == Service!Spec

\* The newest output frame of universe u: the last one in the channel or, when
\* it holds none, the last one that was sent.
Latest(u) ==
  LET waiting == {i \in DOMAIN output : output[i].universe = u}
  IN  IF waiting = {} THEN sent[u] ELSE output[Max(waiting)].frame

\* "Replace stale value if consumer is slow" (merge.go:86): whenever no
\* goroutine is in the middle of an update, what has been sent or is about to
\* be sent for a universe is the merge of its sources.
Fresh == mu = None => \A u \in Universe : Latest(u) = ComputeHTP(frame, since, u)

\* What the logger has printed of a source, once it has caught up.
LatestStatus(s) ==
  LET waiting == {i \in DOMAIN events : events[i].id = s}
  IN  IF waiting = {} THEN shown[s] ELSE events[Max(waiting)].connected

\* "Connect/disconnect events are printed as they happen" (README.md:204): a
\* source whose last printed or pending event says it is connected is.
StatusTruthful == mu = None => \A s \in Source : LatestStatus(s) = active[s]

\* Every call of Update returns, even when nobody receives from the Output and
\* Events channels any more.
UpdateReturns == \A g \in Updater : pc[g] = "lock" ~> pc[g] = "idle"

\* No source stays connected and silent for ever: it goes on delivering, or it
\* is disconnected, however busy the other sources keep the mutex.
SilentSourceExpires == \A s \in Source : []<>(since[s] = 0) \/ []<>(since[s] = Zero)

\* Once the sources have stopped changing, the network has their merge.
Settles == \A u \in Universe, f \in Frame :
             <>[](ComputeHTP(frame, since, u) = f) => <>[](sent[u] = f)

\* "If a source goes silent, its contribution is zeroed [and] the universe is
\* recomputed" (README.md:202): a universe nobody contributes to any more ends
\* up dark on the network.
SilentUniverseGoesDark == \A u \in Universe :
  <>[](SeenIn(since, u) = {}) => <>[](sent[u] = ZeroFrame)
=============================================================================
