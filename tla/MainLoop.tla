------------------------------ MODULE MainLoop ------------------------------
(***************************************************************************)
(* The life of the program: main of main.go from the settings to the exit, *)
(* and the console (display/console.go) that tells the operator what it    *)
(* receives.                                                               *)
(*                                                                         *)
(* Two senders feed the merger: the DMX line, through the receiver and its *)
(* forwarder, and the Art-Net network, through the node and its own.  Of   *)
(* the frames only their number is kept, and of the merger only when it    *)
(* has something to send.                                                  *)
(*                                                                         *)
(* The unit of time is the second between two ticks of the merger's ticker.*)
(* Goroutines and timers that are due run within it: no tick overtakes     *)
(* them (Prompt), though they run in any order.                            *)
(***************************************************************************)
EXTENDS Settings

CONSTANTS
  Files,          \* what settings.properties can be before the first start
  Flags,          \* the command lines the program is started with
  Ports,          \* the serial ports that can be attached
  FirstWarning,   \* seconds without an output before a warning, 10
  NextWarning,    \* seconds from one warning to the next, 30
  Rate,           \* the frames that each sender sends in a second
  FramesCap,      \* capacity of the Frames channel, 4
  ReceivedCap,    \* capacity of the ReceivedDmx channel, 8
  OutputCap,      \* capacity of the Output channel, 4
  ElapsedMax,     \* bound: the longest time a rate is measured over
  Part            \* the parts of a frame per second in which rates are counted

Sender == {"line", "network"}

ASSUME MainLoopAssumption ==
  /\ FirstWarning \in Nat \ {0} /\ NextWarning \in Nat \ {0}
  /\ Rate \in [Sender -> Nat \ {0}]
  /\ FramesCap \in Nat \ {0} /\ ReceivedCap \in Nat \ {0} /\ OutputCap \in Nat \ {0}
  /\ ElapsedMax \in Nat \ {0}
  /\ Part \in Nat \ {0} /\ \A d \in 1..ElapsedMax : Part % d = 0
  /\ \A given \in Flags : "mergeTimeout" \in DOMAIN given => given["mergeTimeout"] \in Int

VARIABLES
  file,      \* settings.properties
  flags,     \* the command line of this start
  settings,  \* what is in force
  main,      \* where main is
  done,      \* the context has been cancelled
  adapter,   \* the adapter is attached
  receiver,  \* FALSE once Receiver.Run has returned
  reported,  \* "Receiver error" has been printed
  sending,   \* which senders send in this second
  left,      \* how many frames of this second they have yet to send
  frames,    \* how many frames the Frames channel holds
  received,  \* how many frames the ReceivedDmx channel holds
  age,       \* the age of each source's lastSeen, as in Merger
  output,    \* how many frames the Output channel holds
  timer,     \* seconds until noDataTimeout fires; 0 when it has
  console,   \* the fields of Console
  shown,     \* what the terminal shows
  silence    \* history: how long each source has not delivered

setupVars  == <<file, flags, settings>>
threadVars == <<main, done, adapter, receiver, reported>>
senderVars == <<sending, left>>
mergeVars  == <<age, output>>
screenVars == <<console, shown>>
vars == <<setupVars, threadVars, senderVars, frames, received, mergeVars, timer,
          screenVars, silence>>

----------------------------------------------------------------------------
(* What the settings decide.                                               *)

Quiet     == settings.quiet
Node      == settings.artnet
Forwards  == Node /\ settings.mergeInputs # <<>>   \* whether main forwards Art-Net
Timeout   == settings.mergeTimeout

Zero == -1   \* the zero time.Time

\* The latest that a silence is reported: by then the merger has put out a last
\* frame, for the source that has expired.
LatestWarning == FirstWarning + (IF Timeout > 0 THEN Timeout + 1 ELSE 0)

----------------------------------------------------------------------------
(* Console.  A frame per second is Part, which every time that a rate is   *)
(* measured over divides: rates are whole numbers.                         *)

NewConsole(elapsed) == [fpsFrames |-> 0, elapsed |-> elapsed, fps |-> 0,
                        lastReportedFPS |-> 0, firstFrame |-> TRUE]

\* A second after the last time, the rate is measured.
Measured(c) ==
  IF c.elapsed = 0 THEN [c EXCEPT !.fpsFrames = @ + 1]
  ELSE [c EXCEPT !.fps = ((c.fpsFrames + 1) * Part) \div c.elapsed,
                 !.fpsFrames = 0, !.elapsed = 0]

Distance(x, y) == IF x > y THEN x - y ELSE y - x

\* Mutant: only a rate that has grown is worth a line.
NewsOfMore(c) == c.firstFrame \/ c.fps - c.lastReportedFPS >= Part

\* Whether RenderStatus prints its line.
News(c) == c.firstFrame \/ Distance(c.fps, c.lastReportedFPS) >= Part

\* RenderStatus and Render; the grid is drawn every time.
RenderFrame ==
  LET c == Measured(console) IN
  IF Quiet /\ ~News(c) THEN console' = c /\ UNCHANGED shown
  ELSE /\ console' = IF Quiet THEN [c EXCEPT !.firstFrame = FALSE, !.lastReportedFPS = c.fps]
                     ELSE c
       /\ shown' = "receiving"

----------------------------------------------------------------------------
(* main, up to its loop.                                                   *)

NoOne == [s \in Sender |-> FALSE]

Init == /\ file \in Files /\ flags \in Flags /\ settings = Defaults
        /\ main = "load" /\ done = FALSE
        /\ adapter = TRUE /\ receiver = FALSE /\ reported = FALSE
        /\ sending = NoOne /\ left = [s \in Sender |-> 0]
        /\ frames = 0 /\ received = 0
        /\ age = [s \in Sender |-> Zero] /\ output = 0
        /\ timer = FirstWarning
        /\ console = NewConsole(0) /\ shown = "nothing"
        /\ silence = [s \in Sender |-> 0]

\* The settings, the file of a first start, the port, the socket, and the goroutines.
Load ==
  /\ main = "load"
  /\ settings' = InForce(file, flags, "")
  /\ \E writable \in BOOLEAN : file' = AfterStart(file, writable)
  /\ \E attached \in SUBSET Ports, opened \in BOOLEAN :
       IF PortName(settings', attached) # "" /\ opened
       THEN main' = "starting" /\ receiver' = TRUE
       ELSE main' = "exited" /\ UNCHANGED receiver
  /\ \E elapsed \in 0..ElapsedMax : console' = NewConsole(elapsed)
  /\ UNCHANGED <<flags, done, adapter, reported, senderVars, frames, received,
                 mergeVars, timer, shown, silence>>

\* ShowWaiting, when the goroutines are already running, and NewTimer.
ShowWaiting ==
  /\ main = "starting"
  /\ main' = "loop"
  /\ shown' = "waiting"
  /\ timer' = FirstWarning
  /\ UNCHANGED <<setupVars, done, adapter, receiver, reported, senderVars, frames,
                 received, mergeVars, console, silence>>

----------------------------------------------------------------------------
(* The senders and the goroutines between them and the merger.             *)

Running == main \in {"starting", "loop", "closing", "closed"}

\* A frame that nobody receives is lost.
Sent(s) == left[s] > 0 /\ left' = [left EXCEPT ![s] = @ - 1] /\ UNCHANGED sending

\* Mutant: room is checked off by one.
TryAddPastEnd(count, cap) == IF count <= cap THEN count + 1 ELSE count

TryAdd(count, cap) == IF count < cap THEN count + 1 ELSE count

LineSends ==
  /\ Running /\ Sent("line")
  /\ frames' = IF receiver /\ adapter THEN TryAdd(frames, FramesCap) ELSE frames
  /\ UNCHANGED <<setupVars, threadVars, received, mergeVars, timer, screenVars, silence>>

NetworkSends ==
  /\ Running /\ Sent("network")
  /\ received' = IF Node THEN TryAdd(received, ReceivedCap) ELSE received
  /\ UNCHANGED <<setupVars, threadVars, frames, mergeVars, timer, screenVars, silence>>

\* Update: the output frame takes the place of the oldest when there is no room.
Update(s) ==
  /\ age' = [age EXCEPT ![s] = 0]
  /\ output' = TryAdd(output, OutputCap)
  /\ silence' = [silence EXCEPT ![s] = 0]

ForwardLine ==
  /\ Running /\ frames > 0
  /\ frames' = frames - 1
  /\ RenderFrame
  /\ Update("line")
  /\ UNCHANGED <<setupVars, threadVars, senderVars, received, timer>>

ForwardNetwork ==
  /\ Running /\ Forwards /\ received > 0
  /\ received' = received - 1
  /\ Update("network")
  /\ UNCHANGED <<setupVars, threadVars, senderVars, frames, timer, screenVars>>

Overdue == {s \in Sender : Timeout > 0 /\ age[s] # Zero /\ age[s] > Timeout}

\* expireSources: an output frame for every universe of an overdue source.
ExpireSources ==
  /\ Running /\ Overdue # {}
  /\ age' = [s \in Sender |-> IF s \in Overdue THEN Zero ELSE age[s]]
  /\ \E n \in 1..Cardinality(Overdue) : output' = Min({output + n, OutputCap})
  /\ UNCHANGED <<setupVars, threadVars, senderVars, frames, received, timer,
                 screenVars, silence>>

\* Mutant: whether the program is ending makes no difference.
ReportsAny == TRUE

Reports == ~done

\* Receiver.Run returns with an error when the adapter or the port is gone.
ReceiverFails ==
  /\ receiver /\ (~adapter \/ main = "closed")
  /\ receiver' = FALSE
  /\ reported' = (reported \/ Reports)
  /\ UNCHANGED <<setupVars, main, done, adapter, senderVars, frames, received,
                 mergeVars, timer, screenVars, silence>>

\* Receiver.Run sees the end of the context; the other goroutines may too, and
\* then take no step any more.
ReceiverStops ==
  /\ receiver /\ done
  /\ receiver' = FALSE
  /\ UNCHANGED <<setupVars, main, done, adapter, reported, senderVars, frames,
                 received, mergeVars, timer, screenVars, silence>>

----------------------------------------------------------------------------
(* The main loop: a select over the Output channel, the timer and the end. *)

\* Mutant: an output puts off the warning by the longer time.
RestartLate == timer' = NextWarning

Restart == timer' = FirstWarning

ReceiveOutput ==
  /\ main = "loop" /\ output > 0
  /\ output' = output - 1
  /\ Restart
  /\ UNCHANGED <<setupVars, threadVars, senderVars, frames, received, age, screenVars,
                 silence>>

\* The quiet line says so, or a warning is printed.
Warn ==
  /\ main = "loop" /\ timer = 0
  /\ shown' = "notReceiving"
  /\ timer' = NextWarning
  /\ UNCHANGED <<setupVars, threadVars, senderVars, frames, received, mergeVars,
                 console, silence>>

\* Mutant: the end is only looked for when there is nothing to send.
SeesDoneWhenIdle == done /\ output = 0

SeesDone == done

\* main returns; what it has deferred runs, the port last.
MainReturns ==
  /\ main = "loop" /\ SeesDone
  /\ main' = "closing"
  /\ UNCHANGED <<setupVars, done, adapter, receiver, reported, senderVars, frames,
                 received, mergeVars, timer, screenVars, silence>>

ClosePort ==
  /\ main = "closing"
  /\ main' = "closed"
  /\ UNCHANGED <<setupVars, done, adapter, receiver, reported, senderVars, frames,
                 received, mergeVars, timer, screenVars, silence>>

\* The process ends, and every goroutine with it.
Exit ==
  /\ main = "closed"
  /\ main' = "exited"
  /\ receiver' = FALSE
  /\ UNCHANGED <<setupVars, done, adapter, reported, senderVars, frames, received,
                 mergeVars, timer, screenVars, silence>>

----------------------------------------------------------------------------
(* The world around it.                                                    *)

Interrupt ==
  /\ main \in {"starting", "loop"} /\ ~done
  /\ done' = TRUE
  /\ UNCHANGED <<setupVars, main, adapter, receiver, reported, senderVars, frames,
                 received, mergeVars, timer, screenVars, silence>>

AdapterGone ==
  /\ Running /\ adapter
  /\ adapter' = FALSE
  /\ UNCHANGED <<setupVars, main, done, receiver, reported, senderVars, frames,
                 received, mergeVars, timer, screenVars, silence>>

\* The program is started again, where the last start has left the file.
StartAgain ==
  /\ main = "exited"
  /\ flags' \in Flags /\ settings' = Defaults
  /\ main' = "load" /\ done' = FALSE
  /\ adapter' = TRUE /\ receiver' = FALSE /\ reported' = FALSE
  /\ sending' = NoOne /\ left' = [s \in Sender |-> 0]
  /\ frames' = 0 /\ received' = 0
  /\ age' = [s \in Sender |-> Zero] /\ output' = 0
  /\ timer' = FirstWarning
  /\ console' = NewConsole(0) /\ shown' = "nothing"
  /\ silence' = [s \in Sender |-> 0]
  /\ UNCHANGED file

Upto(x, bound) == IF x < bound THEN x + 1 ELSE x

\* Nothing is due in this second any more.
Prompt == /\ \A s \in Sender : left[s] = 0
          /\ frames = 0 /\ (Forwards => received = 0)
          /\ Overdue = {} /\ output = 0
          /\ timer > 0
          /\ receiver => adapter

Tick ==
  /\ main = "loop" /\ Prompt
  /\ timer' = timer - 1
  /\ age' = [s \in Sender |-> IF age[s] = Zero THEN Zero ELSE Upto(age[s], Timeout + 1)]
  /\ console' = [console EXCEPT !.elapsed = Upto(@, ElapsedMax)]
  /\ silence' = [s \in Sender |-> Upto(silence[s], LatestWarning + 1)]
  /\ sending' \in [Sender -> BOOLEAN]
  /\ sending'["line"] => receiver
  /\ sending'["network"] => Node
  /\ left' = [s \in Sender |-> IF sending'[s] THEN Rate[s] ELSE 0]
  /\ UNCHANGED <<setupVars, threadVars, frames, received, output, shown>>

----------------------------------------------------------------------------
Start     == Load \/ ShowWaiting
Deliver   == LineSends \/ NetworkSends
Forward   == ForwardLine \/ ForwardNetwork
Finish    == MainReturns \/ ClosePort \/ Exit

Next == \/ Start
        \/ Deliver
        \/ Forward
        \/ ExpireSources
        \/ ReceiverFails
        \/ ReceiverStops
        \/ ReceiveOutput
        \/ Warn
        \/ Finish
        \/ Interrupt
        \/ AdapterGone
        \/ StartAgain
        \/ Tick

Spec == Init /\ [][Next]_vars

\* Go runs every runnable goroutine, and a select that finds the end of the
\* context again and again beside other cases picks it some time; the senders
\* send what they have begun to send.
LiveSpec == /\ Spec
            /\ WF_vars(Start) /\ WF_vars(Deliver)
            /\ WF_vars(ForwardLine) /\ WF_vars(ForwardNetwork)
            /\ WF_vars(ExpireSources) /\ WF_vars(ReceiverFails)
            /\ WF_vars(ReceiveOutput) /\ WF_vars(Warn) /\ WF_vars(Finish)
            /\ WF_vars(Tick)
----------------------------------------------------------------------------
(* Properties.                                                             *)

\* Every variable has its type, and the channels keep their capacities.
TypeOK ==
  /\ file \in Files \cup {Readable(Template)} /\ flags \in Flags
  /\ DOMAIN settings = Key
  /\ main \in {"load", "starting", "loop", "closing", "closed", "exited"}
  /\ done \in BOOLEAN /\ adapter \in BOOLEAN /\ receiver \in BOOLEAN /\ reported \in BOOLEAN
  /\ sending \in [Sender -> BOOLEAN] /\ left \in [Sender -> Nat]
  /\ frames \in 0..FramesCap /\ received \in 0..ReceivedCap /\ output \in 0..OutputCap
  /\ age \in [Sender -> Nat \cup {Zero}]
  /\ timer \in 0..Max({FirstWarning, NextWarning})
  /\ console \in [fpsFrames : Nat, elapsed : 0..ElapsedMax, fps : Nat,
                   lastReportedFPS : Nat, firstFrame : BOOLEAN]
  /\ shown \in {"nothing", "waiting", "receiving", "notReceiving"}
  /\ silence \in [Sender -> Nat]

\* "On first run ... a commented template is generated" (README.md:142): the
\* file a start leaves behind means the settings it has run with, so that the
\* next start, with the same flags, runs with them too.
FileMeansSettings ==
  main # "load" => InForce(file, flags, "") = settings

\* When no source delivers, the operator is told: at the latest when the last
\* of them has expired and the no-data timer has run out after that, whichever
\* way the receiver, the forwarders and the main loop were interleaved.
SilenceIsReported ==
  main = "loop" /\ (\A s \in Sender : silence[s] > LatestWarning) => shown = "notReceiving"

\* "If no frame arrives, a warning is shown after 10 seconds" (README.md:222).
WarnedInTime ==
  main = "loop" /\ silence["line"] > FirstWarning => shown = "notReceiving"

\* A receiver error that is printed is one: closing the port at the end of the
\* program, while Receiver.Run may still be reading from it, is not reported.
ErrorIsReal == reported => ~adapter

\* The waiting screen and the warning do not outlast what they say: with a
\* steady source on the line, the terminal ends up saying that it is received,
\* although the status line is only printed when the rate has changed.
StatusRecovers ==
  <>[](main = "loop" /\ ~done /\ receiver /\ adapter /\ sending["line"])
    => <>[](shown = "receiving")

\* "Shutdown is coordinated with context.Context cancellation" (README.md:113):
\* whatever else the main loop's select finds, the program ends.
InterruptEnds == done ~> main = "exited"
=============================================================================
