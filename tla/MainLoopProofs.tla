--------------------------- MODULE MainLoopProofs ----------------------------
(***************************************************************************)
(* The settings and the main loop, for every file, command line, timeout   *)
(* and channel capacity: a generated file means what the program ran with; *)
(* silence is reported; and no receiver error is made up at the end.       *)
(***************************************************************************)
EXTENDS MainLoop, FiniteSetTheorems, TLAPS

----------------------------------------------------------------------------
(* The settings.                                                           *)

LEMMA NoPairs == ParseMergeInputs(<<>>) = <<>>
<1> DEFINE body(f) == [n \in 0..Len(<<>>) |->
                         IF n = 0 THEN <<>>
                         ELSE IF <<>>[n] = Malformed THEN f[n - 1] ELSE Append(f[n - 1], <<>>[n])]
           upto == CHOOSE f : f = body(f)
<1>1. [n \in 0..0 |-> <<>>] = body([n \in 0..0 |-> <<>>])
  OBVIOUS
<1>2. upto = body(upto)
  <2> HIDE DEF body
  <2> QED BY <1>1
<1>3. upto[0] = <<>>
  <2> HIDE DEF upto
  <2> QED BY <1>2
<1> QED BY <1>3 DEF ParseMergeInputs

LEMMA MaxOfOne ==
  ASSUME NEW i \in Int
  PROVE  Max({i}) = i
BY DEF Max

\* The keys of the template, line by line.
LEMMA TemplateKeyOf ==
  /\ DOMAIN Template = 1..10
  /\ Template[1].key = "comPort"
  /\ Template[2].key = "channels"
  /\ Template[3].key = "noBreakDetect"
  /\ Template[4].key = "quiet"
  /\ Template[5].key = "artnet"
  /\ Template[6].key = "artnetDest"
  /\ Template[7].key = "artnetUniverse"
  /\ Template[8].key = "artnetBind"
  /\ Template[9].key = "mergeInputs"
  /\ Template[10].key = "mergeTimeout"
<1>0. DOMAIN Template = 1..10
  BY DEF Template
<1>1. Template[1].key = "comPort"
  BY DEF Template, Line
<1>2. Template[2].key = "channels"
  BY DEF Template, Line
<1>3. Template[3].key = "noBreakDetect"
  BY DEF Template, Line
<1>4. Template[4].key = "quiet"
  BY DEF Template, Line
<1>5. Template[5].key = "artnet"
  BY DEF Template, Line
<1>6. Template[6].key = "artnetDest"
  BY DEF Template, Line
<1>7. Template[7].key = "artnetUniverse"
  BY DEF Template, Line
<1>8. Template[8].key = "artnetBind"
  BY DEF Template, Line
<1>9. Template[9].key = "mergeInputs"
  BY DEF Template, Line
<1>10. Template[10].key = "mergeTimeout"
  BY DEF Template, Line
<1> QED BY <1>0, <1>1, <1>2, <1>3, <1>4, <1>5, <1>6, <1>7, <1>8, <1>9, <1>10

LEMMA TenLines == \A i \in 1..10 : i \in {1, 2, 3, 4, 5, 6, 7, 8, 9, 10}
OBVIOUS

\* Every key has one line.
LEMMA TemplateKeys ==
  /\ {Template[i].key : i \in DOMAIN Template} = Key
  /\ \A i, j \in DOMAIN Template : Template[i].key = Template[j].key => i = j
<1>1. DOMAIN Template = 1..10
  BY TemplateKeyOf
<1>2. \A i \in 1..10 : Template[i].key \in Key
  BY TenLines, TemplateKeyOf DEF Key, StringKey, IntKey, BoolKey
<1>3. \A k \in Key : \E i \in 1..10 : Template[i].key = k
  <2> SUFFICES ASSUME NEW k \in Key PROVE \E i \in 1..10 : Template[i].key = k
    OBVIOUS
  <2>1. \A i \in {1, 2, 3, 4, 5, 6, 7, 8, 9, 10} : i \in 1..10
    OBVIOUS
  <2>2. \E i \in {1, 2, 3, 4, 5, 6, 7, 8, 9, 10} : Template[i].key = k
    BY TemplateKeyOf DEF Key, StringKey, IntKey, BoolKey
  <2> QED BY <2>1, <2>2
<1>4. \A i, j \in 1..10 : Template[i].key = Template[j].key => i = j
  BY TenLines, TemplateKeyOf
<1> QED BY <1>1, <1>2, <1>3, <1>4

\* What each line says is what Defaults has.
LEMMA TemplateMeans ==
  ASSUME NEW i \in DOMAIN Template
  PROVE  /\ Valid(Template[i].key, Template[i].text)
         /\ Parsed(Template[i].key, Template[i].text) = Defaults[Template[i].key]
<1> DEFINE Means(line) == Valid(line.key, line.text) /\ Parsed(line.key, line.text) = Defaults[line.key]
<1>1. Means(Template[1])
  <2>1. Template[1].key = "comPort" /\ Template[1].text = ""
    BY DEF Template, Line
  <2>2. Defaults["comPort"] = "" /\ "comPort" \notin BoolKey \cup IntKey
    BY DEF Defaults, BoolKey, IntKey
  <2> QED BY <2>1, <2>2 DEF Valid, Parsed
<1>2. Means(Template[2])
  <2>1. Template[2].key = "channels" /\ Template[2].text = 512
    BY DEF Template, Line
  <2>2. Defaults["channels"] = 512 /\ "channels" \notin BoolKey
    BY DEF Defaults, BoolKey
  <2> QED BY <2>1, <2>2 DEF Valid, Parsed
<1>3. Means(Template[3])
  <2>1. Template[3].key = "noBreakDetect" /\ Template[3].text = "false"
    BY DEF Template, Line
  <2>2. Defaults["noBreakDetect"] = FALSE /\ "noBreakDetect" \in BoolKey /\ "noBreakDetect" \notin IntKey
    BY DEF Defaults, BoolKey, IntKey
  <2> QED BY <2>1, <2>2 DEF Valid, Parsed
<1>4. Means(Template[4])
  <2>1. Template[4].key = "quiet" /\ Template[4].text = "false"
    BY DEF Template, Line
  <2>2. Defaults["quiet"] = FALSE /\ "quiet" \in BoolKey /\ "quiet" \notin IntKey
    BY DEF Defaults, BoolKey, IntKey
  <2> QED BY <2>1, <2>2 DEF Valid, Parsed
<1>5. Means(Template[5])
  <2>1. Template[5].key = "artnet" /\ Template[5].text = "false"
    BY DEF Template, Line
  <2>2. Defaults["artnet"] = FALSE /\ "artnet" \in BoolKey /\ "artnet" \notin IntKey
    BY DEF Defaults, BoolKey, IntKey
  <2> QED BY <2>1, <2>2 DEF Valid, Parsed
<1>6. Means(Template[6])
  <2>1. Template[6].key = "artnetDest" /\ Template[6].text = "255.255.255.255"
    BY DEF Template, Line
  <2>2. Defaults["artnetDest"] = "255.255.255.255" /\ "artnetDest" \notin BoolKey \cup IntKey
    BY DEF Defaults, BoolKey, IntKey
  <2> QED BY <2>1, <2>2 DEF Valid, Parsed
<1>7. Means(Template[7])
  <2>1. Template[7].key = "artnetUniverse" /\ Template[7].text = 0
    BY DEF Template, Line
  <2>2. Defaults["artnetUniverse"] = 0 /\ "artnetUniverse" \notin BoolKey
    BY DEF Defaults, BoolKey
  <2> QED BY <2>1, <2>2 DEF Valid, Parsed
<1>8. Means(Template[8])
  <2>1. Template[8].key = "artnetBind" /\ Template[8].text = ""
    BY DEF Template, Line
  <2>2. Defaults["artnetBind"] = "" /\ "artnetBind" \notin BoolKey \cup IntKey
    BY DEF Defaults, BoolKey, IntKey
  <2> QED BY <2>1, <2>2 DEF Valid, Parsed
<1>9. Means(Template[9])
  <2>1. Template[9].key = "mergeInputs" /\ Template[9].text = <<>>
    BY DEF Template, Line
  <2>2. Defaults["mergeInputs"] = <<>> /\ "mergeInputs" \notin BoolKey \cup IntKey
    BY DEF Defaults, BoolKey, IntKey
  <2> QED BY <2>1, <2>2, NoPairs DEF Valid, Parsed
<1>10. Means(Template[10])
  <2>1. Template[10].key = "mergeTimeout" /\ Template[10].text = 5
    BY DEF Template, Line
  <2>2. Defaults["mergeTimeout"] = 5 /\ "mergeTimeout" \notin BoolKey
    BY DEF Defaults, BoolKey
  <2> QED BY <2>1, <2>2 DEF Valid, Parsed
<1> HIDE DEF Means
<1>11. i \in {1, 2, 3, 4, 5, 6, 7, 8, 9, 10}
  BY TemplateKeyOf, TenLines
<1>12. Means(Template[i])
  BY <1>1, <1>2, <1>3, <1>4, <1>5, <1>6, <1>7, <1>8, <1>9, <1>10, <1>11
<1> QED BY <1>12 DEF Means

LEMMA TemplateIsDefaults == FromFile(Readable(Template)) = Defaults
<1> DEFINE props == LoadProperties(Template)
<1>1. DOMAIN props = Key
  BY TemplateKeys DEF LoadProperties
<1>2. ASSUME NEW k \in Key
      PROVE  Valid(k, props[k]) /\ Parsed(k, props[k]) = Defaults[k]
  <2>1. PICK i \in DOMAIN Template : Template[i].key = k
    BY TemplateKeys
  <2>2. {j \in DOMAIN Template : Template[j].key = k} = {i}
    BY <2>1, TemplateKeys
  <2>3. Max({i}) = i
    <3>1. i \in 1..10
      BY <2>1, TemplateKeyOf
    <3> QED BY <3>1, MaxOfOne
  <2>4. props[k] = Template[i].text
    BY <1>1, <2>2, <2>3 DEF LoadProperties
  <2> HIDE DEF props
  <2> QED BY <2>1, <2>4, TemplateMeans
<1> HIDE DEF props
<1>3. Apply(props, Defaults) = [k \in Key |-> Defaults[k]]
  BY <1>1, <1>2 DEF Apply
<1>4. Defaults = [k \in Key |-> Defaults[k]]
  BY DEF Defaults, Key, StringKey, IntKey, BoolKey
<1> QED BY <1>3, <1>4 DEF FromFile, Readable, props

\* Before the file is generated, the defaults are in force.
LEMMA GeneratedMeansSame ==
  ASSUME NEW anyFile, anyFile.kind = "missing"
  PROVE  FromFile(Readable(Template)) = FromFile(anyFile)
BY TemplateIsDefaults DEF FromFile

\* A first start leaves a file that means the settings it has run with: the next
\* start runs with the same, for every command line.  The defaults are written
\* down twice in the program, as Defaults and as text in defaultTemplate.
THEOREM StartIsRepeatable ==
  ASSUME NEW anyFile, NEW writable \in BOOLEAN, NEW given, NEW arg
  PROVE  InForce(AfterStart(anyFile, writable), given, arg) = InForce(anyFile, given, arg)
<1>1. FromFile(AfterStart(anyFile, writable)) = FromFile(anyFile)
  BY GeneratedMeansSame DEF AfterStart
<1> QED BY <1>1 DEF InForce

LEMMA TimeoutIsInt ==
  ASSUME NEW anyFile, NEW given \in Flags, NEW arg
  PROVE  InForce(anyFile, given, arg)["mergeTimeout"] \in Int
<1> DEFINE k == "mergeTimeout"  cfg == FromFile(anyFile)
<1>1. k \in Key /\ k \in IntKey /\ k \notin BoolKey /\ k \notin {"comPort", "mergeInputs", "noBreakDetect"}
  BY DEF Key, StringKey, IntKey, BoolKey
<1>2. Defaults[k] \in Int
  BY DEF Defaults
<1>3. cfg[k] \in Int
  <2>1. ASSUME NEW props PROVE Apply(props, Defaults)[k] \in Int
    BY <1>1, <1>2 DEF Apply, Valid, Parsed
  <2> QED BY <1>2, <2>1 DEF FromFile
<1>4. k \in DOMAIN given => given[k] \in Int
  BY MainLoopAssumption DEF MainLoopAssumption
<1> HIDE DEF cfg
<1>5. InForce(anyFile, given, arg)[k] = IF FlagGiven(given, k) THEN given[k] ELSE cfg[k]
  BY <1>1 DEF InForce, cfg
<1> QED BY <1>3, <1>4, <1>5 DEF FlagGiven

----------------------------------------------------------------------------
(* What the program runs with, from one start to the next.                 *)

LEMMA SetupStays ==
  ASSUME [Next]_vars, ~Load, ~StartAgain
  PROVE  UNCHANGED setupVars /\ (main' # "load" => main # "load")
BY DEF Next, Start, Deliver, Forward, Finish, ShowWaiting, LineSends, NetworkSends,
       ForwardLine, ForwardNetwork, ExpireSources, ReceiverFails, ReceiverStops, ReceiveOutput,
       Warn, MainReturns, ClosePort, Exit, Interrupt, AdapterGone, Tick, vars, setupVars,
       threadVars

\* For every file that can be found and every command line: what is in force is
\* what the file, as the start has left it, and the command line say.
THEOREM FileIsKept == Spec => []FileMeansSettings
<1>1. Init => FileMeansSettings
  BY DEF Init, FileMeansSettings
<1>2. FileMeansSettings /\ [Next]_vars => FileMeansSettings'
  <2> SUFFICES ASSUME FileMeansSettings, [Next]_vars PROVE FileMeansSettings'
    OBVIOUS
  <2>1. CASE Load
    <3>1. file' = file \/ (file.kind = "missing" /\ file' = Readable(Template))
      BY <2>1 DEF Load, AfterStart
    <3>2. settings' = InForce(file, flags, "") /\ flags' = flags
      BY <2>1 DEF Load
    <3>3. FromFile(file') = FromFile(file)
      BY <3>1, GeneratedMeansSame
    <3>4. InForce(file', flags', "") = InForce(file, flags, "")
      BY <3>2, <3>3 DEF InForce
    <3> QED BY <3>2, <3>4 DEF FileMeansSettings
  <2>2. CASE StartAgain
    BY <2>2 DEF StartAgain, FileMeansSettings
  <2>3. CASE ~Load /\ ~StartAgain
    BY <2>3, SetupStays DEF FileMeansSettings, setupVars
  <2> QED BY <2>1, <2>2, <2>3
<1> QED BY <1>1, <1>2, PTL DEF Spec

----------------------------------------------------------------------------
(* The end of the program.                                                 *)

\* main only returns once the context is cancelled.
ErrorInv == ErrorIsReal /\ (main \in {"closing", "closed"} => done)

\* Closing the port under a receiver that is reading is never reported.
THEOREM ErrorsAreReal == Spec => []ErrorIsReal
<1>1. Init => ErrorInv
  BY DEF Init, ErrorInv, ErrorIsReal
<1>2. ErrorInv /\ [Next]_vars => ErrorInv'
  <2> SUFFICES ASSUME ErrorInv, [Next]_vars PROVE ErrorInv'
    OBVIOUS
  <2>1. CASE ReceiverFails
    BY <2>1 DEF ReceiverFails, Reports, ErrorInv, ErrorIsReal
  <2>2. CASE StartAgain
    BY <2>2 DEF StartAgain, ErrorInv, ErrorIsReal
  <2>3. CASE Load
    BY <2>3 DEF Load, ErrorInv, ErrorIsReal
  <2>4. CASE MainReturns \/ ClosePort \/ Exit
    BY <2>4 DEF MainReturns, ClosePort, Exit, SeesDone, ErrorInv, ErrorIsReal
  <2>5. CASE Interrupt \/ AdapterGone \/ ReceiverStops \/ ShowWaiting
    BY <2>5 DEF Interrupt, AdapterGone, ReceiverStops, ShowWaiting, ErrorInv, ErrorIsReal
  <2>6. CASE UNCHANGED threadVars
    BY <2>6 DEF threadVars, ErrorInv, ErrorIsReal
  <2>7. Deliver \/ Forward \/ ExpireSources \/ ReceiveOutput \/ Warn \/ Tick \/ UNCHANGED vars
          => UNCHANGED threadVars
    BY DEF Deliver, Forward, LineSends, NetworkSends, ForwardLine, ForwardNetwork,
           ExpireSources, ReceiveOutput, Warn, Tick, vars
  <2> QED BY <2>1, <2>2, <2>3, <2>4, <2>5, <2>6, <2>7 DEF Next, Start, Finish
<1>3. ErrorInv => ErrorIsReal
  BY DEF ErrorInv
<1> QED BY <1>1, <1>2, <1>3, PTL DEF Spec

----------------------------------------------------------------------------
(* Silence.                                                                *)

\* How long a source that has gone silent can still cause an output.
Expiry == IF Timeout > 0 THEN Timeout + 1 ELSE 0

Types == /\ Timeout \in Int
         /\ silence \in [Sender -> Nat] /\ age \in [Sender -> Int]
         /\ output \in Nat /\ timer \in Nat

\* An age is the silence of its source, and is removed when it passes the timeout.
AgesAreSilences ==
  \A s \in Sender : Timeout > 0 /\ age[s] # Zero => silence[s] = age[s] /\ age[s] <= Timeout + 1

\* An output waits only while some source was heard or has just expired.
OutputIsRecent == output > 0 => \E s \in Sender : silence[s] <= Expiry

\* Unless the terminal already says so, the timer runs out in time, or is about
\* to be started again by an output that waits.
TimerIsInTime ==
  main = "loop" /\ shown # "notReceiving" =>
    output > 0 \/ \E s \in Sender : timer + silence[s] <= LatestWarning

NothingYet ==
  /\ main \in {"load", "starting"} => \A s \in Sender : silence[s] = 0
  /\ main = "load" => output = 0 /\ \A s \in Sender : age[s] = Zero

SilenceInv == Types /\ AgesAreSilences /\ OutputIsRecent /\ TimerIsInTime /\ NothingYet

LEMMA WaitingTimes ==
  /\ FirstWarning \in Nat /\ NextWarning \in Nat /\ OutputCap \in Nat /\ OutputCap > 0
BY MainLoopAssumption DEF MainLoopAssumption

LEMMA LatestIsExpiry == LatestWarning = FirstWarning + Expiry
BY DEF LatestWarning, Expiry

LEMMA AddedIsSome ==
  ASSUME NEW n \in Nat, NEW cap \in Nat, cap > 0
  PROVE  TryAdd(n, cap) \in Nat /\ TryAdd(n, cap) > 0
BY DEF TryAdd

LEMMA MinOfTwo ==
  ASSUME NEW m \in Nat, NEW n \in Nat
  PROVE  Min({m, n}) \in {m, n}
BY DEF Min

\* An Update.
LEMMA UpdateKeeps ==
  ASSUME SilenceInv, NEW s \in Sender, Update(s), UNCHANGED <<settings, timer, main>>,
         main \notin {"load", "starting"} \/ main = "starting"
  PROVE  SilenceInv'
<1>1. /\ age' = [age EXCEPT ![s] = 0] /\ silence' = [silence EXCEPT ![s] = 0]
      /\ output' \in Nat /\ output' > 0
  BY WaitingTimes, AddedIsSome DEF Update, SilenceInv, Types
<1>2. Types'
  BY <1>1 DEF SilenceInv, Types, Timeout
<1>3. AgesAreSilences'
  BY <1>1 DEF SilenceInv, Types, AgesAreSilences, Timeout, Zero
<1>4. OutputIsRecent'
  <2>1. silence'[s] = 0
    BY <1>1 DEF SilenceInv, Types
  <2>2. Expiry' \in Nat
    BY <1>2 DEF Types, Expiry, Timeout
  <2> QED BY <2>1, <2>2 DEF OutputIsRecent
<1>5. TimerIsInTime'
  BY <1>1 DEF TimerIsInTime
<1>6. NothingYet'
  BY <1>1 DEF SilenceInv, Types, NothingYet
<1> QED BY <1>2, <1>3, <1>4, <1>5, <1>6 DEF SilenceInv

\* A source that has expired was silent for just as long as Expiry.
LEMMA ExpireKeeps ==
  ASSUME SilenceInv, ExpireSources
  PROVE  SilenceInv'
<1>1. /\ age' = [s \in Sender |-> IF s \in Overdue THEN Zero ELSE age[s]]
      /\ UNCHANGED <<settings, timer, silence, main, shown>>
      /\ main \notin {"load"}
  BY DEF ExpireSources, Running, setupVars, threadVars, screenVars
<1>2. output' \in Nat /\ output' > 0
  <2>1. IsFiniteSet(Overdue)
    <3>1. IsFiniteSet({"line"}) /\ IsFiniteSet({"network"})
      BY FS_Singleton
    <3>2. IsFiniteSet({"line"} \cup {"network"})
      BY <3>1, FS_Union
    <3>3. Overdue \subseteq {"line"} \cup {"network"}
      BY DEF Overdue, Sender
    <3> QED BY <3>2, <3>3, FS_Subset
  <2>2. PICK n \in 1..Cardinality(Overdue) : output' = Min({output + n, OutputCap})
    BY DEF ExpireSources
  <2>3. n \in Nat /\ n > 0
    BY <2>1, FS_CardinalityType
  <2>4. output + n \in Nat /\ output + n > 0
    BY <2>3 DEF SilenceInv, Types
  <2> QED BY <2>2, <2>4, WaitingTimes, MinOfTwo
<1>3. Types'
  BY <1>1, <1>2 DEF SilenceInv, Types, Timeout, Zero
<1>4. AgesAreSilences'
  BY <1>1 DEF SilenceInv, Types, AgesAreSilences, Timeout
<1>5. OutputIsRecent'
  <2>1. PICK s \in Sender : s \in Overdue
    BY DEF ExpireSources, Overdue
  <2>2. silence[s] <= Timeout + 1 /\ Timeout > 0
    BY <2>1 DEF SilenceInv, AgesAreSilences, Overdue
  <2>3. silence'[s] <= Expiry'
    BY <1>1, <2>2 DEF Expiry, Timeout
  <2> QED BY <2>3 DEF OutputIsRecent
<1>6. TimerIsInTime'
  BY <1>2 DEF TimerIsInTime
<1>7. NothingYet'
  BY <1>1 DEF SilenceInv, NothingYet
<1> QED BY <1>3, <1>4, <1>5, <1>6, <1>7 DEF SilenceInv

\* A tick finds no output waiting: the timer goes down as the silences go up.
LEMMA TickKeeps ==
  ASSUME SilenceInv, Tick
  PROVE  SilenceInv'
<1>1. /\ timer > 0 /\ timer' = timer - 1 /\ output = 0 /\ Overdue = {} /\ main = "loop"
      /\ age' = [s \in Sender |-> IF age[s] = Zero THEN Zero ELSE Upto(age[s], Timeout + 1)]
      /\ silence' = [s \in Sender |-> Upto(silence[s], LatestWarning + 1)]
      /\ UNCHANGED <<settings, output, shown, main>>
  BY DEF Tick, Prompt, setupVars, threadVars
<1>2. /\ Timeout \in Int /\ Expiry \in Nat /\ LatestWarning \in Nat
      /\ LatestWarning >= Expiry
  <2>1. Timeout \in Int
    BY DEF SilenceInv, Types
  <2>2. Expiry \in Nat
    BY <2>1 DEF Expiry
  <2> QED BY <2>1, <2>2, LatestIsExpiry, WaitingTimes
<1>3. \A s \in Sender : silence'[s] \in Nat /\ silence'[s] <= silence[s] + 1
  BY <1>1, <1>2 DEF SilenceInv, Types, Upto
<1>4. Types'
  BY <1>1, <1>2, <1>3 DEF SilenceInv, Types, Upto, Timeout, Zero
<1>5. AgesAreSilences'
  <2> SUFFICES ASSUME NEW s \in Sender, Timeout > 0, age'[s] # Zero
               PROVE  silence'[s] = age'[s] /\ age'[s] <= Timeout + 1
    BY <1>1 DEF AgesAreSilences, Timeout
  <2>1. age[s] # Zero /\ age'[s] = Upto(age[s], Timeout + 1)
    BY <1>1
  <2>2. age[s] <= Timeout /\ age[s] \in Int
    BY <1>1, <1>2, <2>1 DEF Overdue, SilenceInv, Types
  <2>3. silence[s] = age[s]
    BY <2>1 DEF SilenceInv, AgesAreSilences
  <2>4. age'[s] = age[s] + 1
    BY <1>2, <2>1, <2>2 DEF Upto
  <2>5. Expiry = Timeout + 1
    BY DEF Expiry
  <2>6. silence'[s] = silence[s] + 1
    BY <1>1, <1>2, <2>2, <2>3, <2>5 DEF Upto
  <2> QED BY <1>2, <2>2, <2>3, <2>4, <2>6
<1>6. OutputIsRecent'
  BY <1>1 DEF OutputIsRecent
<1>7. TimerIsInTime'
  <2> SUFFICES ASSUME shown # "notReceiving"
               PROVE  \E s \in Sender : timer' + silence'[s] <= LatestWarning'
    BY <1>1 DEF TimerIsInTime
  <2>1. PICK s \in Sender : timer + silence[s] <= LatestWarning
    BY <1>1 DEF SilenceInv, TimerIsInTime
  <2>2. timer' + silence'[s] <= LatestWarning
    BY <1>1, <1>2, <1>3, <2>1 DEF SilenceInv, Types
  <2>3. LatestWarning' = LatestWarning
    BY <1>1 DEF LatestWarning, Timeout
  <2> QED BY <2>2, <2>3
<1>8. NothingYet'
  BY <1>1 DEF NothingYet
<1> QED BY <1>4, <1>5, <1>6, <1>7, <1>8 DEF SilenceInv

\* An output that is received starts the timer again.
LEMMA OutputKeeps ==
  ASSUME SilenceInv, ReceiveOutput
  PROVE  SilenceInv'
<1>1. /\ main = "loop" /\ output > 0 /\ output' = output - 1 /\ timer' = FirstWarning
      /\ UNCHANGED <<settings, silence, age, main, shown>>
  BY DEF ReceiveOutput, Restart, setupVars, threadVars, screenVars
<1>2. Types'
  BY <1>1, WaitingTimes DEF SilenceInv, Types, Timeout
<1>3. AgesAreSilences'
  BY <1>1 DEF SilenceInv, AgesAreSilences, Timeout
<1>4. PICK s \in Sender : silence[s] <= Expiry
  BY <1>1 DEF SilenceInv, OutputIsRecent
<1>5. Expiry' = Expiry /\ LatestWarning' = LatestWarning
  BY <1>1 DEF Expiry, LatestWarning, Timeout
<1>6. OutputIsRecent'
  BY <1>1, <1>4, <1>5 DEF OutputIsRecent
<1>7. TimerIsInTime'
  <2>1. Expiry \in Int /\ silence[s] \in Int
    BY DEF SilenceInv, Types, Expiry
  <2>2. timer' + silence'[s] <= LatestWarning'
    BY <1>1, <1>4, <1>5, <2>1, LatestIsExpiry, WaitingTimes
  <2> QED BY <2>2 DEF TimerIsInTime
<1>8. NothingYet'
  BY <1>1 DEF NothingYet
<1> QED BY <1>2, <1>3, <1>6, <1>7, <1>8 DEF SilenceInv

\* The actions that neither deliver nor pass time.
LEMMA OthersKeep ==
  ASSUME SilenceInv, UNCHANGED <<settings, silence, age, output>>,
         \/ /\ main = "starting" /\ main' = "loop" /\ timer' = FirstWarning
         \/ /\ shown' = "notReceiving" /\ timer' \in Nat /\ main' = main
         \/ /\ UNCHANGED <<timer, shown>>
            /\ main' = main \/ main' \in {"closing", "closed", "exited"}
  PROVE  SilenceInv'
<1>1. Types'
  BY WaitingTimes DEF SilenceInv, Types, Timeout
<1>2. Expiry' = Expiry /\ LatestWarning' = LatestWarning
  BY DEF Expiry, LatestWarning, Timeout
<1>3. AgesAreSilences' /\ OutputIsRecent'
  BY <1>2 DEF SilenceInv, AgesAreSilences, OutputIsRecent, Timeout
<1>4. NothingYet'
  BY DEF SilenceInv, NothingYet
<1>5. TimerIsInTime'
  <2>1. CASE main = "starting" /\ main' = "loop" /\ timer' = FirstWarning
    <3>1. silence'["line"] = 0 /\ "line" \in Sender
      BY <2>1 DEF SilenceInv, NothingYet, Sender
    <3>2. LatestWarning >= FirstWarning
      BY LatestIsExpiry, WaitingTimes DEF SilenceInv, Types, Expiry
    <3>3. timer' + silence'["line"] <= LatestWarning'
      BY <1>2, <2>1, <3>1, <3>2, WaitingTimes
    <3> QED BY <3>1, <3>3 DEF TimerIsInTime
  <2>2. CASE shown' = "notReceiving"
    BY <2>2 DEF TimerIsInTime
  <2>3. CASE UNCHANGED <<timer, shown>> /\ (main' = main \/ main' \in {"closing", "closed", "exited"})
    BY <1>2, <2>3 DEF SilenceInv, TimerIsInTime
  <2> QED BY <2>1, <2>2, <2>3
<1> QED BY <1>1, <1>3, <1>4, <1>5 DEF SilenceInv

\* A start, from a file or after the last exit, has heard nothing yet.
LEMMA StartsSilent ==
  ASSUME Timeout' \in Int, output' = 0, timer' \in Nat,
         main' \in {"load", "starting", "exited"},
         \A s \in Sender : silence'[s] = 0 /\ age'[s] = Zero,
         silence' \in [Sender -> Nat], age' \in [Sender -> Int]
  PROVE  SilenceInv'
BY DEF SilenceInv, Types, AgesAreSilences, OutputIsRecent, TimerIsInTime, NothingYet

FlagsKnown == flags \in Flags

LEMMA DefaultTimeout == Defaults.mergeTimeout \in Int
BY DEF Defaults

\* When no source delivers, the operator is told within LatestWarning, for every
\* timeout, every capacity of the channels and every rate of the senders: an output
\* that waits is always younger than the sources' expiry, so that what the timer
\* has left and what a source has been silent add up to no more.
THEOREM SilenceReported == Spec => []SilenceIsReported
<1>1. Init => SilenceInv
  <2> SUFFICES ASSUME Init PROVE SilenceInv
    OBVIOUS
  <2>1. Types
    BY DefaultTimeout, WaitingTimes DEF Init, Types, Timeout, Zero
  <2> QED BY <2>1 DEF Init, SilenceInv, AgesAreSilences, OutputIsRecent, TimerIsInTime, NothingYet
<1>2. SilenceInv /\ [Next]_vars /\ FlagsKnown => SilenceInv'
  <2> SUFFICES ASSUME SilenceInv, [Next]_vars, FlagsKnown PROVE SilenceInv'
    OBVIOUS
  <2>1. CASE Load
    <3>1. settings' = InForce(file, flags, "")
      BY <2>1 DEF Load
    <3>2. Timeout' \in Int
      BY <3>1, TimeoutIsInt DEF Timeout, FlagsKnown
    <3>3. main' \in {"starting", "exited"} /\ UNCHANGED <<silence, age, output, timer>>
      BY <2>1 DEF Load, mergeVars
    <3>4. output = 0 /\ \A s \in Sender : silence[s] = 0 /\ age[s] = Zero
      BY <2>1 DEF Load, SilenceInv, NothingYet
    <3> QED BY <3>2, <3>3, <3>4, StartsSilent DEF SilenceInv, Types
  <2>2. CASE StartAgain
    <3>1. Timeout' \in Int
      BY <2>2, DefaultTimeout DEF StartAgain, Timeout
    <3>2. /\ output' = 0 /\ timer' \in Nat /\ main' = "load"
          /\ silence' = [s \in Sender |-> 0] /\ age' = [s \in Sender |-> Zero]
      BY <2>2, WaitingTimes DEF StartAgain
    <3>3. /\ \A s \in Sender : silence'[s] = 0 /\ age'[s] = Zero
          /\ silence' \in [Sender -> Nat] /\ age' \in [Sender -> Int]
      BY <3>2 DEF Zero
    <3> QED BY <3>1, <3>2, <3>3, StartsSilent
  <2>3. CASE ForwardLine
    BY <2>3, UpdateKeeps DEF ForwardLine, Running, Sender, setupVars, threadVars
  <2>4. CASE ForwardNetwork
    BY <2>4, UpdateKeeps DEF ForwardNetwork, Running, Sender, setupVars, threadVars
  <2>5. CASE ExpireSources
    BY <2>5, ExpireKeeps
  <2>6. CASE ReceiveOutput
    BY <2>6, OutputKeeps
  <2>7. CASE Tick
    BY <2>7, TickKeeps
  <2>8. CASE ShowWaiting
    BY <2>8, OthersKeep DEF ShowWaiting, setupVars, mergeVars
  <2>9. CASE Warn
    BY <2>9, OthersKeep, WaitingTimes DEF Warn, setupVars, threadVars, mergeVars
  <2>10. CASE LineSends \/ NetworkSends \/ ReceiverFails \/ ReceiverStops \/ MainReturns \/ ClosePort
              \/ Exit \/ Interrupt \/ AdapterGone \/ UNCHANGED vars
    <3>1. /\ UNCHANGED <<settings, silence, age, output, timer, shown>>
          /\ main' = main \/ main' \in {"closing", "closed", "exited"}
      BY <2>10 DEF LineSends, NetworkSends, ReceiverFails, ReceiverStops, MainReturns, ClosePort,
                   Exit, Interrupt, AdapterGone, vars, setupVars, threadVars, mergeVars, screenVars
    <3> QED BY <3>1, OthersKeep
  <2> QED BY <2>1, <2>2, <2>3, <2>4, <2>5, <2>6, <2>7, <2>8, <2>9, <2>10
          DEF Next, Start, Deliver, Forward, Finish
<1>3. Spec => []FlagsKnown
  <2>1. Init => FlagsKnown
    BY DEF Init, FlagsKnown
  <2>2. FlagsKnown /\ [Next]_vars => FlagsKnown'
    <3> SUFFICES ASSUME FlagsKnown, [Next]_vars PROVE FlagsKnown'
      OBVIOUS
    <3>1. CASE Load \/ StartAgain
      BY <3>1 DEF Load, StartAgain, FlagsKnown
    <3>2. CASE ~Load /\ ~StartAgain
      BY <3>2, SetupStays DEF setupVars, FlagsKnown
    <3> QED BY <3>1, <3>2
  <2> QED BY <2>1, <2>2, PTL DEF Spec
<1>4. SilenceInv => SilenceIsReported
  <2> SUFFICES ASSUME SilenceInv, main = "loop", shown # "notReceiving",
                      \A s \in Sender : silence[s] > LatestWarning
               PROVE  FALSE
    BY DEF SilenceIsReported
  <2>1. Expiry \in Nat /\ LatestWarning = FirstWarning + Expiry
    BY LatestIsExpiry DEF SilenceInv, Types, Expiry
  <2>2. CASE output > 0
    BY <2>1, <2>2, WaitingTimes DEF SilenceInv, Types, OutputIsRecent
  <2>3. CASE ~(output > 0)
    BY <2>1, <2>3, WaitingTimes DEF SilenceInv, Types, TimerIsInTime
  <2> QED BY <2>2, <2>3
<1> QED BY <1>1, <1>2, <1>3, <1>4, PTL DEF Spec

----------------------------------------------------------------------------
(* Types.                                                                  *)

ConsoleType == [fpsFrames : Nat, elapsed : 0..ElapsedMax, fps : Nat,
                lastReportedFPS : Nat, firstFrame : BOOLEAN]

LEMMA Numbers ==
  /\ FirstWarning \in Nat /\ NextWarning \in Nat
  /\ FramesCap \in Nat /\ ReceivedCap \in Nat /\ OutputCap \in Nat
  /\ ElapsedMax \in Nat /\ ElapsedMax > 0 /\ Part \in Nat
  /\ Rate \in [Sender -> Nat \ {0}]
BY MainLoopAssumption DEF MainLoopAssumption

LEMMA LongestWait ==
  /\ FirstWarning \in 0..Max({FirstWarning, NextWarning})
  /\ NextWarning \in 0..Max({FirstWarning, NextWarning})
  /\ Max({FirstWarning, NextWarning}) \in Nat
<1> DEFINE S == {FirstWarning, NextWarning}
           longer == IF FirstWarning >= NextWarning THEN FirstWarning ELSE NextWarning
<1>1. longer \in S /\ \A n \in S : longer >= n
  BY Numbers
<1>2. Max(S) \in S /\ \A n \in S : Max(S) >= n
  BY <1>1 DEF Max
<1> QED BY <1>2, Numbers

LEMMA AddedFits ==
  ASSUME NEW cap \in Nat, NEW n \in 0..cap
  PROVE  TryAdd(n, cap) \in 0..cap
BY DEF TryAdd

LEMMA NewConsoleType ==
  ASSUME NEW elapsed \in 0..ElapsedMax
  PROVE  NewConsole(elapsed) \in ConsoleType
BY DEF NewConsole, ConsoleType

\* A whole number of parts over a time that has passed is a rate.
LEMMA RateIsNat ==
  ASSUME NEW n \in Nat, NEW d \in Nat, d > 0
  PROVE  (n * Part) \div d \in Nat
<1>1. n * Part \in Nat
  BY Numbers
<1> DEFINE m == n * Part
<1>2. m \in Nat
  BY <1>1
<1> HIDE DEF m
<1>3. m \div d \in Nat
  BY <1>2
<1> QED BY <1>3 DEF m

LEMMA MeasuredType ==
  ASSUME NEW c \in ConsoleType
  PROVE  Measured(c) \in ConsoleType
<1>1. c.fpsFrames \in Nat /\ c.elapsed \in 0..ElapsedMax
  BY DEF ConsoleType
<1>2. CASE c.elapsed = 0
  BY <1>1, <1>2 DEF Measured, ConsoleType
<1>3. CASE c.elapsed # 0
  <2> DEFINE fps == ((c.fpsFrames + 1) * Part) \div c.elapsed
  <2>1. c.fpsFrames + 1 \in Nat /\ c.elapsed \in Nat /\ c.elapsed > 0
    BY <1>1, <1>3, Numbers
  <2>2. fps \in Nat
    BY <2>1, RateIsNat
  <2>3. Measured(c) = [c EXCEPT !.fps = fps, !.fpsFrames = 0, !.elapsed = 0]
    BY <1>3 DEF Measured
  <2> HIDE DEF fps
  <2>4. 0 \in 0..ElapsedMax
    BY Numbers
  <2>5. [c EXCEPT !.fps = fps, !.fpsFrames = 0, !.elapsed = 0] \in ConsoleType
    BY <2>2, <2>4 DEF ConsoleType
  <2> QED BY <2>3, <2>5
<1> QED BY <1>2, <1>3

LEMMA RenderKeepsType ==
  ASSUME console \in ConsoleType, RenderFrame
  PROVE  console' \in ConsoleType /\ shown' \in {shown, "receiving"}
<1> DEFINE c == Measured(console)
<1>1. c \in ConsoleType
  BY MeasuredType
<1>2. /\ console' \in {c, [c EXCEPT !.firstFrame = FALSE, !.lastReportedFPS = c.fps]}
      /\ shown' \in {shown, "receiving"}
  BY DEF RenderFrame
<1> HIDE DEF c
<1> QED BY <1>1, <1>2 DEF ConsoleType

\* The parts of the type invariant, each of the actions that disturb it.
LifeType == /\ main \in {"load", "starting", "loop", "closing", "closed", "exited"}
            /\ done \in BOOLEAN /\ adapter \in BOOLEAN
            /\ receiver \in BOOLEAN /\ reported \in BOOLEAN

SetupType == /\ file \in Files \cup {Readable(Template)} /\ flags \in Flags
             /\ DOMAIN settings = Key

SenderType == sending \in [Sender -> BOOLEAN] /\ left \in [Sender -> Nat]

QueueType == frames \in 0..FramesCap /\ received \in 0..ReceivedCap /\ output \in 0..OutputCap

AgeType == age \in [Sender -> Nat \cup {Zero}] /\ silence \in [Sender -> Nat]

ScreenType == /\ timer \in 0..Max({FirstWarning, NextWarning})
              /\ console \in ConsoleType
              /\ shown \in {"nothing", "waiting", "receiving", "notReceiving"}

LEMMA TypeParts ==
  TypeOK <=> LifeType /\ SetupType /\ SenderType /\ QueueType /\ AgeType /\ ScreenType
BY DEF TypeOK, LifeType, SetupType, SenderType, QueueType, AgeType, ScreenType, ConsoleType

LEMMA LifeStep == LifeType /\ [Next]_vars => LifeType'
BY DEF LifeType, Next, Start, Deliver, Forward, Finish, Load, ShowWaiting, LineSends, NetworkSends,
       ForwardLine, ForwardNetwork, ExpireSources, ReceiverFails, ReceiverStops, ReceiveOutput,
       Warn, MainReturns, ClosePort, Exit, Interrupt, AdapterGone, StartAgain, Tick, vars, threadVars,
       Reports

LEMMA SetupStep == SetupType /\ [Next]_vars => SetupType'
<1> SUFFICES ASSUME SetupType, [Next]_vars PROVE SetupType'
  OBVIOUS
<1>1. CASE Load
  <2>1. DOMAIN settings' = Key
    BY <1>1 DEF Load, InForce
  <2>2. file' \in {file, Readable(Template)} /\ flags' = flags
    BY <1>1 DEF Load, AfterStart
  <2> QED BY <2>1, <2>2 DEF SetupType
<1>2. CASE StartAgain
  <2>1. DOMAIN Defaults = Key
    BY DEF Defaults, Key, StringKey, IntKey, BoolKey
  <2> QED BY <1>2, <2>1 DEF StartAgain, SetupType
<1>3. CASE ~Load /\ ~StartAgain
  BY <1>3, SetupStays DEF SetupType, setupVars
<1> QED BY <1>1, <1>2, <1>3

LEMMA SenderStep == SenderType /\ [Next]_vars => SenderType'
<1> SUFFICES ASSUME SenderType, [Next]_vars PROVE SenderType'
  OBVIOUS
<1>1. ASSUME NEW s \in Sender, Sent(s) PROVE SenderType'
  <2>1. left[s] - 1 \in Nat
    BY <1>1 DEF Sent, SenderType
  <2> QED BY <1>1, <2>1 DEF Sent, SenderType
<1>2. CASE LineSends \/ NetworkSends
  BY <1>1, <1>2 DEF LineSends, NetworkSends, Sender
<1>3. CASE StartAgain
  BY <1>3 DEF StartAgain, NoOne, SenderType
<1>4. CASE Tick
  BY <1>4, Numbers DEF Tick, SenderType
<1>5. CASE ~LineSends /\ ~NetworkSends /\ ~StartAgain /\ ~Tick
  <2>1. UNCHANGED senderVars
    BY <1>5 DEF Next, Start, Deliver, Forward, Finish, Load, ShowWaiting, ForwardLine, ForwardNetwork,
                ExpireSources, ReceiverFails, ReceiverStops, ReceiveOutput, Warn, MainReturns,
                ClosePort, Exit, Interrupt, AdapterGone, vars
  <2> QED BY <2>1 DEF senderVars, SenderType
<1> QED BY <1>2, <1>3, <1>4, <1>5

LEMMA QueueStep == QueueType /\ [Next]_vars => QueueType'
<1> SUFFICES ASSUME QueueType, [Next]_vars PROVE QueueType'
  OBVIOUS
<1>1. CASE LineSends
  BY <1>1, AddedFits, Numbers DEF LineSends, mergeVars, QueueType
<1>2. CASE NetworkSends
  BY <1>2, AddedFits, Numbers DEF NetworkSends, mergeVars, QueueType
<1>3. CASE ForwardLine
  BY <1>3, AddedFits, Numbers DEF ForwardLine, Update, QueueType
<1>4. CASE ForwardNetwork
  BY <1>4, AddedFits, Numbers DEF ForwardNetwork, Update, QueueType
<1>5. CASE ExpireSources
  <2>1. PICK n \in 1..Cardinality(Overdue) : output' = Min({output + n, OutputCap})
    BY <1>5 DEF ExpireSources
  <2>2. n \in Nat /\ output + n \in Nat
    BY Numbers DEF QueueType
  <2>3. output' \in Nat /\ output' <= OutputCap
    BY <2>1, <2>2, Numbers DEF Min
  <2> QED BY <1>5, <2>3, Numbers DEF ExpireSources, QueueType
<1>6. CASE ReceiveOutput
  BY <1>6, Numbers DEF ReceiveOutput, QueueType
<1>7. CASE StartAgain
  BY <1>7, Numbers DEF StartAgain, QueueType
<1>8. CASE ~LineSends /\ ~NetworkSends /\ ~ForwardLine /\ ~ForwardNetwork /\ ~ExpireSources
           /\ ~ReceiveOutput /\ ~StartAgain
  <2>1. UNCHANGED <<frames, received, output>>
    BY <1>8 DEF Next, Start, Deliver, Forward, Finish, Load, ShowWaiting, ReceiverFails, ReceiverStops,
                Warn, MainReturns, ClosePort, Exit, Interrupt, AdapterGone, Tick, mergeVars, vars
  <2> QED BY <2>1 DEF QueueType
<1> QED BY <1>1, <1>2, <1>3, <1>4, <1>5, <1>6, <1>7, <1>8

LEMMA AgeStep == AgeType /\ [Next]_vars => AgeType'
<1> SUFFICES ASSUME AgeType, [Next]_vars PROVE AgeType'
  OBVIOUS
<1>1. CASE ForwardLine \/ ForwardNetwork
  BY <1>1 DEF ForwardLine, ForwardNetwork, Update, AgeType
<1>2. CASE ExpireSources
  BY <1>2 DEF ExpireSources, AgeType
<1>3. CASE StartAgain
  BY <1>3 DEF StartAgain, AgeType
<1>4. CASE Tick
  <2>1. /\ age' = [s \in Sender |-> IF age[s] = Zero THEN Zero ELSE Upto(age[s], Timeout + 1)]
        /\ silence' = [s \in Sender |-> Upto(silence[s], LatestWarning + 1)]
    BY <1>4 DEF Tick
  <2>2. ASSUME NEW n \in Nat, NEW bound PROVE Upto(n, bound) \in Nat
    BY DEF Upto
  <2>3. \A s \in Sender : (age[s] = Zero \/ age[s] \in Nat) /\ silence[s] \in Nat
    BY DEF AgeType
  <2>4. \A s \in Sender : age'[s] \in Nat \cup {Zero} /\ silence'[s] \in Nat
    BY <2>1, <2>2, <2>3
  <2> QED BY <2>1, <2>4 DEF AgeType
<1>5. CASE ~ForwardLine /\ ~ForwardNetwork /\ ~ExpireSources /\ ~StartAgain /\ ~Tick
  <2>1. UNCHANGED <<age, silence>>
    BY <1>5 DEF Next, Start, Deliver, Forward, Finish, Load, ShowWaiting, LineSends, NetworkSends,
                ReceiverFails, ReceiverStops, ReceiveOutput, Warn, MainReturns, ClosePort, Exit,
                Interrupt, AdapterGone, mergeVars, vars
  <2> QED BY <2>1 DEF AgeType
<1> QED BY <1>1, <1>2, <1>3, <1>4, <1>5

LEMMA ScreenStep == ScreenType /\ [Next]_vars => ScreenType'
<1> SUFFICES ASSUME ScreenType, [Next]_vars PROVE ScreenType'
  OBVIOUS
<1>1. CASE Load
  <2>1. PICK elapsed \in 0..ElapsedMax : console' = NewConsole(elapsed)
    BY <1>1 DEF Load
  <2>2. UNCHANGED <<timer, shown>>
    BY <1>1 DEF Load
  <2> QED BY <2>1, <2>2, NewConsoleType DEF ScreenType
<1>2. CASE ShowWaiting
  BY <1>2, LongestWait DEF ShowWaiting, ScreenType
<1>3. CASE ForwardLine
  BY <1>3, RenderKeepsType DEF ForwardLine, ScreenType
<1>4. CASE ReceiveOutput
  BY <1>4, LongestWait DEF ReceiveOutput, Restart, screenVars, ScreenType
<1>5. CASE Warn
  BY <1>5, LongestWait DEF Warn, ScreenType
<1>6. CASE StartAgain
  <2>1. NewConsole(0) \in ConsoleType
    BY NewConsoleType, Numbers
  <2> QED BY <1>6, <2>1, LongestWait DEF StartAgain, ScreenType
<1>7. CASE Tick
  <2>1. timer' = timer - 1 /\ timer > 0 /\ shown' = shown
        /\ console' = [console EXCEPT !.elapsed = Upto(@, ElapsedMax)]
    BY <1>7 DEF Tick, Prompt
  <2>2. Upto(console.elapsed, ElapsedMax) \in 0..ElapsedMax
    BY Numbers DEF Upto, ScreenType, ConsoleType
  <2>3. console' \in ConsoleType
    BY <2>1, <2>2 DEF ScreenType, ConsoleType
  <2> QED BY <2>1, <2>3, LongestWait DEF ScreenType
<1>8. CASE ~Load /\ ~ShowWaiting /\ ~ForwardLine /\ ~ReceiveOutput /\ ~Warn /\ ~StartAgain /\ ~Tick
  <2>1. UNCHANGED <<timer, console, shown>>
    BY <1>8 DEF Next, Start, Deliver, Forward, Finish, LineSends, NetworkSends, ForwardNetwork,
                ExpireSources, ReceiverFails, ReceiverStops, MainReturns, ClosePort, Exit,
                Interrupt, AdapterGone, screenVars, vars
  <2> QED BY <2>1 DEF ScreenType
<1> QED BY <1>1, <1>2, <1>3, <1>4, <1>5, <1>6, <1>7, <1>8

\* Types: no channel outgrows its capacity (main.go:148, receiver.go:75), the
\* timer never waits longer than the longer of the two warnings, and the rate of
\* the quiet line is a number whatever the time it is measured over.
THEOREM TypeCorrect == Spec => []TypeOK
<1>1. Init => TypeOK
  <2> SUFFICES ASSUME Init PROVE TypeOK
    OBVIOUS
  <2>1. LifeType
    BY DEF Init, LifeType
  <2>2. SetupType
    BY DEF Init, SetupType, Defaults, Key, StringKey, IntKey, BoolKey
  <2>3. SenderType
    BY DEF Init, SenderType, NoOne
  <2>4. QueueType
    BY Numbers DEF Init, QueueType
  <2>5. AgeType
    BY DEF Init, AgeType
  <2>6. ScreenType
    <3>1. NewConsole(0) \in ConsoleType
      BY NewConsoleType, Numbers
    <3> QED BY <3>1, LongestWait DEF Init, ScreenType
  <2> QED BY <2>1, <2>2, <2>3, <2>4, <2>5, <2>6, TypeParts
<1>2. TypeOK /\ [Next]_vars => TypeOK'
  <2> SUFFICES ASSUME TypeOK, [Next]_vars PROVE TypeOK'
    OBVIOUS
  <2>1. LifeType' /\ SetupType' /\ SenderType' /\ QueueType' /\ AgeType' /\ ScreenType'
    BY TypeParts, LifeStep, SetupStep, SenderStep, QueueStep, AgeStep, ScreenStep
  <2> QED BY <2>1 DEF TypeOK, LifeType, SetupType, SenderType, QueueType, AgeType, ScreenType, ConsoleType
<1> QED BY <1>1, <1>2, PTL DEF Spec
=============================================================================
