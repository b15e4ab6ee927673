---------------------------- MODULE WindowsProofs ----------------------------
(***************************************************************************)
(* The receiver behind the Windows driver: for any packets, any sizes of   *)
(* its buffers, and line events at any moment of ReadChunk, a packet whose *)
(* events are asked for in time is published as it was on the line.        *)
(***************************************************************************)
EXTENDS WindowsReception, SequenceTheorems, TLAPS

\* What is stored of these channels.
Kept(w) == Channels([start |-> StartCodeDMX, data |-> w])

\* The receiver has gone through these slots of a packet since its break.
Took(s) == \/ s = <<>> /\ state = "waitStartCode" /\ frame = <<>>
           \/ s # <<>> /\ Head(s) = StartCodeDMX /\ state = "readData" /\ frame = Kept(Tail(s))
           \/ s # <<>> /\ Head(s) # StartCodeDMX /\ state = "waitBreak"

\* The packet on the line, if its events have been timely: the break, or an
\* error, has yet to be handed to the receiver, with nothing noted after it; or
\* the receiver has it, and has gone through the slots that are neither in the
\* chunk nor with the driver.
Following ==
  clean.timely =>
    \/ /\ \/ port = "asking" /\ status = {"break"}
          \/ port = "handed" /\ status = {} /\ marker = "break"
       /\ clean.intact /\ slots = queue
    \/ /\ \/ port = "asking" /\ status = {"error"}
          \/ port = "handed" /\ status = {} /\ marker = "error"
       /\ ~clean.intact
    \/ /\ status = {} /\ marker = "none"
       /\ IF clean.intact THEN \E s \in Seq(Byte) : Took(s) /\ slots = s \o (chunk \o queue)
                          ELSE state = "waitBreak"

\* The packet whose break is about to be handed over, if its events have been
\* timely: what the receiver has of it and what is in the chunk are all of it.
Ending ==
  last.timely =>
    /\ \/ port = "asking" /\ "break" \in status
       \/ port = "handed" /\ marker = "break"
    /\ \/ last.channels = <<>> /\ state = "waitBreak"
       \/ \E s \in Seq(Byte) :
            /\ Took(s) /\ s \o chunk # <<>>
            /\ last.channels = IF Head(s \o chunk) = StartCodeDMX THEN Kept(Tail(s \o chunk)) ELSE <<>>

Between == /\ port = "reading" => chunk = <<>>
           /\ port # "handed" => marker = "none"

LastOK == last \in [timely : BOOLEAN, channels : Seq(Byte)]

WindowsInv == TypeOK /\ LastOK /\ Between /\ Following /\ Ending

USE LineAssumption, ReceiverAssumption, WindowsAssumption

----------------------------------------------------------------------------
(* Sequences.                                                              *)

\* A byte moves from the front of one part to the end of the one before it.
LEMMA MoveOne ==
  ASSUME NEW S, NEW s \in Seq(S), NEW c \in Seq(S), c # <<>>
  PROVE  Head(c) \in S /\ Tail(c) \in Seq(S) /\ Append(s, Head(c)) \o Tail(c) = s \o c
<1>1. Head(c) \in S /\ Tail(c) \in Seq(S) /\ c = <<Head(c)>> \o Tail(c)
  OBVIOUS
<1> DEFINE h == Head(c)
           t == Tail(c)
<1>2. h \in S /\ t \in Seq(S) /\ <<h>> \in Seq(S) /\ Append(s, h) = s \o <<h>>
  BY <1>1
<1>3. c = <<h>> \o t
  BY <1>1
<1> HIDE DEF h, t
<1>4. (s \o <<h>>) \o t = s \o (<<h>> \o t)
  BY <1>2, ConcatAssociative
<1>5. Append(s, h) \o t = s \o c
  BY <1>2, <1>3, <1>4
<1> QED BY <1>2, <1>5 DEF h, t

LEMMA Regroup ==
  ASSUME NEW S, NEW s \in Seq(S), NEW c \in Seq(S), NEW q \in Seq(S)
  PROVE  s \o (c \o q) = (s \o c) \o q
BY ConcatAssociative

LEMMA Lesser ==
  ASSUME NEW l \in Nat, NEW n \in Nat
  PROVE  Min({l, n}) = IF l <= n THEN l ELSE n
<1>1. Min({l, n}) = CHOOSE x \in {l, n} : \A y \in {l, n} : x <= y
  BY DEF Min
<1>2. ASSUME NEW x \in {l, n}, \A y \in {l, n} : x <= y PROVE x = IF l <= n THEN l ELSE n
  BY <1>2
<1>3. \E x \in {l, n} : \A y \in {l, n} : x <= y
  OBVIOUS
<1> QED BY <1>1, <1>2, <1>3

LEMMA Split ==
  ASSUME NEW S, NEW q \in Seq(S), NEW n \in Nat \ {0}
  PROVE  LET x == SubSeq(q, 1, Min({Len(q), n}))
             y == SubSeq(q, n + 1, Len(q))
         IN  x \in Seq(S) /\ y \in Seq(S) /\ x \o y = q /\ Len(x) <= n /\ Len(y) <= Len(q)
<1> DEFINE m == Min({Len(q), n})
           x == SubSeq(q, 1, m)
           y == SubSeq(q, n + 1, Len(q))
<1>1. Len(q) \in Nat
  OBVIOUS
<1>2. m = IF Len(q) <= n THEN Len(q) ELSE n
  BY <1>1, Lesser
<1> HIDE DEF m
<1>3. CASE Len(q) <= n
  <2>1. x = q
    BY <1>1, <1>2, <1>3, SubSeqFull
  <2>2. y = <<>>
    BY <1>1, <1>3, SubSeqEmpty
  <2>3. <<>> \in Seq(S) /\ Len(<<>>) = 0 /\ q \o <<>> = q
    OBVIOUS
  <2> HIDE DEF x, y
  <2>4. x \in Seq(S) /\ y \in Seq(S) /\ x \o y = q /\ Len(x) <= n /\ Len(y) <= Len(q)
    BY <1>1, <1>3, <2>1, <2>2, <2>3
  <2> QED BY <2>4 DEF m, x, y
<1>4. CASE ~ (Len(q) <= n)
  <2>1. m = n /\ n \in 1..Len(q)
    BY <1>1, <1>2, <1>4
  <2>2. x \in Seq(S) /\ Len(x) = n /\ \A i \in 1..n : x[i] = q[i]
    BY <1>1, <2>1
  <2>3. y \in Seq(S) /\ Len(y) = Len(q) - n /\ \A i \in 1..(Len(q) - n) : y[i] = q[n + i]
    BY <1>1, <2>1
  <2> HIDE DEF x, y
  <2>4. /\ x \o y \in Seq(S) /\ Len(x \o y) = Len(x) + Len(y)
        /\ \A i \in 1..(Len(x) + Len(y)) : (x \o y)[i] = IF i <= Len(x) THEN x[i] ELSE y[i - Len(x)]
    BY <2>2, <2>3, ConcatProperties, Zenon
  <2>5. Len(x \o y) = Len(q)
    BY <1>1, <2>1, <2>2, <2>3, <2>4
  <2>6. ASSUME NEW i \in 1..Len(q) PROVE (x \o y)[i] = q[i]
    <3>1. (x \o y)[i] = IF i <= n THEN x[i] ELSE y[i - n]
      BY <1>1, <2>1, <2>2, <2>3, <2>4
    <3>2. CASE i <= n
      BY <2>2, <3>1, <3>2
    <3>3. CASE ~ (i <= n)
      <4>1. i - n \in 1..(Len(q) - n) /\ n + (i - n) = i
        BY <1>1, <2>1, <3>3
      <4> QED BY <2>3, <3>1, <3>3, <4>1
    <3> QED BY <3>2, <3>3
  <2>7. x \o y = q
    BY <2>4, <2>5, <2>6, SeqEqual
  <2>8. x \in Seq(S) /\ y \in Seq(S) /\ x \o y = q /\ Len(x) <= n /\ Len(y) <= Len(q)
    BY <1>1, <2>1, <2>2, <2>3, <2>7
  <2> QED BY <2>8 DEF m, x, y
<1> QED BY <1>1, <1>3, <1>4

----------------------------------------------------------------------------
(* What is stored of a packet.                                             *)

LEMMA KeptOf ==
  ASSUME NEW w \in Seq(Byte)
  PROVE  /\ Kept(w) = IF Len(w) <= MaxChannels THEN w ELSE SubSeq(w, 1, MaxChannels)
         /\ Kept(w) \in Seq(Byte)
         /\ Len(Kept(w)) = IF Len(w) <= MaxChannels THEN Len(w) ELSE MaxChannels
<1>1. Kept(w) = IF Len(w) <= MaxChannels THEN w ELSE SubSeq(w, 1, MaxChannels)
  BY DEF Kept, Channels
<1>2. Len(w) \in Nat /\ MaxChannels \in Nat
  OBVIOUS
<1>3. CASE Len(w) <= MaxChannels
  BY <1>1, <1>3
<1>4. CASE ~ (Len(w) <= MaxChannels)
  <2>1. SubSeq(w, 1, MaxChannels) \in Seq(Byte) /\ Len(SubSeq(w, 1, MaxChannels)) = MaxChannels
    BY <1>2, <1>4
  <2> QED BY <1>1, <1>4, <2>1
<1> QED BY <1>1, <1>3, <1>4

\* Store goes on storing until the frame is full.
LEMMA KeptNext ==
  ASSUME NEW w \in Seq(Byte), NEW b \in Byte
  PROVE  Kept(Append(w, b)) = IF Len(Kept(w)) < MaxChannels THEN Append(Kept(w), b) ELSE Kept(w)
<1> DEFINE v == Append(w, b)
<1>1. Len(w) \in Nat /\ MaxChannels \in Nat /\ v \in Seq(Byte) /\ Len(v) = Len(w) + 1
  OBVIOUS
<1>2. Kept(v) = IF Len(v) <= MaxChannels THEN v ELSE SubSeq(v, 1, MaxChannels)
  BY <1>1, KeptOf
<1>3. /\ Kept(w) = IF Len(w) <= MaxChannels THEN w ELSE SubSeq(w, 1, MaxChannels)
      /\ Len(Kept(w)) = IF Len(w) <= MaxChannels THEN Len(w) ELSE MaxChannels
  BY KeptOf
<1>4. CASE Len(w) < MaxChannels
  <2>1. Len(w) <= MaxChannels /\ Len(v) <= MaxChannels
    BY <1>1, <1>4
  <2> HIDE DEF v
  <2>2. Kept(v) = v /\ Kept(w) = w
    BY <1>2, <1>3, <2>1
  <2> QED BY <1>4, <2>2 DEF v
<1>5. CASE Len(w) = MaxChannels
  <2>1. SubSeq(v, 1, MaxChannels) = w
    BY <1>1, <1>5
  <2>2. Len(w) <= MaxChannels /\ ~ (Len(v) <= MaxChannels) /\ ~ (Len(w) < MaxChannels)
    BY <1>1, <1>5
  <2> HIDE DEF v
  <2> QED BY <1>2, <1>3, <2>1, <2>2 DEF v
<1>6. CASE Len(w) > MaxChannels
  <2>1. SubSeq(v, 1, MaxChannels) = SubSeq(w, 1, MaxChannels)
    BY <1>1, <1>6
  <2>2. ~ (Len(w) <= MaxChannels) /\ ~ (Len(v) <= MaxChannels) /\ ~ (MaxChannels < MaxChannels)
    BY <1>1, <1>6
  <2> HIDE DEF v
  <2> QED BY <1>2, <1>3, <2>1, <2>2 DEF v
<1> QED BY <1>1, <1>4, <1>5, <1>6

----------------------------------------------------------------------------
(* The receiver.                                                           *)

\* One byte further.
LEMMA TookNext ==
  ASSUME RxTypeOK, NEW s \in Seq(Byte), Took(s), NEW b \in Byte, OnByte(b)
  PROVE  Took(Append(s, b))'
<1> DEFINE t == Append(s, b)
<1>1. t \in Seq(Byte) /\ t # <<>> /\ (s # <<>> => Head(t) = Head(s) /\ Tail(t) = Append(Tail(s), b))
      /\ (s = <<>> => Head(t) = b /\ Tail(t) = <<>>)
  OBVIOUS
<1> HIDE DEF t
<1>2. CASE s = <<>>
  <2>1. state' = (IF b = StartCodeDMX THEN "readData" ELSE "waitBreak") /\ frame' = <<>>
    BY <1>2 DEF Took, OnByte, StartCodeByte, DataByte, TrailerByte, IgnoredByte
  <2>2. Kept(<<>>) = <<>>
    <3>1. <<>> \in Seq(Byte) /\ Len(<<>>) <= MaxChannels
      OBVIOUS
    <3> QED BY <3>1, KeptOf
  <2> QED BY <1>1, <1>2, <2>1, <2>2 DEF Took, t
<1>3. CASE s # <<>> /\ Head(s) = StartCodeDMX
  <2>1. state = "readData" /\ frame = Kept(Tail(s)) /\ Tail(s) \in Seq(Byte)
    BY <1>3 DEF Took
  <2>2. state' = "readData" /\ frame' = Store(b)
    BY <2>1 DEF OnByte, StartCodeByte, DataByte, TrailerByte, IgnoredByte, ClosedByLength
  <2>3. frame' = Kept(Tail(t))
    BY <1>1, <1>3, <2>1, <2>2, KeptNext DEF Store
  <2> QED BY <1>1, <1>3, <2>2, <2>3 DEF Took, t
<1>4. CASE s # <<>> /\ Head(s) # StartCodeDMX
  <2>1. state' = "waitBreak"
    BY <1>4 DEF Took, OnByte, StartCodeByte, DataByte, TrailerByte, IgnoredByte, rxVars
  <2> QED BY <1>1, <1>4, <2>1 DEF Took, t
<1> QED BY <1>2, <1>3, <1>4

\* A break ends the frame, and publishes what it holds.
LEMMA BreakEnds ==
  ASSUME RxTypeOK, OnBreak
  PROVE  /\ state' = "waitStartCode" /\ frame' = <<>>
         /\ frames' = IF state = "readData" /\ frame # <<>> THEN TrySend(frames, FramesCap, frame)
                      ELSE frames
BY DEF OnBreak, BreakWhileLocked, BreakAfterData, BreakElsewhere, LengthDrives, NextFrame,
       Boundary, Publish

LEMMA SendKeepsSeq ==
  ASSUME NEW S, NEW ch \in Seq(S), NEW cap \in Nat, NEW x \in S, Len(ch) <= cap
  PROVE  TrySend(ch, cap, x) \in Seq(S) /\ Len(TrySend(ch, cap, x)) <= cap
BY DEF TrySend

LEMMA ReceiverTypes ==
  ASSUME RxTypeOK, (\E b \in Byte : OnByte(b)) \/ OnBreak \/ OnError \/ Stop \/ Take
         \/ UNCHANGED rxVars
  PROVE  RxTypeOK'
<1>0. <<>> \in Seq(Byte) /\ Len(<<>>) = 0 /\ 0 <= MaxChannels
  OBVIOUS
<1>1. ASSUME NEW b \in Byte, OnByte(b) PROVE RxTypeOK'
  <2>1. Store(b) \in Seq(Byte) /\ Len(Store(b)) <= MaxChannels
    BY DEF RxTypeOK, Store
  <2>2. UNCHANGED <<running, validator, frames>>
    BY <1>1 DEF OnByte, StartCodeByte, DataByte, TrailerByte, IgnoredByte, ClosedByLength, rxVars
  <2>3. frame' \in {frame, Store(b)} /\ state' \in RxState
    BY <1>1 DEF RxTypeOK, RxState, OnByte, StartCodeByte, DataByte, TrailerByte, IgnoredByte,
                ClosedByLength, rxVars
  <2> QED BY <2>1, <2>2, <2>3 DEF RxTypeOK, validator
<1>2. ASSUME OnBreak PROVE RxTypeOK'
  <2>1. TrySend(frames, FramesCap, frame) \in Seq(Seq(Byte))
        /\ Len(TrySend(frames, FramesCap, frame)) <= FramesCap
    BY SendKeepsSeq DEF RxTypeOK
  <2>2. UNCHANGED <<running, validator>>
    BY <1>2 DEF OnBreak, BreakWhileLocked, BreakAfterData, BreakElsewhere, LengthDrives, Classify,
                validator
  <2>3. frames' \in Seq(Seq(Byte)) /\ Len(frames') <= FramesCap
    BY <1>2, <2>1, BreakEnds DEF RxTypeOK
  <2>4. frame' = <<>> /\ state' \in RxState
    BY <1>2, BreakEnds DEF RxState
  <2> QED BY <1>0, <2>2, <2>3, <2>4 DEF RxTypeOK, validator
<1>3. CASE OnError
  <2>1. frame' = <<>> /\ state' \in RxState /\ UNCHANGED <<running, validator, frames>>
    BY <1>3 DEF OnError, Resync, RxState
  <2> QED BY <1>0, <2>1 DEF RxTypeOK, validator
<1>4. CASE Stop
  BY <1>4 DEF RxTypeOK, Stop, validator
<1>5. CASE Take
  <2>1. Tail(frames) \in Seq(Seq(Byte)) /\ Len(Tail(frames)) <= FramesCap
    BY <1>5 DEF RxTypeOK, Take
  <2> QED BY <1>5, <2>1 DEF RxTypeOK, Take, validator
<1>6. CASE UNCHANGED rxVars
  BY <1>6 DEF RxTypeOK, validator, rxVars
<1> QED BY <1>1, <1>2, <1>3, <1>4, <1>5, <1>6

----------------------------------------------------------------------------
(* The actions.                                                            *)

LEMMA TookSame ==
  ASSUME NEW s, Took(s), UNCHANGED <<state, frame>>
  PROVE  Took(s)'
BY DEF Took

\* Nothing happens to what is about to be handed over.
LEMMA EndingSame ==
  ASSUME Ending, UNCHANGED <<last, state, frame, chunk>>,
         last.timely => \/ port' = "asking" /\ "break" \in status'
                        \/ port' = "handed" /\ marker' = "break"
  PROVE  Ending'
<1> SUFFICES ASSUME last.timely PROVE Ending'
  BY DEF Ending
<1>1. CASE last.channels = <<>> /\ state = "waitBreak"
  BY <1>1 DEF Ending
<1>2. ASSUME NEW s \in Seq(Byte), Took(s), s \o chunk # <<>>,
             last.channels = IF Head(s \o chunk) = StartCodeDMX THEN Kept(Tail(s \o chunk)) ELSE <<>>
      PROVE  Ending'
  BY <1>2, TookSame DEF Ending
<1> QED BY <1>1, <1>2 DEF Ending

LEMMA SlotKeeps == WindowsInv /\ Slot => WindowsInv'
<1> SUFFICES ASSUME WindowsInv, Slot PROVE WindowsInv'
  OBVIOUS
<1>1. PICK b \in Byte :
        /\ Len(slots) < SlotsMax /\ Len(queue) < QueueMax
        /\ slots' = Append(slots, b) /\ queue' = Append(queue, b)
        /\ UNCHANGED <<rxVars, clean, last, status, port, chunk, marker>>
  BY DEF Slot, NextSlot
<1>2. slots \in Seq(Byte) /\ queue \in Seq(Byte) /\ chunk \in Seq(Byte)
  BY DEF WindowsInv, TypeOK
<1>3. TypeOK'
  <2>1. RxTypeOK'
    BY <1>1, ReceiverTypes DEF WindowsInv, TypeOK
  <2>2. slots' \in Seq(Byte) /\ Len(slots') <= SlotsMax /\ queue' \in Seq(Byte) /\ Len(queue') <= QueueMax
    BY <1>1, <1>2
  <2> QED BY <1>1, <2>1, <2>2 DEF WindowsInv, TypeOK
<1>4. UNCHANGED <<state, frame>>
  BY <1>1 DEF rxVars
<1>5. Following'
  <2> SUFFICES ASSUME clean.timely PROVE Following'
    BY <1>1 DEF Following
  <2>1. CASE clean.intact /\ slots = queue
             /\ (\/ port = "asking" /\ status = {"break"}
                 \/ port = "handed" /\ status = {} /\ marker = "break")
    BY <1>1, <2>1 DEF Following
  <2>2. CASE ~clean.intact
             /\ (\/ port = "asking" /\ status = {"error"}
                 \/ port = "handed" /\ status = {} /\ marker = "error")
    BY <1>1, <2>2 DEF Following
  <2>3. ASSUME status = {}, marker = "none", clean.intact,
               NEW s \in Seq(Byte), Took(s), slots = s \o (chunk \o queue)
        PROVE  Following'
    <3>1. b \in Byte
      BY <1>1
    <3>2. Append(s \o (chunk \o queue), b) = s \o (chunk \o Append(queue, b))
      <4> DEFINE x == <<b>>
                 y == chunk \o queue
                 z == s \o y
      <4>1. x \in Seq(Byte)
        BY <3>1
      <4>2. chunk \in Seq(Byte)
        BY <1>2
      <4>3. queue \in Seq(Byte)
        BY <1>2
      <4>4. y \in Seq(Byte)
        BY <4>2, <4>3
      <4>5. z \in Seq(Byte)
        BY <4>4
      <4>6. Append(queue, b) = queue \o x
        BY <3>1, <4>3, AppendIsConcat
      <4>7. Append(z, b) = z \o x
        <5> HIDE DEF z
        <5> QED BY <3>1, <4>5, AppendIsConcat DEF x
      <4>8. y \o x = chunk \o (queue \o x)
        <5> HIDE DEF x
        <5> QED BY <4>1, <4>2, <4>3, ConcatAssociative DEF y
      <4>9. z \o x = s \o (y \o x)
        <5> HIDE DEF x, y
        <5> QED BY <4>1, <4>4, ConcatAssociative DEF z
      <4> HIDE DEF x
      <4> QED BY <4>6, <4>7, <4>8, <4>9 DEF y, z
    <3>3. slots' = s \o (chunk' \o queue')
      BY <1>1, <2>3, <3>1, <3>2
    <3> QED BY <1>1, <1>4, <2>3, <3>3, TookSame DEF Following
  <2>4. CASE status = {} /\ marker = "none" /\ ~clean.intact /\ state = "waitBreak"
    BY <1>1, <1>4, <2>4 DEF Following
  <2> QED BY <2>1, <2>2, <2>3, <2>4 DEF WindowsInv, Following
<1>6. Ending'
  <2>1. last.timely => \/ port = "asking" /\ "break" \in status
                       \/ port = "handed" /\ marker = "break"
    BY DEF WindowsInv, Ending
  <2> QED BY <1>1, <1>4, <2>1, EndingSame DEF WindowsInv
<1> QED BY <1>1, <1>3, <1>5, <1>6 DEF WindowsInv, LastOK, Between

\* An event that is not timely is added to what is about to be handed over.
LEMMA LateEvent ==
  ASSUME WindowsInv, ~Timely, NEW e, NEW bytes, Event(e, bytes), last' = last
  PROVE  Ending'
<1> SUFFICES ASSUME last.timely PROVE Ending'
  BY DEF Ending
<1>1. \/ port = "asking" /\ "break" \in status
      \/ port = "handed" /\ marker = "break"
  BY DEF WindowsInv, Ending
<1>2. UNCHANGED <<state, frame, chunk, port, marker>> /\ status' = status \cup {e}
  BY <1>1 DEF Event, ReadWaits, rxVars
<1> QED BY <1>1, <1>2, EndingSame DEF WindowsInv

\* Where a read waits, no break is about to be handed over.
LEMMA NoneEnding ==
  ASSUME WindowsInv, port = "reading"
  PROVE  ~last.timely /\ chunk = <<>> /\ marker = "none"
BY DEF WindowsInv, Ending, Between

LEMMA EventTypes ==
  ASSUME WindowsInv, NEW e \in {"break", "error"}, NEW bytes \in Seq(Byte), Event(e, bytes),
         Len(bytes) <= QueueMax, ReadWaits => Len(bytes) <= BufSize
  PROVE  /\ RxTypeOK' /\ UNCHANGED <<state, frame, marker>> /\ Between'
         /\ queue' \in Seq(Byte) /\ Len(queue') <= QueueMax
         /\ chunk' \in Seq(Byte) /\ Len(chunk') <= BufSize
         /\ status' \subseteq {"break", "error"}
         /\ port' \in {"reading", "asking", "handed"} /\ marker' \in {"none", "break", "error"}
<1>1. RxTypeOK'
  BY ReceiverTypes DEF Event, WindowsInv, TypeOK
<1>2. UNCHANGED <<state, frame, marker>> /\ status' = status \cup {e}
  BY DEF Event, rxVars
<1>3. CASE ReadWaits
  <2>1. chunk' = bytes /\ queue' = <<>> /\ port' = "asking"
    BY <1>3 DEF Event
  <2>2. <<>> \in Seq(Byte) /\ Len(<<>>) <= QueueMax
    OBVIOUS
  <2> QED BY <1>1, <1>2, <1>3, <2>1, <2>2 DEF WindowsInv, TypeOK, Between, ReadWaits
<1>4. CASE ~ReadWaits
  <2>1. queue' = bytes /\ UNCHANGED <<chunk, port>>
    BY <1>4 DEF Event
  <2> QED BY <1>1, <1>2, <2>1 DEF WindowsInv, TypeOK, Between
<1> QED BY <1>3, <1>4

LEMMA BadSlotKeeps == WindowsInv /\ BadSlot => WindowsInv'
<1> SUFFICES ASSUME WindowsInv, BadSlot PROVE WindowsInv'
  OBVIOUS
<1>1. PICK b \in Byte :
        /\ Len(slots) < SlotsMax /\ Len(queue) < QueueMax
        /\ slots' = Append(slots, b) /\ UNCHANGED last
        /\ Event("error", Append(queue, b))
        /\ clean' = [timely |-> clean.timely /\ Timely, intact |-> FALSE]
  BY DEF BadSlot, NextSlot
<1>2. /\ slots' \in Seq(Byte) /\ Len(slots') <= SlotsMax
      /\ Append(queue, b) \in Seq(Byte) /\ Len(Append(queue, b)) <= QueueMax
      /\ ReadWaits => Len(Append(queue, b)) <= BufSize
  BY <1>1 DEF WindowsInv, TypeOK, ReadWaits
<1>3. /\ RxTypeOK' /\ UNCHANGED <<state, frame, marker>> /\ Between'
      /\ queue' \in Seq(Byte) /\ Len(queue') <= QueueMax
      /\ chunk' \in Seq(Byte) /\ Len(chunk') <= BufSize
      /\ status' \subseteq {"break", "error"}
      /\ port' \in {"reading", "asking", "handed"} /\ marker' \in {"none", "break", "error"}
  BY <1>1, <1>2, EventTypes
<1>4. clean' \in [timely : BOOLEAN, intact : BOOLEAN]
  BY <1>1 DEF WindowsInv, TypeOK, Timely, ReadWaits
<1>5. TypeOK' /\ LastOK'
  BY <1>1, <1>2, <1>3, <1>4 DEF WindowsInv, TypeOK, LastOK
<1>6. CASE Timely
  <2>1. port = "reading" /\ port' = "asking" /\ status' = {"error"} /\ ~clean'.intact
    BY <1>1, <1>6 DEF Timely, ReadWaits, Event
  <2>2. Following'
    BY <2>1 DEF Following
  <2>3. Ending'
    BY <1>1, <2>1, NoneEnding DEF Ending
  <2> QED BY <1>3, <1>5, <2>2, <2>3 DEF WindowsInv
<1>7. CASE ~Timely
  <2>1. ~clean'.timely
    BY <1>1, <1>7
  <2> QED BY <1>1, <1>3, <1>5, <1>7, <2>1, LateEvent DEF WindowsInv, Following
<1> QED BY <1>6, <1>7

\* What is due of a packet, slot by slot.
LEMMA DueOf ==
  ASSUME slots \in Seq(Byte), slots # <<>>
  PROVE  /\ Due = IF clean.intact /\ Head(slots) = StartCodeDMX THEN Kept(Tail(slots)) ELSE <<>>
         /\ Due \in Seq(Byte)
<1>1. Channels(Packet) = Kept(Tail(slots))
  BY DEF Channels, Packet, Kept
<1>2. Tail(slots) \in Seq(Byte) /\ <<>> \in Seq(Byte)
  OBVIOUS
<1> QED BY <1>1, <1>2, KeptOf DEF Due, Packet

LEMMA BreakKeeps == WindowsInv /\ Break => WindowsInv'
<1> SUFFICES ASSUME WindowsInv, Break PROVE WindowsInv'
  OBVIOUS
<1>1. /\ slots # <<>> /\ Event("break", queue) /\ slots' = <<>>
      /\ clean' = [timely |-> Timely, intact |-> TRUE]
      /\ last' = IF Timely /\ clean.timely THEN [timely |-> TRUE, channels |-> Due] ELSE last
  BY DEF Break
<1>2. /\ slots \in Seq(Byte) /\ slots' \in Seq(Byte) /\ Len(slots') <= SlotsMax
      /\ queue \in Seq(Byte) /\ Len(queue) <= QueueMax
      /\ ReadWaits => Len(queue) <= BufSize
  BY <1>1 DEF WindowsInv, TypeOK, ReadWaits
<1>3. /\ RxTypeOK' /\ UNCHANGED <<state, frame, marker>> /\ Between'
      /\ queue' \in Seq(Byte) /\ Len(queue') <= QueueMax
      /\ chunk' \in Seq(Byte) /\ Len(chunk') <= BufSize
      /\ status' \subseteq {"break", "error"}
      /\ port' \in {"reading", "asking", "handed"} /\ marker' \in {"none", "break", "error"}
  BY <1>1, <1>2, EventTypes
<1>4. clean' \in [timely : BOOLEAN, intact : BOOLEAN]
  BY <1>1 DEF Timely, ReadWaits
<1>5. LastOK'
  <2>1. [timely |-> TRUE, channels |-> Due] \in [timely : BOOLEAN, channels : Seq(Byte)]
    BY <1>1, <1>2, DueOf
  <2> QED BY <1>1, <2>1 DEF WindowsInv, LastOK
<1>6. TypeOK'
  BY <1>2, <1>3, <1>4, <1>5 DEF TypeOK, LastOK
<1>7. CASE Timely
  <2>1. /\ port = "reading" /\ status = {} /\ chunk = <<>> /\ marker = "none" /\ ~last.timely
        /\ port' = "asking" /\ status' = {"break"} /\ chunk' = queue /\ queue' = <<>>
    BY <1>1, <1>7, NoneEnding DEF Timely, ReadWaits, Event
  <2>2. Following'
    BY <1>1, <2>1 DEF Following
  <2>3. ASSUME ~clean.timely PROVE Ending'
    BY <1>1, <2>1, <2>3 DEF Ending
  <2>4. ASSUME clean.timely, ~clean.intact PROVE Ending'
    <3>1. state' = "waitBreak"
      BY <1>3, <2>1, <2>4 DEF WindowsInv, Following
    <3>2. last'.channels = <<>>
      BY <1>1, <1>2, <1>7, <2>4, DueOf
    <3> QED BY <2>1, <3>1, <3>2 DEF Ending
  <2>5. ASSUME clean.timely, clean.intact PROVE Ending'
    <3>1. PICK s \in Seq(Byte) : Took(s) /\ slots = s \o (chunk \o queue)
      BY <2>1, <2>5 DEF WindowsInv, Following
    <3>2. slots = s \o chunk'
      BY <1>2, <2>1, <3>1
    <3>3. Took(s)'
      BY <1>3, <3>1, TookSame
    <3>4. last'.channels = IF Head(slots) = StartCodeDMX THEN Kept(Tail(slots)) ELSE <<>>
      BY <1>1, <1>2, <1>7, <2>5, DueOf
    <3> QED BY <1>1, <2>1, <3>2, <3>3, <3>4 DEF Ending
  <2> QED BY <1>3, <1>5, <1>6, <2>2, <2>3, <2>4, <2>5 DEF WindowsInv
<1>8. CASE ~Timely
  <2>1. ~clean'.timely /\ last' = last
    BY <1>1, <1>8
  <2> QED BY <1>1, <1>3, <1>5, <1>6, <1>8, <2>1, LateEvent DEF WindowsInv, Following
<1> QED BY <1>7, <1>8

LEMMA ReadEndsKeeps == WindowsInv /\ ReadEnds => WindowsInv'
<1> SUFFICES ASSUME WindowsInv, ReadEnds PROVE WindowsInv'
  OBVIOUS
<1>1. /\ port = "reading" /\ port' = "asking"
      /\ chunk' = SubSeq(queue, 1, Min({Len(queue), BufSize}))
      /\ queue' = SubSeq(queue, BufSize + 1, Len(queue))
      /\ UNCHANGED <<rxVars, slots, clean, last, status, marker>>
  BY DEF ReadEnds, lineVars
<1>2. chunk = <<>> /\ marker = "none" /\ ~last.timely /\ queue \in Seq(Byte) /\ Len(queue) <= QueueMax
  BY <1>1, NoneEnding DEF WindowsInv, TypeOK
<1>3. chunk' \in Seq(Byte) /\ queue' \in Seq(Byte) /\ chunk' \o queue' = queue
      /\ Len(chunk') <= BufSize /\ Len(queue') <= Len(queue)
  BY <1>1, <1>2, Split
<1>4. TypeOK'
  <2>1. RxTypeOK'
    BY <1>1, ReceiverTypes DEF WindowsInv, TypeOK
  <2>2. Len(queue') <= QueueMax
    BY <1>2, <1>3
  <2> QED BY <1>1, <1>3, <2>1, <2>2 DEF WindowsInv, TypeOK
<1>5. UNCHANGED <<state, frame>>
  BY <1>1 DEF rxVars
<1>6. Following'
  <2> SUFFICES ASSUME clean.timely PROVE Following'
    BY <1>1 DEF Following
  <2>1. status = {}
    BY <1>1 DEF WindowsInv, Following
  <2>2. CASE ~clean.intact
    BY <1>1, <1>2, <1>5, <2>1, <2>2 DEF WindowsInv, Following
  <2>3. CASE clean.intact
    <3>1. PICK s \in Seq(Byte) : Took(s) /\ slots = s \o (chunk \o queue)
      BY <1>1, <2>1, <2>3 DEF WindowsInv, Following
    <3>2. chunk \o queue = chunk' \o queue' /\ slots' = slots
      BY <1>1, <1>2, <1>3, ConcatEmptySeq
    <3>3. slots' = s \o (chunk' \o queue')
      BY <3>1, <3>2
    <3> QED BY <1>1, <1>2, <1>5, <2>1, <2>3, <3>1, <3>3, TookSame DEF Following
  <2> QED BY <2>2, <2>3
<1>7. Ending' /\ Between' /\ LastOK'
  BY <1>1, <1>2 DEF WindowsInv, Ending, Between, LastOK
<1> QED BY <1>4, <1>6, <1>7 DEF WindowsInv

LEMMA AskKeeps == WindowsInv /\ Ask => WindowsInv'
<1> SUFFICES ASSUME WindowsInv, Ask PROVE WindowsInv'
  OBVIOUS
<1>1. /\ port = "asking" /\ port' = "handed" /\ marker' = BreakFirst /\ status' = {}
      /\ UNCHANGED <<rxVars, slots, clean, last, queue, chunk>>
  BY DEF Ask, lineVars
<1>2. UNCHANGED <<state, frame>>
  BY <1>1 DEF rxVars
<1>3. BreakFirst = IF "break" \in status THEN "break" ELSE IF "error" \in status THEN "error" ELSE "none"
  BY DEF BreakFirst
<1>4. TypeOK'
  <2>1. RxTypeOK'
    BY <1>1, ReceiverTypes DEF WindowsInv, TypeOK
  <2> QED BY <1>1, <1>3, <2>1 DEF WindowsInv, TypeOK
<1>5. Following'
  <2> SUFFICES ASSUME clean.timely PROVE Following'
    BY <1>1 DEF Following
  <2>1. CASE clean.intact /\ slots = queue /\ status = {"break"}
    BY <1>1, <1>3, <2>1 DEF Following
  <2>2. CASE ~clean.intact /\ status = {"error"}
    BY <1>1, <1>3, <2>2 DEF Following
  <2>3. ASSUME status = {}, clean.intact, NEW s \in Seq(Byte), Took(s), slots = s \o (chunk \o queue)
        PROVE  Following'
    BY <1>1, <1>2, <1>3, <2>3, TookSame DEF Following
  <2>4. CASE status = {} /\ ~clean.intact /\ state = "waitBreak"
    BY <1>1, <1>2, <1>3, <2>4 DEF Following
  <2> QED BY <1>1, <2>1, <2>2, <2>3, <2>4 DEF WindowsInv, Following
<1>6. Ending'
  <2>1. last.timely => "break" \in status
    BY <1>1 DEF WindowsInv, Ending
  <2> QED BY <1>1, <1>2, <1>3, <2>1, EndingSame DEF WindowsInv
<1> QED BY <1>1, <1>4, <1>5, <1>6 DEF WindowsInv, Between, LastOK

LEMMA AskFailsKeeps == WindowsInv /\ AskFails => WindowsInv'
<1> SUFFICES ASSUME WindowsInv, AskFails PROVE WindowsInv'
  OBVIOUS
<1>1. /\ port' = "handed" /\ clean' = [clean EXCEPT !.timely = FALSE] /\ last' = Nothing
      /\ UNCHANGED <<rxVars, slots, queue, status, chunk, marker>>
  BY DEF AskFails
<1>2. ~clean'.timely /\ clean' \in [timely : BOOLEAN, intact : BOOLEAN]
  BY <1>1 DEF WindowsInv, TypeOK
<1>3. last' \in [timely : BOOLEAN, channels : Seq(Byte)] /\ ~last'.timely
  BY <1>1 DEF Nothing
<1>4. RxTypeOK'
  BY <1>1, ReceiverTypes DEF WindowsInv, TypeOK
<1>5. TypeOK'
  BY <1>1, <1>2, <1>3, <1>4 DEF WindowsInv, TypeOK
<1> QED BY <1>1, <1>2, <1>3, <1>5 DEF WindowsInv, LastOK, Between, Following, Ending

LEMMA HandByteKeeps == WindowsInv /\ HandByte => WindowsInv'
<1> SUFFICES ASSUME WindowsInv, HandByte PROVE WindowsInv'
  OBVIOUS
<1>1. /\ port = "handed" /\ chunk # <<>> /\ OnByte(Head(chunk)) /\ chunk' = Tail(chunk)
      /\ UNCHANGED <<slots, clean, last, queue, status, port, marker>>
  BY DEF HandByte, lineVars
<1>2. chunk \in Seq(Byte) /\ queue \in Seq(Byte) /\ Len(chunk) <= BufSize /\ RxTypeOK
  BY DEF WindowsInv, TypeOK
<1>3. PICK b \in Byte : b = Head(chunk) /\ OnByte(b)
  BY <1>1, <1>2
<1>4. chunk' \in Seq(Byte) /\ Len(chunk') <= BufSize
  BY <1>1, <1>2
<1>5. ASSUME NEW s \in Seq(Byte)
      PROVE  Append(s, b) \in Seq(Byte) /\ Append(s, b) \o chunk' = s \o chunk
  BY <1>1, <1>2, <1>3, MoveOne
<1>6. state = "waitBreak" => state' = "waitBreak"
  BY <1>3 DEF OnByte, StartCodeByte, DataByte, TrailerByte, IgnoredByte, rxVars
<1>7. TypeOK'
  <2>1. RxTypeOK'
    BY <1>2, <1>3, ReceiverTypes
  <2> QED BY <1>1, <1>4, <2>1 DEF WindowsInv, TypeOK
<1>8. Following'
  <2> SUFFICES ASSUME clean.timely PROVE Following'
    BY <1>1 DEF Following
  <2>1. CASE clean.intact /\ slots = queue /\ status = {} /\ marker = "break"
    BY <1>1, <2>1 DEF Following
  <2>2. CASE ~clean.intact /\ status = {} /\ marker = "error"
    BY <1>1, <2>2 DEF Following
  <2>3. ASSUME status = {}, marker = "none", clean.intact,
               NEW s \in Seq(Byte), Took(s), slots = s \o (chunk \o queue)
        PROVE  Following'
    <3> DEFINE t == Append(s, b)
    <3>1. t \in Seq(Byte) /\ t \o chunk' = s \o chunk
      BY <1>5
    <3>2. Took(t)'
      BY <1>2, <1>3, <2>3, TookNext
    <3> HIDE DEF t
    <3>3. s \o (chunk \o queue) = (s \o chunk) \o queue
      BY <1>2, Regroup
    <3>4. t \o (chunk' \o queue) = (t \o chunk') \o queue
      <4>1. t \in Seq(Byte)
        BY <3>1
      <4>2. chunk' \in Seq(Byte)
        BY <1>4
      <4>3. queue \in Seq(Byte)
        BY <1>2
      <4> QED BY <4>1, <4>2, <4>3, ConcatAssociative
    <3>5. slots' = t \o (chunk' \o queue')
      BY <1>1, <2>3, <3>1, <3>3, <3>4
    <3> QED BY <1>1, <2>3, <3>1, <3>2, <3>5 DEF Following
  <2>4. CASE status = {} /\ marker = "none" /\ ~clean.intact /\ state = "waitBreak"
    BY <1>1, <1>6, <2>4 DEF Following
  <2> QED BY <1>1, <2>1, <2>2, <2>3, <2>4 DEF WindowsInv, Following
<1>9. Ending'
  <2> SUFFICES ASSUME last.timely PROVE Ending'
    BY <1>1 DEF Ending
  <2>0. port' = "handed" /\ marker' = "break"
    BY <1>1 DEF WindowsInv, Ending
  <2>1. CASE last.channels = <<>> /\ state = "waitBreak"
    BY <1>1, <1>6, <2>0, <2>1 DEF Ending
  <2>2. ASSUME NEW s \in Seq(Byte), Took(s), s \o chunk # <<>>,
               last.channels = IF Head(s \o chunk) = StartCodeDMX THEN Kept(Tail(s \o chunk)) ELSE <<>>
        PROVE  Ending'
    <3> DEFINE t == Append(s, b)
    <3>1. t \in Seq(Byte) /\ t \o chunk' = s \o chunk
      BY <1>5
    <3>2. Took(t)'
      BY <1>2, <1>3, <2>2, TookNext
    <3> HIDE DEF t
    <3> QED BY <1>1, <2>0, <2>2, <3>1, <3>2 DEF Ending
  <2> QED BY <2>1, <2>2 DEF WindowsInv, Ending
<1> QED BY <1>1, <1>7, <1>8, <1>9 DEF WindowsInv, Between, LastOK

LEMMA HandMarkerKeeps == WindowsInv /\ HandMarker => WindowsInv'
<1> SUFFICES ASSUME WindowsInv, HandMarker PROVE WindowsInv'
  OBVIOUS
<1>1. /\ port = "handed" /\ chunk = <<>> /\ marker' = "none" /\ port' = "reading"
      /\ last' = IF marker = "break" THEN Nothing ELSE last
      /\ UNCHANGED <<slots, clean, queue, status, chunk>>
  BY DEF HandMarker
<1>2. /\ marker = "break" => OnBreak
      /\ marker = "error" => OnError
      /\ marker = "none" => UNCHANGED rxVars
      /\ marker \in {"none", "break", "error"}
  BY DEF HandMarker, WindowsInv, TypeOK
<1>3. queue \in Seq(Byte) /\ RxTypeOK
  BY DEF WindowsInv, TypeOK
<1>4. LastOK' /\ ~last'.timely
  <2>1. Nothing \in [timely : BOOLEAN, channels : Seq(Byte)] /\ ~Nothing.timely
    BY DEF Nothing
  <2>2. last.timely => marker = "break"
    BY <1>1 DEF WindowsInv, Ending
  <2> QED BY <1>1, <2>1, <2>2 DEF WindowsInv, LastOK
<1>5. TypeOK'
  <2>1. RxTypeOK'
    BY <1>2, <1>3, ReceiverTypes
  <2> QED BY <1>1, <1>4, <2>1 DEF WindowsInv, TypeOK, LastOK
<1>6. Following'
  <2> SUFFICES ASSUME clean.timely PROVE Following'
    BY <1>1 DEF Following
  <2>1. CASE clean.intact /\ slots = queue /\ status = {} /\ marker = "break"
    <3>1. state' = "waitStartCode" /\ frame' = <<>>
      BY <1>2, <1>3, <2>1, BreakEnds
    <3>2. Took(<<>>)'
      BY <3>1 DEF Took
    <3>3. <<>> \in Seq(Byte) /\ slots' = <<>> \o (chunk' \o queue')
      BY <1>1, <1>3, <2>1
    <3> QED BY <1>1, <2>1, <3>2, <3>3 DEF Following
  <2>2. CASE ~clean.intact /\ status = {} /\ marker = "error"
    <3>1. state' = "waitBreak"
      BY <1>2, <2>2 DEF OnError, Resync
    <3> QED BY <1>1, <2>2, <3>1 DEF Following
  <2>3. ASSUME status = {}, marker = "none", clean.intact,
               NEW s \in Seq(Byte), Took(s), slots = s \o (chunk \o queue)
        PROVE  Following'
    <3>1. UNCHANGED <<state, frame>>
      BY <1>2, <2>3 DEF rxVars
    <3> QED BY <1>1, <2>3, <3>1, TookSame DEF Following
  <2>4. CASE status = {} /\ marker = "none" /\ ~clean.intact /\ state = "waitBreak"
    BY <1>1, <1>2, <2>4 DEF Following, rxVars
  <2> QED BY <1>1, <2>1, <2>2, <2>3, <2>4 DEF WindowsInv, Following
<1>7. Ending' /\ Between'
  BY <1>1, <1>4 DEF Ending, Between
<1> QED BY <1>4, <1>5, <1>6, <1>7 DEF WindowsInv

LEMMA OthersKeep ==
  WindowsInv /\ (ReadFails \/ (Take /\ UNCHANGED <<lineVars, portVars>>) \/ UNCHANGED vars) => WindowsInv'
<1> SUFFICES ASSUME WindowsInv, ReadFails \/ (Take /\ UNCHANGED <<lineVars, portVars>>) \/ UNCHANGED vars
             PROVE  WindowsInv'
  OBVIOUS
<1>1. /\ Stop \/ Take \/ UNCHANGED rxVars
      /\ UNCHANGED <<state, frame, slots, clean, last, queue, status, port, chunk, marker>>
  BY DEF ReadFails, Stop, Take, vars, rxVars, lineVars, portVars
<1>2. TypeOK'
  <2>1. RxTypeOK'
    BY <1>1, ReceiverTypes DEF WindowsInv, TypeOK
  <2> QED BY <1>1, <2>1 DEF WindowsInv, TypeOK
<1>3. ASSUME NEW s PROVE Took(s)' <=> Took(s)
  BY <1>1 DEF Took
<1>4. Following' /\ Ending'
  BY <1>1, <1>3 DEF WindowsInv, Following, Ending
<1> QED BY <1>1, <1>2, <1>4 DEF WindowsInv, Between, LastOK

----------------------------------------------------------------------------
(* The theorems.                                                           *)

\* What the driver has noted, what ReadChunk has read and what the receiver has
\* of the packet on the line add up to that packet, once its break was timely.
THEOREM WindowsInvariant == Spec => []WindowsInv
<1>1. Init => WindowsInv
  <2> SUFFICES ASSUME Init PROVE WindowsInv
    OBVIOUS
  <2>1. RxTypeOK
    <3>1. NoVotes \in [FrameLength -> 0..VoteWindow]
      BY DEF NoVotes
    <3> QED BY <3>1 DEF Init, RxInit, RxTypeOK, RxState
  <2>2. slots \in Seq(Byte) /\ Len(slots) = 1
    BY DEF Init
  <2> QED BY <2>1, <2>2 DEF Init, Unclean, Nothing, WindowsInv, TypeOK, LastOK, Between, Following, Ending
<1>2. WindowsInv /\ [Next]_vars => WindowsInv'
  BY SlotKeeps, BadSlotKeeps, BreakKeeps, ReadEndsKeeps, AskKeeps, AskFailsKeeps, HandByteKeeps,
     HandMarkerKeeps, OthersKeep DEF Next
<1> QED BY <1>1, <1>2, PTL DEF Spec

\* Types: nothing outgrows the caller's buffer, the frame's array or the Frames
\* channel, whatever the line and the driver do.
THEOREM TypeCorrect == Spec => []TypeOK
<1>1. WindowsInv => TypeOK
  BY DEF WindowsInv
<1> QED BY <1>1, WindowsInvariant, PTL

\* A packet whose break and errors were asked for in time is published as it was
\* on the line at its end, whatever became of the packets before it.
THEOREM TimelyPublished == Spec => TimelyIsPublished
<1>1. WindowsInv /\ [Next]_vars =>
        [port = "handed" /\ port' = "reading" /\ marker = "break" /\ last.timely =>
           frames' = IF last.channels = <<>> THEN frames
                     ELSE TrySend(frames, FramesCap, last.channels)]_vars
  <2> SUFFICES ASSUME WindowsInv, Next, port = "handed", port' = "reading", marker = "break", last.timely
               PROVE  frames' = IF last.channels = <<>> THEN frames
                                ELSE TrySend(frames, FramesCap, last.channels)
    OBVIOUS
  <2>1. HandMarker
    BY DEF Next, Slot, BadSlot, Break, Event, ReadWaits, ReadEnds, Ask, AskFails, HandByte, ReadFails,
           portVars
  <2>2. OnBreak /\ chunk = <<>>
    BY <2>1 DEF HandMarker
  <2>3. frames' = IF state = "readData" /\ frame # <<>> THEN TrySend(frames, FramesCap, frame) ELSE frames
    BY <2>2, BreakEnds DEF WindowsInv, TypeOK
  <2>4. CASE last.channels = <<>> /\ state = "waitBreak"
    BY <2>3, <2>4
  <2>5. ASSUME NEW s \in Seq(Byte), Took(s), s \o chunk # <<>>,
               last.channels = IF Head(s \o chunk) = StartCodeDMX THEN Kept(Tail(s \o chunk)) ELSE <<>>
        PROVE  frames' = IF last.channels = <<>> THEN frames
                         ELSE TrySend(frames, FramesCap, last.channels)
    <3>1. s \o chunk = s
      BY <2>2
    <3>2. s # <<>> /\ last.channels = IF Head(s) = StartCodeDMX THEN Kept(Tail(s)) ELSE <<>>
      BY <2>5, <3>1
    <3> QED BY <2>3, <2>5, <3>2 DEF Took
  <2> QED BY <2>4, <2>5 DEF WindowsInv, Ending
<1> QED BY <1>1, WindowsInvariant, PTL DEF Spec, TimelyIsPublished
=============================================================================
