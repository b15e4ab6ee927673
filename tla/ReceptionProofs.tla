--------------------------- MODULE ReceptionProofs ---------------------------
(***************************************************************************)
(* The break receiver.  First its types, for any line.  Then a driver that *)
(* reports breaks (Linux; Windows, where events are told in time):         *)
(* whatever packets are on the line, of whatever lengths, and wherever     *)
(* they are damaged, it publishes the intact DMX packets and nothing else. *)
(* Then breaks that are inferred from short reads (macOS): what is         *)
(* published of full packets, and what the length lock is worth.           *)
(***************************************************************************)
EXTENDS Reception, SequenceTheorems, WellFoundedInduction, TLAPS

\* What is stored of the first n channels of a packet.
Stored(p, n) == SubSeq(p.data, 1, IF n <= MaxChannels THEN n ELSE MaxChannels)

\* Where the receiver is in the packet on the line: it follows an intact packet
\* from its break on, and waits for the next break in any other.
InPacket ==
  /\ state \in {"waitBreak", "waitStartCode", "readData"}
  /\ state # "readData" => frame = <<>>
  /\ state = "waitStartCode" => intact /\ pos = 0
  /\ state = "readData" => /\ intact /\ pos > 0
                           /\ packet.start = StartCodeDMX
                           /\ frame = Stored(packet, pos - 1)
  /\ intact /\ pos = 0 => state = "waitStartCode"
  /\ intact /\ pos > 0 /\ packet.start = StartCodeDMX => state = "readData"

DriverInv == TypeOK /\ InPacket

----------------------------------------------------------------------------
(* Packets and channels.                                                   *)

LEMMA PacketParts ==
  ASSUME NEW p \in Packets
  PROVE  p.start \in Byte /\ p.data \in Seq(Byte) /\ Len(p.data) \in Nat
BY LineAssumption DEF LineAssumption

LEMMA DriverSlots ==
  ASSUME ~InferBreaks, NEW p \in Packets
  PROVE  /\ Len(Slots(p)) = Len(p.data) + 1
         /\ Slots(p)[1] = p.start
         /\ \A i \in 1..Len(p.data) : Slots(p)[i + 1] = p.data[i]
<1>1. p.start \in Byte /\ p.data \in Seq(Byte)
  BY PacketParts
<1>2. <<p.start>> \o p.data \in Seq(Byte)
  BY <1>1
<1>3. Slots(p) = <<p.start>> \o p.data
  BY <1>1, <1>2, ConcatEmptySeq DEF Slots
<1> QED BY <1>1, <1>3

\* A slot more is a channel more, until the frame is full.
LEMMA StoreNext ==
  ASSUME packet \in Packets, NEW n \in 0..(Len(packet.data) - 1)
  PROVE  IF n < MaxChannels THEN Append(Stored(packet, n), packet.data[n + 1]) = Stored(packet, n + 1)
                            ELSE Stored(packet, n) = Stored(packet, n + 1)
<1>1. packet.data \in Seq(Byte) /\ Len(packet.data) \in Nat
  BY PacketParts
<1>2. MaxChannels \in Nat
  BY LineAssumption DEF LineAssumption
<1>3. CASE n < MaxChannels
  <2>1. Stored(packet, n) = SubSeq(packet.data, 1, n) /\ Stored(packet, n + 1) = SubSeq(packet.data, 1, n + 1)
    BY <1>2, <1>3 DEF Stored
  <2>2. SubSeq(packet.data, 1, n + 1) = Append(SubSeq(packet.data, 1, n), packet.data[n + 1])
    BY <1>1
  <2> QED BY <1>3, <2>1, <2>2
<1>4. CASE n >= MaxChannels
  BY <1>2, <1>4 DEF Stored
<1> QED BY <1>2, <1>3, <1>4

LEMMA StoredLength ==
  ASSUME packet \in Packets, NEW n \in 0..Len(packet.data)
  PROVE  /\ Stored(packet, n) \in Seq(Byte)
         /\ Len(Stored(packet, n)) = IF n <= MaxChannels THEN n ELSE MaxChannels
<1>1. packet.data \in Seq(Byte) /\ Len(packet.data) \in Nat
  BY PacketParts
<1>2. MaxChannels \in Nat
  BY LineAssumption DEF LineAssumption
<1>3. ASSUME NEW m \in 0..Len(packet.data)
      PROVE  SubSeq(packet.data, 1, m) \in Seq(Byte) /\ Len(SubSeq(packet.data, 1, m)) = m
  BY <1>1
<1> QED BY <1>1, <1>2, <1>3 DEF Stored

LEMMA StoredAll ==
  ASSUME packet \in Packets
  PROVE  Stored(packet, Len(packet.data)) = Channels(packet)
<1>1. packet.data \in Seq(Byte) /\ Len(packet.data) \in Nat
  BY PacketParts
<1>2. SubSeq(packet.data, 1, Len(packet.data)) = packet.data
  BY <1>1, SubSeqFull
<1> QED BY <1>2 DEF Stored, Channels

LEMMA SendKeepsSeq ==
  ASSUME NEW S, NEW ch \in Seq(S), NEW cap \in Nat, NEW x \in S, Len(ch) <= cap
  PROVE  TrySend(ch, cap, x) \in Seq(S) /\ Len(TrySend(ch, cap, x)) <= cap
BY DEF TrySend

----------------------------------------------------------------------------
(* The types, whichever way breaks are told.                               *)

\* A bounded set of numbers that is not empty has a greatest.
LEMMA BoundedHasMax ==
  ASSUME NEW n \in Nat, NEW S \in SUBSET (0..n), S # {}
  PROVE  \E m \in S : \A y \in S : y <= m
<1> DEFINE T == {n - x : x \in S}
<1>1. T \in SUBSET Nat /\ T # {}
  <2>1. \A x \in S : n - x \in Nat
    OBVIOUS
  <2>2. PICK x \in S : n - x \in T
    OBVIOUS
  <2> QED BY <2>1, <2>2
<1>2. PICK d \in T : \A e \in T : ~ (<<e, d>> \in OpToRel(<, Nat))
  BY <1>1, NatLessThanWellFounded, WFMin
<1>3. ASSUME NEW e \in T PROVE ~ (e < d)
  <2>1. OpToRel(<, Nat) = {p \in Nat \X Nat : p[1] < p[2]}
    BY DEF OpToRel
  <2> HIDE DEF T
  <2>2. d \in Nat /\ e \in Nat
    BY <1>1
  <2> QED BY <1>2, <2>1, <2>2
<1>4. PICK x \in S : d = n - x
  OBVIOUS
<1>5. ASSUME NEW y \in S PROVE y <= x
  <2>1. n - y \in T
    OBVIOUS
  <2>2. ~ (n - y < n - x)
    BY <1>3, <1>4, <2>1
  <2>3. x \in 0..n /\ y \in 0..n
    OBVIOUS
  <2> QED BY <2>2, <2>3
<1> QED BY <1>5

\* The vote has a winner: the longest of the lengths with the most votes.
LEMMA WinnerIsLength ==
  ASSUME NEW count \in [FrameLength -> 0..VoteWindow]
  PROVE  Winner(count) \in FrameLength
<1>1. VoteWindow \in Nat /\ MaxChannels \in Nat /\ MaxChannels > 0
  BY LineAssumption, ReceiverAssumption DEF LineAssumption, ReceiverAssumption
<1>2. PICK c \in {count[l] : l \in FrameLength} : \A d \in {count[l] : l \in FrameLength} : d <= c
  <2> DEFINE S == {count[l] : l \in FrameLength}
  <2>1. S \in SUBSET (0..VoteWindow)
    OBVIOUS
  <2>2. S # {}
    <3>1. 1 \in FrameLength
      BY <1>1 DEF FrameLength
    <3>2. count[1] \in S
      BY <3>1
    <3> QED BY <3>2
  <2> HIDE DEF S
  <2>3. \E m \in S : \A y \in S : y <= m
    BY <1>1, <2>1, <2>2, BoundedHasMax
  <2> QED BY <2>3 DEF S
<1>3. PICK w \in {l \in FrameLength : count[l] = c} : \A k \in {l \in FrameLength : count[l] = c} : k <= w
  <2> DEFINE S == {l \in FrameLength : count[l] = c}
  <2>1. S \in SUBSET (0..MaxChannels)
    BY <1>1 DEF FrameLength
  <2>2. S # {}
    BY <1>2
  <2> HIDE DEF S
  <2>3. \E m \in S : \A y \in S : y <= m
    BY <1>1, <2>1, <2>2, BoundedHasMax
  <2> QED BY <2>3 DEF S
<1>4. ASSUME NEW k \in FrameLength
      PROVE  count[k] < count[w] \/ (count[k] = count[w] /\ k <= w)
  <2>1. count[k] <= c /\ count[w] = c
    BY <1>2, <1>3
  <2>2. count[k] = c => k <= w
    BY <1>3
  <2>3. count[k] \in Nat /\ c \in Nat
    <3>1. count[k] \in 0..VoteWindow /\ c \in 0..VoteWindow
      BY <1>2
    <3> QED BY <1>1, <3>1
  <2> QED BY <2>1, <2>2, <2>3
<1> QED BY <1>3, <1>4 DEF Winner

\* The invariant: while the lock is open fewer breaks than the window have been
\* counted, none of them twice, and a frame is kept in readData only.
VotesFit == locked = 0 => seen < VoteWindow /\ \A l \in FrameLength : votes[l] <= seen

TypeInv == /\ TypeOK
           /\ VotesFit
           /\ state # "readData" => frame = <<>>

LEMMA SlotCount ==
  ASSUME NEW p \in Packets
  PROVE  /\ Slots(p) \in Seq(Byte)
         /\ Len(Slots(p)) = Len(p.data) + (IF InferBreaks THEN 2 ELSE 1)
         /\ Slots(p)[1] = p.start
         /\ \A i \in 1..Len(p.data) : Slots(p)[i + 1] = p.data[i]
<1>1. p.start \in Byte /\ p.data \in Seq(Byte) /\ 0 \in Byte
  BY PacketParts, LineAssumption DEF LineAssumption
<1>2. CASE InferBreaks
  <2> DEFINE q == <<p.start>> \o p.data
  <2>1. Slots(p) = q \o <<0>>
    BY <1>2 DEF Slots
  <2>2. /\ q \in Seq(Byte) /\ Len(q) = Len(p.data) + 1 /\ q[1] = p.start
        /\ \A i \in 1..Len(p.data) : q[i + 1] = p.data[i]
    BY <1>1
  <2>3. /\ q \o <<0>> \in Seq(Byte) /\ Len(q \o <<0>>) = Len(q) + 1
        /\ \A i \in 1..Len(q) : (q \o <<0>>)[i] = q[i]
    <3> HIDE DEF q
    <3> QED BY <1>1, <2>2
  <2>4. Len(p.data) \in Nat /\ \A i \in 1..Len(p.data) : i + 1 \in 1..Len(q)
    BY <1>1, <2>2
  <2> HIDE DEF q
  <2> QED BY <1>2, <2>1, <2>2, <2>3, <2>4
<1>3. CASE ~InferBreaks
  <2>1. Slots(p) = <<p.start>> \o p.data \o <<>>
    BY <1>3 DEF Slots
  <2>2. <<p.start>> \o p.data \in Seq(Byte)
    BY <1>1
  <2>3. Slots(p) = <<p.start>> \o p.data
    BY <2>1, <2>2, ConcatEmptySeq
  <2> QED BY <1>1, <1>3, <2>2, <2>3
<1> QED BY <1>2, <1>3

LEMMA TypeInit == Init => TypeInv
<1> SUFFICES ASSUME Init PROVE TypeInv
  OBVIOUS
<1>1. /\ MaxChannels \in Nat /\ VoteWindow \in Nat \ {0} /\ FramesCap \in Nat
  BY LineAssumption, ReceiverAssumption DEF LineAssumption, ReceiverAssumption
<1>2. votes \in [FrameLength -> 0..VoteWindow] /\ \A l \in FrameLength : votes[l] = 0
  BY <1>1 DEF Init, RxInit, NoVotes
<1>3. frame \in Seq(Byte) /\ Len(frame) <= MaxChannels
  BY <1>1 DEF Init, RxInit
<1>4. frames \in Seq(Seq(Byte)) /\ Len(frames) <= FramesCap
  BY <1>1 DEF Init, RxInit
<1>5. running \in BOOLEAN /\ state \in RxState /\ locked \in 0..MaxChannels /\ seen \in 0..VoteWindow
  BY <1>1 DEF Init, RxInit, RxState
<1>6. RxTypeOK
  BY <1>2, <1>3, <1>4, <1>5 DEF RxTypeOK
<1>7. TypeOK
  BY <1>6 DEF Init, TypeOK
<1> QED BY <1>1, <1>2, <1>7 DEF Init, RxInit, TypeInv, VotesFit

\* A frame that is sent, or not, leaves the channel within its capacity.
LEMMA FramesFit ==
  ASSUME TypeOK, NEW f \in Seq(Byte), frames' \in {frames, TrySend(frames, FramesCap, f)}
  PROVE  frames' \in Seq(Seq(Byte)) /\ Len(frames') <= FramesCap
<1>1. frames \in Seq(Seq(Byte)) /\ Len(frames) <= FramesCap /\ FramesCap \in Nat
  BY ReceiverAssumption DEF ReceiverAssumption, TypeOK, RxTypeOK
<1>2. TrySend(frames, FramesCap, f) \in Seq(Seq(Byte)) /\ Len(TrySend(frames, FramesCap, f)) <= FramesCap
  BY <1>1, SendKeepsSeq
<1> QED BY <1>1, <1>2

LEMMA EmptyFits == <<>> \in Seq(Byte) /\ Len(<<>>) <= MaxChannels
BY LineAssumption DEF LineAssumption

LEMMA ByteKeepsTypes ==
  ASSUME TypeInv, NEW b \in Byte, OnByte(b)
  PROVE  /\ RxTypeOK' /\ VotesFit' /\ (state' # "readData" => frame' = <<>>)
         /\ UNCHANGED <<running, validator>>
<1>1. /\ frame \in Seq(Byte) /\ Len(frame) <= MaxChannels /\ MaxChannels \in Nat
  BY LineAssumption DEF LineAssumption, TypeInv, TypeOK, RxTypeOK
<1>2. UNCHANGED <<running, validator>>
  BY DEF OnByte, StartCodeByte, DataByte, TrailerByte, IgnoredByte, rxVars
<1>3. VotesFit'
  BY <1>2 DEF TypeInv, VotesFit, validator
<1>4. CASE DataByte(b)
  <2>1. Store(b) \in Seq(Byte) /\ Len(Store(b)) <= MaxChannels
    BY <1>1 DEF Store
  <2>2. frame' \in {<<>>, Store(b)} /\ frames' \in {frames, TrySend(frames, FramesCap, Store(b))}
        /\ state' \in RxState /\ (state' # "readData" => frame' = <<>>)
    BY <1>4 DEF DataByte, ExpectTrailer, RxState
  <2>3. frame' \in Seq(Byte) /\ Len(frame') <= MaxChannels
    <3>1. frame' = <<>> \/ frame' = Store(b)
      BY <2>2
    <3> QED BY <2>1, <3>1, EmptyFits
  <2>4. frames' \in Seq(Seq(Byte)) /\ Len(frames') <= FramesCap
    BY <2>1, <2>2, FramesFit DEF TypeInv
  <2> QED BY <1>2, <1>3, <2>2, <2>3, <2>4 DEF TypeInv, TypeOK, RxTypeOK, validator
<1>5. CASE StartCodeByte(b) \/ TrailerByte(b) \/ IgnoredByte(b)
  <2>1. UNCHANGED <<frame, frames>> /\ state' \in RxState /\ (state' # "readData" => frame' = <<>>)
    BY <1>5 DEF StartCodeByte, TrailerByte, IgnoredByte, rxVars, RxState, TypeInv, TypeOK, RxTypeOK
  <2> QED BY <1>2, <1>3, <2>1 DEF TypeInv, TypeOK, RxTypeOK, validator
<1> QED BY <1>2, <1>3, <1>4, <1>5 DEF OnByte

\* A vote more: the window is filled, and the lock is on, or there is room for
\* one more vote of every length.
LEMMA VoteKeepsTypes ==
  ASSUME TypeInv, locked = 0, NEW n \in FrameLength, Vote(n)
  PROVE  /\ votes' \in [FrameLength -> 0..VoteWindow]
         /\ locked' \in 0..MaxChannels /\ seen' \in 0..VoteWindow
         /\ VotesFit'
<1>1. /\ MaxChannels \in Nat /\ VoteWindow \in Nat \ {0}
      /\ votes \in [FrameLength -> 0..VoteWindow] /\ seen \in 0..VoteWindow
      /\ seen < VoteWindow /\ \A l \in FrameLength : votes[l] <= seen
  BY LineAssumption, ReceiverAssumption DEF LineAssumption, ReceiverAssumption, TypeInv, TypeOK, RxTypeOK, VotesFit
<1>2. \A l \in FrameLength : Counted(n)[l] \in 0..(seen + 1)
  BY <1>1 DEF Counted
<1>3. Counted(n) \in [FrameLength -> 0..VoteWindow]
  <2>1. \A l \in FrameLength : Counted(n)[l] \in 0..VoteWindow
    BY <1>1, <1>2
  <2>2. Counted(n) = [l \in FrameLength |-> Counted(n)[l]]
    BY <1>1 DEF Counted
  <2> QED BY <2>1, <2>2
<1>4. seen' = seen + 1
  BY DEF Vote
<1>5. CASE seen + 1 >= VoteWindow
  <2>1. locked' = Winner(Counted(n)) /\ votes' = NoVotes
    BY <1>5 DEF Vote
  <2>2. locked' \in FrameLength
    BY <1>3, <2>1, WinnerIsLength
  <2>3. NoVotes \in [FrameLength -> 0..VoteWindow]
    BY <1>1 DEF NoVotes
  <2> QED BY <1>1, <1>4, <1>5, <2>1, <2>2, <2>3 DEF FrameLength, VotesFit
<1>6. CASE ~ (seen + 1 >= VoteWindow)
  <2>1. votes' = Counted(n) /\ locked' = 0
    BY <1>6 DEF Vote
  <2> QED BY <1>1, <1>2, <1>3, <1>4, <1>6, <2>1 DEF VotesFit
<1> QED BY <1>5, <1>6

LEMMA BreakKeepsTypes ==
  ASSUME TypeInv, OnBreak
  PROVE  RxTypeOK' /\ VotesFit' /\ (state' # "readData" => frame' = <<>>)
<1>1. /\ frame \in Seq(Byte) /\ Len(frame) <= MaxChannels /\ MaxChannels \in Nat /\ UNCHANGED running
  BY LineAssumption DEF LineAssumption, TypeInv, TypeOK, RxTypeOK, OnBreak, BreakWhileLocked, BreakAfterData, BreakElsewhere
<1>2. CASE BreakWhileLocked
  BY <1>1, <1>2 DEF BreakWhileLocked, Recover, TypeInv, TypeOK, RxTypeOK, RxState, VotesFit, validator
<1>3. CASE BreakElsewhere
  <2>1. state' = "waitStartCode" /\ frame' = <<>> /\ UNCHANGED <<validator, frames>>
    BY <1>3 DEF BreakElsewhere, NextFrame
  <2>2. frame' \in Seq(Byte) /\ Len(frame') <= MaxChannels
    BY <1>1, <2>1
  <2> QED BY <1>1, <2>1, <2>2 DEF TypeInv, TypeOK, RxTypeOK, RxState, VotesFit, validator
<1>4. CASE BreakAfterData
  <2>1. /\ ~LengthDrives /\ state = "readData" /\ frame # <<>> /\ Classify(Len(frame))
        /\ frames' \in {frames, TrySend(frames, FramesCap, frame)}
        /\ (state' = "waitStartCode" /\ frame' = <<>>) \/ UNCHANGED <<state, frame>>
    BY <1>4 DEF BreakAfterData, NextFrame
  <2>2. Len(frame) \in FrameLength
    BY <1>1, <2>1, EmptySeq DEF FrameLength
  <2>3. frames' \in Seq(Seq(Byte)) /\ Len(frames') <= FramesCap
    BY <1>1, <2>1, FramesFit DEF TypeInv
  <2>4. frame' \in Seq(Byte) /\ Len(frame') <= MaxChannels
    <3>1. frame' = <<>> \/ frame' = frame
      BY <2>1
    <3> QED BY <1>1, <3>1, EmptyFits
  <2>5. /\ votes' \in [FrameLength -> 0..VoteWindow]
        /\ locked' \in 0..MaxChannels /\ seen' \in 0..VoteWindow
        /\ VotesFit'
    <3>1. CASE UNCHANGED validator
      BY <3>1 DEF validator, TypeInv, TypeOK, RxTypeOK, VotesFit
    <3>2. CASE locked = 0 /\ Vote(Len(frame))
      BY <2>2, <3>2, VoteKeepsTypes
    <3>3. ~InferBreaks \/ locked = 0
      BY <2>1 DEF LengthDrives, TypeInv, TypeOK, RxTypeOK
    <3> QED BY <2>1, <3>1, <3>2, <3>3 DEF Classify
  <2>6. state' \in RxState /\ (state' # "readData" => frame' = <<>>)
    BY <2>1 DEF RxState, TypeInv, TypeOK, RxTypeOK
  <2> QED BY <1>1, <2>3, <2>4, <2>5, <2>6 DEF TypeInv, TypeOK, RxTypeOK
<1> QED BY <1>2, <1>3, <1>4 DEF OnBreak

LEMMA TypeStep == TypeInv /\ [Next]_vars => TypeInv'
<1> SUFFICES ASSUME TypeInv, [Next]_vars PROVE TypeInv'
  OBVIOUS
<1>1. /\ packet \in Packets /\ Slots(packet) \in Seq(Byte) /\ Len(Slots(packet)) \in Nat
      /\ pos \in 0..Len(Slots(packet)) /\ intact \in BOOLEAN /\ spurious \in BOOLEAN
  <2>1. packet \in Packets /\ pos \in 0..Len(Slots(packet)) /\ intact \in BOOLEAN /\ spurious \in BOOLEAN
    BY DEF TypeInv, TypeOK
  <2>2. Slots(packet) \in Seq(Byte)
    BY <2>1, SlotCount
  <2> QED BY <2>1, <2>2
<1>2. ASSUME packet' \in Packets PROVE 0 \in 0..Len(Slots(packet'))
  BY <1>2, SlotCount, PacketParts
<1>3. CASE Slot
  <2>1. Slots(packet)[pos + 1] \in Byte
    BY <1>1, <1>3 DEF Slot
  <2>2. RxTypeOK' /\ VotesFit' /\ (state' # "readData" => frame' = <<>>)
    BY <1>3, <2>1, ByteKeepsTypes DEF Slot
  <2> QED BY <1>1, <1>3, <2>2 DEF Slot, TypeInv, TypeOK
<1>4. CASE BadSlot
  <2>1. /\ state' = "waitBreak" /\ frame' = <<>> /\ intact' = FALSE /\ pos' \in 0..Len(Slots(packet))
        /\ UNCHANGED <<running, validator, frames, packet, spurious>>
    BY <1>1, <1>4 DEF BadSlot, OnError, Resync
  <2>2. frame' \in Seq(Byte) /\ Len(frame') <= MaxChannels
    BY <2>1, LineAssumption DEF LineAssumption
  <2> QED BY <1>1, <2>1, <2>2 DEF TypeInv, TypeOK, RxTypeOK, RxState, VotesFit, validator
<1>5. CASE BreakReported \/ SpuriousBreak
  <2>1. RxTypeOK' /\ VotesFit' /\ (state' # "readData" => frame' = <<>>)
    BY <1>5, BreakKeepsTypes DEF BreakReported, SpuriousBreak
  <2> QED BY <1>1, <1>2, <1>5, <2>1 DEF BreakReported, SpuriousBreak, NextPacket, TypeInv, TypeOK
<1>6. CASE BreakMissed
  BY <1>1, <1>2, <1>6 DEF BreakMissed, NextPacket, rxVars, validator, TypeInv, TypeOK, RxTypeOK, VotesFit
<1>7. CASE (Stop \/ Take) /\ UNCHANGED lineVars
  <2>1. UNCHANGED <<state, frame, validator, lineVars>> /\ running' \in BOOLEAN
    BY <1>7 DEF Stop, Take, TypeInv, TypeOK, RxTypeOK
  <2>2. frames' \in Seq(Seq(Byte)) /\ Len(frames') <= FramesCap
    <3>1. frames \in Seq(Seq(Byte)) /\ Len(frames) <= FramesCap /\ FramesCap \in Nat
      BY ReceiverAssumption DEF ReceiverAssumption, TypeInv, TypeOK, RxTypeOK
    <3>2. frames' = frames \/ (frames # <<>> /\ frames' = Tail(frames))
      BY <1>7 DEF Stop, Take
    <3>3. frames # <<>> => Tail(frames) \in Seq(Seq(Byte)) /\ Len(Tail(frames)) <= FramesCap
      BY <3>1
    <3> QED BY <3>1, <3>2, <3>3
  <2> QED BY <2>1, <2>2 DEF TypeInv, TypeOK, RxTypeOK, VotesFit, validator, lineVars
<1>8. CASE UNCHANGED vars
  BY <1>8 DEF vars, rxVars, lineVars, validator, TypeInv, TypeOK, RxTypeOK, VotesFit
<1> QED BY <1>3, <1>4, <1>5, <1>6, <1>7, <1>8 DEF Next

THEOREM TypeInvariant == Spec => []TypeInv
BY TypeInit, TypeStep, PTL DEF Spec

\* Every variable has its type on every line: no frame is longer than its array,
\* the Frames channel is never over its capacity, and a lock is a length a frame
\* can have.
THEOREM TypeCorrect == Spec => []TypeOK
<1>1. TypeInv => TypeOK
  BY DEF TypeInv
<1> QED BY <1>1, TypeInvariant, PTL

----------------------------------------------------------------------------
(* The actions, for a driver that reports breaks.                          *)

LEMMA InitDriver ==
  ASSUME ~InferBreaks, Init
  PROVE  DriverInv
<1>1. /\ MaxChannels \in Nat /\ VoteWindow \in Nat /\ FramesCap \in Nat
  BY LineAssumption, ReceiverAssumption DEF LineAssumption, ReceiverAssumption
<1>2. RxTypeOK
  <2>1. NoVotes \in [FrameLength -> 0..VoteWindow]
    BY <1>1 DEF NoVotes
  <2>2. frame \in Seq(Byte) /\ Len(frame) <= MaxChannels
    BY <1>1 DEF Init, RxInit
  <2>3. frames \in Seq(Seq(Byte)) /\ Len(frames) <= FramesCap
    BY <1>1 DEF Init, RxInit
  <2> QED BY <1>1, <2>1, <2>2, <2>3 DEF Init, RxInit, RxTypeOK, RxState
<1>3. TypeOK
  BY <1>2 DEF Init, TypeOK
<1>4. InPacket
  BY DEF Init, RxInit, InPacket
<1> QED BY <1>3, <1>4 DEF DriverInv

\* A slot: the start code, a channel, or a byte that is not waited for.
LEMMA SlotKeeps ==
  ASSUME ~InferBreaks, DriverInv, Slot
  PROVE  DriverInv'
<1>1. /\ packet \in Packets /\ packet.start \in Byte /\ packet.data \in Seq(Byte)
      /\ Len(packet.data) \in Nat
  BY PacketParts DEF DriverInv, TypeOK
<1>2. /\ Len(Slots(packet)) = Len(packet.data) + 1 /\ Slots(packet)[1] = packet.start
      /\ \A i \in 1..Len(packet.data) : Slots(packet)[i + 1] = packet.data[i]
  BY <1>1, DriverSlots
<1>3. pos \in 0..Len(packet.data) /\ pos' = pos + 1 /\ UNCHANGED <<packet, intact, spurious>>
  BY <1>1, <1>2 DEF Slot, DriverInv, TypeOK
<1>4. pos' \in 0..Len(Slots(packet)) /\ pos' > 0
  BY <1>1, <1>2, <1>3
<1> DEFINE b == Slots(packet)[pos + 1]
<1>5. MaxChannels \in Nat
  BY LineAssumption DEF LineAssumption
<1>6. CASE StartCodeByte(b)
  <2>1. state = "waitStartCode" /\ intact /\ pos = 0 /\ frame = <<>> /\ b = packet.start
    BY <1>2, <1>6 DEF StartCodeByte, DriverInv, InPacket
  <2>2. state' = (IF packet.start = StartCodeDMX THEN "readData" ELSE "waitBreak")
        /\ UNCHANGED <<running, frame, validator, frames>>
    BY <1>6, <2>1 DEF StartCodeByte
  <2>3. Stored(packet, 0) = <<>>
    BY <1>1, <1>5 DEF Stored
  <2>4. pos' - 1 = 0 /\ pos' > 0
    BY <1>3, <2>1
  <2>5. InPacket'
    BY <1>3, <2>1, <2>2, <2>3, <2>4 DEF InPacket
  <2>6. TypeOK'
    BY <1>3, <1>4, <2>2 DEF DriverInv, TypeOK, RxTypeOK, RxState, validator
  <2> QED BY <2>5, <2>6 DEF DriverInv
<1>7. CASE DataByte(b)
  <2>1. state = "readData" /\ intact /\ pos > 0 /\ packet.start = StartCodeDMX
        /\ frame = Stored(packet, pos - 1)
    BY <1>7 DEF DataByte, DriverInv, InPacket
  <2>2. b = packet.data[pos] /\ pos - 1 \in 0..(Len(packet.data) - 1)
    <3>1. pos \in 1..Len(packet.data)
      BY <1>1, <1>3, <2>1
    <3> QED BY <1>1, <1>2, <3>1
  <2>3. frame' = Store(b) /\ UNCHANGED <<state, frames, running, validator>>
    BY <1>7 DEF DataByte, ClosedByLength
  <2>4. Len(frame) = IF pos - 1 <= MaxChannels THEN pos - 1 ELSE MaxChannels
    BY <1>1, <1>3, <2>1, <2>2, StoredLength
  <2>5. frame' = Stored(packet, pos)
    <3>1. IF pos - 1 < MaxChannels THEN Append(Stored(packet, pos - 1), packet.data[pos - 1 + 1]) = Stored(packet, pos - 1 + 1)
                                   ELSE Stored(packet, pos - 1) = Stored(packet, pos - 1 + 1)
      BY <1>1, <2>2, StoreNext
    <3>2. pos - 1 + 1 = pos /\ (Len(frame) < MaxChannels <=> pos - 1 < MaxChannels)
      BY <1>1, <1>3, <1>5, <2>4
    <3> QED BY <2>1, <2>2, <2>3, <3>1, <3>2 DEF Store
  <2>6. frame' = Stored(packet', pos' - 1)
    <3>1. pos' - 1 = pos
      BY <1>1, <1>3
    <3> QED BY <1>3, <2>5, <3>1
  <2>7. frame' \in Seq(Byte) /\ Len(frame') <= MaxChannels
    BY <1>1, <1>3, <1>5, <2>5, StoredLength
  <2>8. InPacket'
    BY <1>3, <1>4, <2>1, <2>3, <2>6 DEF InPacket
  <2>9. TypeOK'
    BY <1>3, <1>4, <2>3, <2>7 DEF DriverInv, TypeOK, RxTypeOK, validator
  <2> QED BY <2>8, <2>9 DEF DriverInv
<1>8. CASE TrailerByte(b)
  BY <1>8 DEF TrailerByte, DriverInv, InPacket
<1>9. CASE IgnoredByte(b)
  <2>1. state = "waitBreak" /\ UNCHANGED rxVars
    BY <1>9 DEF IgnoredByte
  <2>2. InPacket'
    BY <1>1, <1>3, <1>4, <2>1 DEF InPacket, DriverInv, rxVars
  <2>3. TypeOK'
    BY <1>3, <1>4, <2>1 DEF DriverInv, TypeOK, RxTypeOK, rxVars, validator
  <2> QED BY <2>2, <2>3 DEF DriverInv
<1> QED BY <1>6, <1>7, <1>8, <1>9 DEF Slot, OnByte

LEMMA BadSlotKeeps ==
  ASSUME ~InferBreaks, DriverInv, BadSlot
  PROVE  DriverInv'
<1>1. /\ state' = "waitBreak" /\ frame' = <<>> /\ intact' = FALSE /\ pos' = pos + 1
      /\ UNCHANGED <<running, validator, frames, packet, spurious>>
      /\ pos < Len(Slots(packet))
  BY DEF BadSlot, OnError, Resync
<1>2. Len(packet.data) \in Nat /\ Len(Slots(packet)) = Len(packet.data) + 1
  BY PacketParts, DriverSlots DEF DriverInv, TypeOK
<1>3. InPacket'
  BY <1>1 DEF InPacket
<1>4. frame' \in Seq(Byte) /\ Len(frame') <= MaxChannels
  BY <1>1, LineAssumption DEF LineAssumption
<1>5. pos' \in 0..Len(Slots(packet))
  BY <1>1, <1>2 DEF DriverInv, TypeOK
<1>6. TypeOK'
  BY <1>1, <1>4, <1>5 DEF DriverInv, TypeOK, RxTypeOK, RxState, validator
<1> QED BY <1>3, <1>6 DEF DriverInv

\* What a break publishes: the packet that ends, if it was followed to its end
\* and has any channels.
LEMMA BreakPublishes ==
  ASSUME ~InferBreaks, DriverInv, BreakReported
  PROVE  /\ frames' = IF intact /\ packet.start = StartCodeDMX /\ packet.data # <<>>
                      THEN TrySend(frames, FramesCap, Channels(packet)) ELSE frames
         /\ state' = "waitStartCode" /\ frame' = <<>>
         /\ UNCHANGED <<running, validator>>
<1>1. /\ packet \in Packets /\ packet.data \in Seq(Byte) /\ Len(packet.data) \in Nat
  BY PacketParts DEF DriverInv, TypeOK
<1>2. pos = Len(packet.data) + 1
  BY <1>1, DriverSlots DEF BreakReported, NextPacket
<1>3. CASE intact /\ packet.start = StartCodeDMX
  <2>1. state = "readData" /\ frame = Stored(packet, pos - 1)
    BY <1>1, <1>2, <1>3 DEF DriverInv, InPacket
  <2>2. frame = Channels(packet)
    <3>1. pos - 1 = Len(packet.data)
      BY <1>1, <1>2
    <3> QED BY <1>1, <2>1, <3>1, StoredAll
  <2>3. frame = <<>> <=> packet.data = <<>>
    <3>1. MaxChannels \in Nat /\ MaxChannels > 0
      BY LineAssumption DEF LineAssumption
    <3>2. Len(frame) = IF Len(packet.data) <= MaxChannels THEN Len(packet.data) ELSE MaxChannels
      <4>1. Len(packet.data) \in 0..Len(packet.data)
        BY <1>1
      <4>2. frame = Stored(packet, Len(packet.data))
        BY <1>1, <2>2, StoredAll
      <4> QED BY <1>1, <4>1, <4>2, StoredLength
    <3>3. frame \in Seq(Byte)
      BY DEF DriverInv, TypeOK, RxTypeOK
    <3> QED BY <1>1, <3>1, <3>2, <3>3, EmptySeq
  <2>4. CASE frame # <<>>
    <3>1. BreakAfterData
      BY <2>1, <2>4 DEF BreakReported, OnBreak, BreakWhileLocked, BreakElsewhere, LengthDrives
    <3> QED BY <1>3, <2>2, <2>3, <2>4, <3>1
            DEF BreakAfterData, Publish, Boundary, NextFrame, Classify
  <2>5. CASE frame = <<>>
    <3>1. BreakElsewhere
      BY <2>5 DEF BreakReported, OnBreak, BreakWhileLocked, BreakAfterData, LengthDrives
    <3> QED BY <2>3, <2>5, <3>1 DEF BreakElsewhere, NextFrame
  <2> QED BY <2>4, <2>5
<1>4. CASE ~(intact /\ packet.start = StartCodeDMX)
  <2>1. state # "readData"
    BY <1>4 DEF DriverInv, InPacket
  <2>2. BreakElsewhere
    BY <2>1 DEF BreakReported, OnBreak, BreakWhileLocked, BreakAfterData, LengthDrives
  <2> QED BY <1>4, <2>2 DEF BreakElsewhere, NextFrame
<1> QED BY <1>3, <1>4

LEMMA BreakKeeps ==
  ASSUME ~InferBreaks, DriverInv, BreakReported
  PROVE  DriverInv'
<1>1. /\ frames' = IF intact /\ packet.start = StartCodeDMX /\ packet.data # <<>>
                   THEN TrySend(frames, FramesCap, Channels(packet)) ELSE frames
      /\ state' = "waitStartCode" /\ frame' = <<>>
      /\ UNCHANGED <<running, validator>>
  BY BreakPublishes
<1>2. packet' \in Packets /\ pos' = 0 /\ intact' = TRUE /\ UNCHANGED spurious
  BY DEF BreakReported, NextPacket
<1>3. InPacket'
  BY <1>1, <1>2 DEF InPacket
<1>4. packet \in Packets /\ packet.data \in Seq(Byte) /\ Len(packet.data) \in Nat
  BY PacketParts DEF DriverInv, TypeOK
<1>5. Channels(packet) \in Seq(Byte)
  <2>1. Len(packet.data) \in 0..Len(packet.data)
    BY <1>4
  <2> QED BY <1>4, <2>1, StoredAll, StoredLength
<1>6. frames' \in Seq(Seq(Byte)) /\ Len(frames') <= FramesCap
  <2>1. FramesCap \in Nat
    BY ReceiverAssumption DEF ReceiverAssumption
  <2>2. /\ TrySend(frames, FramesCap, Channels(packet)) \in Seq(Seq(Byte))
        /\ Len(TrySend(frames, FramesCap, Channels(packet))) <= FramesCap
    BY <1>5, <2>1, SendKeepsSeq DEF DriverInv, TypeOK, RxTypeOK
  <2> QED BY <1>1, <2>2 DEF DriverInv, TypeOK, RxTypeOK
<1>7. frame' \in Seq(Byte) /\ Len(frame') <= MaxChannels
  BY <1>1, LineAssumption DEF LineAssumption
<1>8. pos' \in 0..Len(Slots(packet'))
  <2>1. Len(packet'.data) \in Nat /\ Len(Slots(packet')) = Len(packet'.data) + 1
    BY <1>2, PacketParts, DriverSlots
  <2> QED BY <1>2, <2>1
<1>9. TypeOK'
  BY <1>1, <1>2, <1>6, <1>7, <1>8 DEF DriverInv, TypeOK, RxTypeOK, RxState, validator
<1> QED BY <1>3, <1>9 DEF DriverInv

LEMMA OthersKeep ==
  ASSUME DriverInv, \/ Stop /\ UNCHANGED lineVars
                    \/ Take /\ UNCHANGED lineVars
                    \/ UNCHANGED vars
  PROVE  DriverInv'
<1>1. UNCHANGED <<state, frame, validator, lineVars>>
  BY DEF Stop, Take, vars, rxVars
<1>2. InPacket'
  BY <1>1 DEF DriverInv, InPacket, lineVars
<1>3. running' \in BOOLEAN
  BY DEF Stop, Take, vars, rxVars, DriverInv, TypeOK, RxTypeOK
<1>4. frames' \in Seq(Seq(Byte)) /\ Len(frames') <= FramesCap
  <2>1. frames \in Seq(Seq(Byte)) /\ Len(frames) <= FramesCap /\ FramesCap \in Nat
    BY ReceiverAssumption DEF ReceiverAssumption, DriverInv, TypeOK, RxTypeOK
  <2>2. CASE UNCHANGED frames
    BY <2>1, <2>2
  <2>3. CASE frames # <<>> /\ frames' = Tail(frames)
    BY <2>1, <2>3
  <2> QED BY <2>2, <2>3 DEF Stop, Take, vars, rxVars
<1>5. TypeOK'
  BY <1>1, <1>3, <1>4 DEF DriverInv, TypeOK, RxTypeOK, lineVars, validator
<1> QED BY <1>2, <1>5 DEF DriverInv

----------------------------------------------------------------------------
(* The theorems.                                                           *)

\* The invariant behind both results: where the driver reports breaks, the
\* receiver of runWithBreakDetect is in step with every intact packet.
THEOREM DriverInvariant ==
  ASSUME ~InferBreaks
  PROVE  Spec => []DriverInv
<1>1. Init => DriverInv
  BY InitDriver
<1>2. DriverInv /\ [Next]_vars => DriverInv'
  <2> SUFFICES ASSUME DriverInv, [Next]_vars PROVE DriverInv'
    OBVIOUS
  <2>1. ~BreakMissed /\ ~SpuriousBreak
    BY DEF BreakMissed, SpuriousBreak
  <2> QED BY <2>1, SlotKeeps, BadSlotKeeps, BreakKeeps, OthersKeep DEF Next
<1> QED BY <1>1, <1>2, PTL DEF Spec

\* What a driver that reports breaks makes of any line: a frame is published
\* when the break of a DMX packet arrives, with that packet's channels.
THEOREM PublishesPackets ==
  ASSUME ~InferBreaks
  PROVE  Spec => PublishedIsPacket
<1>1. DriverInv /\ [Next]_vars =>
        [Len(frames') > Len(frames) /\ ~spurious =>
           packet.start = StartCodeDMX /\ frames'[Len(frames')] = Channels(packet)]_vars
  <2> SUFFICES ASSUME DriverInv, Next, Len(frames') > Len(frames)
               PROVE  packet.start = StartCodeDMX /\ frames'[Len(frames')] = Channels(packet)
    OBVIOUS
  <2>1. frames \in Seq(Seq(Byte)) /\ Len(frames) \in Nat
    BY DEF DriverInv, TypeOK, RxTypeOK
  <2>2. CASE UNCHANGED frames
    BY <2>1, <2>2
  <2>3. CASE BreakReported
    <3>1. frames' = TrySend(frames, FramesCap, Channels(packet)) /\ packet.start = StartCodeDMX
      BY <2>1, <2>3, BreakPublishes
    <3>2. frames' = Append(frames, Channels(packet))
      BY <2>1, <3>1 DEF TrySend
    <3> QED BY <2>1, <3>1, <3>2
  <2>4. CASE Take
    <3>1. frames # <<>> /\ frames' = Tail(frames)
      BY <2>4 DEF Take
    <3> QED BY <2>1, <3>1
  <2>5. Slot => UNCHANGED frames
    BY DEF Slot, OnByte, StartCodeByte, DataByte, TrailerByte, IgnoredByte, ClosedByLength, rxVars
  <2>6. BadSlot \/ Stop => UNCHANGED frames
    BY DEF BadSlot, OnError, Stop
  <2>7. ~BreakMissed /\ ~SpuriousBreak
    BY DEF BreakMissed, SpuriousBreak
  <2> QED BY <2>2, <2>3, <2>4, <2>5, <2>6, <2>7 DEF Next
<1> QED BY <1>1, DriverInvariant, PTL DEF Spec, PublishedIsPacket

\* And it misses none: every DMX packet that arrives without an error is offered
\* to the forwarder when its break arrives, whatever came before it.
THEOREM PublishesIntact ==
  ASSUME ~InferBreaks
  PROVE  Spec => IntactIsPublished
<1>1. DriverInv /\ [Next]_vars =>
        [pos # 0 /\ pos' = 0 /\ ~InferBreaks =>
           frames' = IF intact /\ packet.start = StartCodeDMX /\ packet.data # <<>>
                     THEN TrySend(frames, FramesCap, Channels(packet))
                     ELSE frames]_vars
  <2> SUFFICES ASSUME DriverInv, Next, pos # 0, pos' = 0
               PROVE  frames' = IF intact /\ packet.start = StartCodeDMX /\ packet.data # <<>>
                                THEN TrySend(frames, FramesCap, Channels(packet))
                                ELSE frames
    OBVIOUS
  <2>1. ~Slot /\ ~BadSlot
    <3>1. packet \in Packets /\ Len(packet.data) \in Nat
      BY PacketParts DEF DriverInv, TypeOK
    <3>2. pos \in Nat
      BY <3>1, DriverSlots DEF DriverInv, TypeOK
    <3> QED BY <3>2 DEF Slot, BadSlot
  <2>2. ~BreakMissed /\ ~SpuriousBreak
    BY DEF BreakMissed, SpuriousBreak
  <2>3. ~UNCHANGED lineVars
    BY DEF lineVars
  <2> QED BY <2>1, <2>2, <2>3, BreakPublishes DEF Next
<1> QED BY <1>1, DriverInvariant, PTL DEF Spec, IntactIsPublished

----------------------------------------------------------------------------
(* Breaks inferred from short reads.                                       *)

LEMMA SlotInStep ==
  ASSUME InferBreaks, TypeInv, locked > 0, locked = Len(packet.data), InStep, Slot
  PROVE  /\ InStep' \/ state' = "waitBreak"
         /\ \/ UNCHANGED frames
            \/ frames' = TrySend(frames, FramesCap, packet.data) /\ packet.start = StartCodeDMX
<1>1. /\ packet \in Packets /\ packet.data \in Seq(Byte) /\ Len(packet.data) \in Nat
      /\ pos \in Nat /\ frame \in Seq(Byte) /\ MaxChannels \in Nat /\ locked <= MaxChannels
  <2>1. packet \in Packets /\ pos \in 0..Len(Slots(packet)) /\ frame \in Seq(Byte) /\ locked \in 0..MaxChannels
    BY DEF TypeInv, TypeOK, RxTypeOK
  <2>2. packet.data \in Seq(Byte) /\ Len(packet.data) \in Nat
    BY <2>1, PacketParts
  <2> QED BY <2>1, <2>2, SlotCount, LineAssumption DEF LineAssumption
<1>2. /\ Len(Slots(packet)) = Len(packet.data) + 2 /\ Slots(packet)[1] = packet.start
      /\ \A i \in 1..Len(packet.data) : Slots(packet)[i + 1] = packet.data[i]
  BY <1>1, SlotCount
<1>3. pos < Len(packet.data) + 2 /\ pos' = pos + 1 /\ packet' = packet /\ OnByte(Slots(packet)[pos + 1])
  BY <1>2 DEF Slot
<1>4. CASE state = "waitStartCode"
  <2>1. pos = 0 /\ frame = <<>>
    BY <1>2, <1>3, <1>4 DEF InStep, TypeInv
  <2>2. StartCodeByte(packet.start)
    BY <1>2, <1>3, <1>4, <2>1 DEF OnByte, DataByte, TrailerByte, IgnoredByte
  <2>3. CASE packet.start = StartCodeDMX
    <3>1. state' = "readData" /\ frame' = <<>> /\ pos' = 1
      BY <1>3, <2>1, <2>2, <2>3 DEF StartCodeByte
    <3>2. SubSeq(packet.data, 1, 0) = <<>> /\ Len(<<>>) = 0
      BY <1>1
    <3> QED BY <1>1, <1>3, <2>2, <2>3, <3>1, <3>2 DEF InStep, StartCodeByte
  <2> QED BY <2>2, <2>3 DEF StartCodeByte
<1>5. CASE state = "readData"
  <2> DEFINE n == Len(frame)
             b == packet.data[n + 1]
  <2>1. /\ packet.start = StartCodeDMX /\ pos = n + 1 /\ n \in 0..(Len(packet.data) - 1)
        /\ frame = SubSeq(packet.data, 1, n)
    BY <1>1, <1>5 DEF InStep
  <2>2. DataByte(b)
    <3>1. n + 1 \in 1..Len(packet.data)
      BY <1>1, <2>1
    <3>2. Slots(packet)[pos + 1] = b
      BY <1>2, <2>1, <3>1
    <3> HIDE DEF b
    <3> QED BY <1>3, <1>5, <3>2 DEF OnByte, StartCodeByte, TrailerByte, IgnoredByte
  <2>3. Store(b) = SubSeq(packet.data, 1, n + 1) /\ Len(Store(b)) = n + 1
    <3>1. Store(b) = Append(frame, b)
      BY <1>1, <2>1 DEF Store
    <3>2. Append(SubSeq(packet.data, 1, n), packet.data[n + 1]) = SubSeq(packet.data, 1, n + 1)
      BY <1>1, <2>1
    <3>3. Len(SubSeq(packet.data, 1, n + 1)) = n + 1
      BY <1>1, <2>1
    <3> QED BY <2>1, <3>1, <3>2, <3>3
  <2> HIDE DEF b
  <2>4. CASE n + 1 = Len(packet.data)
    <3>1. Store(b) = packet.data
      BY <1>1, <2>3, <2>4, SubSeqFull
    <3>2. ClosedByLength(Store(b))
      BY <2>3, <2>4 DEF ClosedByLength
    <3>3. state' = "skipTrailer" /\ frames' = TrySend(frames, FramesCap, packet.data)
      BY <2>2, <3>1, <3>2 DEF DataByte, ExpectTrailer
    <3> QED BY <1>1, <1>3, <2>1, <2>4, <3>3 DEF InStep
  <2>5. CASE n + 1 # Len(packet.data)
    <3>1. ~ClosedByLength(Store(b))
      BY <2>3, <2>5 DEF ClosedByLength
    <3>2. frame' = SubSeq(packet.data, 1, n + 1) /\ Len(frame') = n + 1 /\ UNCHANGED <<state, frames>>
      BY <2>2, <2>3, <3>1 DEF DataByte
    <3>3. pos' = Len(frame') + 1 /\ Len(frame') < Len(packet'.data)
      BY <1>1, <1>3, <2>1, <2>5, <3>2
    <3> QED BY <1>3, <1>5, <2>1, <3>2, <3>3 DEF InStep
  <2> QED BY <2>4, <2>5
<1>6. CASE state = "skipTrailer"
  <2>1. state' = "waitStartCode" /\ UNCHANGED frames
    BY <1>3, <1>6 DEF OnByte, StartCodeByte, DataByte, TrailerByte, IgnoredByte
  <2>2. pos' = Len(packet.data) + 2
    BY <1>1, <1>3, <1>6 DEF InStep
  <2> QED BY <1>2, <1>3, <2>1, <2>2 DEF InStep
<1> QED BY <1>4, <1>5, <1>6 DEF InStep

\* A receiver that is in step at the end of a packet waits for the next one.
LEMMA BoundaryInStep ==
  ASSUME InferBreaks, TypeInv, InStep, locked = Len(packet.data), NextPacket,
         state' = state \/ (InferBreaks /\ locked > 0 /\ BreakWhileLocked)
  PROVE  state' = "waitStartCode" /\ InStep'
<1>1. packet \in Packets /\ Len(packet.data) \in Nat /\ Len(Slots(packet)) = Len(packet.data) + 2
  BY SlotCount, PacketParts DEF TypeInv, TypeOK
<1>2. pos = Len(packet.data) + 2 /\ pos' = 0
  BY <1>1 DEF NextPacket
<1>3. state = "waitStartCode"
  BY <1>1, <1>2 DEF InStep, TypeInv, TypeOK, RxTypeOK
<1>4. state' = "waitStartCode"
  BY <1>3 DEF BreakWhileLocked, Recover
<1> QED BY <1>2, <1>4 DEF InStep

\* With a lock on the length of the source's packets, breaks that are missed or
\* made up do not move the receiver: only an error makes it wait for a break.
THEOREM KeepsStep == Spec => LengthKeepsStep
<1>1. TypeInv /\ [Next]_vars =>
        [InferBreaks /\ locked > 0 /\ locked = Len(packet.data) /\ InStep
           => InStep' \/ state' = "waitBreak"]_vars
  <2> SUFFICES ASSUME TypeInv, Next, InferBreaks, locked > 0, locked = Len(packet.data), InStep
               PROVE  InStep' \/ state' = "waitBreak"
    OBVIOUS
  <2>1. LengthDrives
    BY DEF LengthDrives
  <2>2. CASE Slot
    BY <2>2, SlotInStep
  <2>3. CASE BadSlot
    BY <2>3 DEF BadSlot, OnError, Resync
  <2>4. OnBreak => BreakWhileLocked
    BY <2>1 DEF OnBreak, BreakAfterData, BreakElsewhere
  <2>5. CASE BreakReported
    BY <2>4, <2>5, BoundaryInStep DEF BreakReported
  <2>6. CASE BreakMissed
    BY <2>6, BoundaryInStep DEF BreakMissed, rxVars
  <2>7. CASE SpuriousBreak
    <3>1. state' = (IF state = "waitBreak" THEN "waitStartCode" ELSE state) /\ UNCHANGED <<frame, packet, pos>>
      BY <2>4, <2>7 DEF SpuriousBreak, BreakWhileLocked, Recover
    <3> QED BY <3>1 DEF InStep
  <2>8. CASE (Stop \/ Take) /\ UNCHANGED lineVars
    <3>1. UNCHANGED <<state, frame, packet, pos>>
      BY <2>8 DEF Stop, Take, lineVars
    <3> QED BY <3>1 DEF InStep
  <2> QED BY <2>2, <2>3, <2>5, <2>6, <2>7, <2>8 DEF Next
<1> QED BY <1>1, TypeInvariant, PTL DEF Spec, LengthKeepsStep

\* The invariant of a line of full packets, until a read ends within a packet:
\* only full frames are voted on, and a locked receiver is in step or waits for
\* a break.
FullInv ==
  ~spurious =>
    /\ locked \in {0, MaxChannels}
    /\ \A l \in FrameLength : l # MaxChannels => votes[l] = 0
    /\ locked # 0 => InStep \/ state = "waitBreak"
    /\ locked = 0 => /\ state # "skipTrailer"
                     /\ state = "waitStartCode" => pos = 0
                     /\ state = "readData" => Len(frame) \in {MaxChannels, pos - 1}

FullPackets == \A p \in Packets : Len(p.data) = MaxChannels

\* Votes for one length only elect it.
LEMMA SoleWinner ==
  ASSUME NEW count \in [FrameLength -> Nat], NEW n \in FrameLength, count[n] > 0,
         \A l \in FrameLength : l # n => count[l] = 0
  PROVE  Winner(count) = n
<1> DEFINE Wins(l) == \A k \in FrameLength : count[k] < count[l] \/ (count[k] = count[l] /\ k <= l)
<1>1. Wins(n)
  <2> SUFFICES ASSUME NEW k \in FrameLength PROVE count[k] < count[n] \/ (count[k] = count[n] /\ k <= n)
    OBVIOUS
  <2>1. n \in Int
    BY LineAssumption DEF LineAssumption, FrameLength
  <2>2. CASE k = n
    BY <2>1, <2>2
  <2>3. CASE k # n
    BY <2>3
  <2> QED BY <2>2, <2>3
<1>2. ASSUME NEW l \in FrameLength, Wins(l) PROVE l = n
  <2>1. count[n] <= count[l]
    BY <1>2
  <2> QED BY <2>1
<1>3. Winner(count) = CHOOSE l \in FrameLength : Wins(l)
  BY DEF Winner
<1> HIDE DEF Wins
<1> QED BY <1>1, <1>2, <1>3

\* Where breaks are inferred, it is the length that publishes, and no break.
LEMMA BreakIsSilent ==
  ASSUME InferBreaks, TypeInv, OnBreak
  PROVE  UNCHANGED frames
<1>1. locked \in Nat
  BY LineAssumption DEF LineAssumption, TypeInv, TypeOK, RxTypeOK
<1> QED BY <1>1 DEF OnBreak, BreakWhileLocked, BreakAfterData, BreakElsewhere, LengthDrives, Publish

LEMMA FullStep ==
  ASSUME InferBreaks, FullPackets, TypeInv, FullInv, [Next]_vars
  PROVE  FullInv'
<1>1. /\ packet \in Packets /\ Len(packet.data) = MaxChannels /\ Len(Slots(packet)) = MaxChannels + 2
      /\ MaxChannels \in Nat /\ MaxChannels > 0 /\ pos \in 0..(MaxChannels + 2)
      /\ frame \in Seq(Byte) /\ Len(frame) \in 0..MaxChannels
  <2>1. packet \in Packets /\ pos \in 0..Len(Slots(packet)) /\ frame \in Seq(Byte) /\ Len(frame) <= MaxChannels
    BY DEF TypeInv, TypeOK, RxTypeOK
  <2>2. Len(Slots(packet)) = MaxChannels + 2 /\ Len(packet.data) = MaxChannels
    BY <2>1, SlotCount DEF FullPackets
  <2> QED BY <2>1, <2>2, LineAssumption DEF LineAssumption
<1>2. CASE spurious'
  BY <1>2 DEF FullInv
<1> SUFFICES ASSUME ~spurious' PROVE FullInv'
  BY <1>2
<1>3. ~spurious
  BY DEF Next, Slot, BadSlot, BreakReported, BreakMissed, SpuriousBreak, NextPacket, vars, lineVars
<1>4. CASE Slot
  <2>1. UNCHANGED validator /\ pos' = pos + 1 /\ pos < MaxChannels + 2 /\ packet' = packet
        /\ OnByte(Slots(packet)[pos + 1])
    BY <1>1, <1>4 DEF Slot, OnByte, StartCodeByte, DataByte, TrailerByte, IgnoredByte, rxVars
  <2>2. CASE locked # 0
    <3>1. locked = Len(packet.data) /\ locked > 0
      BY <1>1, <1>3, <2>2 DEF FullInv
    <3>2. CASE InStep
      BY <1>3, <1>4, <2>1, <2>2, <3>1, <3>2, SlotInStep DEF FullInv, validator
    <3>3. CASE state = "waitBreak"
      <4>1. state' = "waitBreak"
        BY <2>1, <3>3 DEF OnByte, StartCodeByte, DataByte, TrailerByte, IgnoredByte, rxVars
      <4> QED BY <1>3, <2>1, <2>2, <4>1 DEF FullInv, validator
    <3> QED BY <1>3, <2>2, <3>2, <3>3 DEF FullInv
  <2>3. CASE locked = 0
    <3> DEFINE b == Slots(packet)[pos + 1]
    <3>1. CASE StartCodeByte(b)
      <4>1. pos' = 1 /\ frame' = <<>> /\ state' \in {"readData", "waitBreak"}
        BY <1>3, <2>1, <2>3, <3>1 DEF StartCodeByte, FullInv, TypeInv
      <4>2. Len(frame') = pos' - 1
        BY <4>1
      <4> QED BY <1>3, <2>1, <2>3, <4>1, <4>2 DEF FullInv, validator
    <3>2. CASE DataByte(b)
      <4>1. frame' = Store(b) /\ state' = "readData" /\ Len(frame) \in {MaxChannels, pos - 1}
        BY <1>3, <2>3, <3>2 DEF DataByte, ClosedByLength, FullInv
      <4>2. Len(frame') \in {MaxChannels, pos' - 1}
        <5>1. CASE Len(frame) = MaxChannels
          BY <4>1, <5>1 DEF Store
        <5>2. CASE Len(frame) # MaxChannels
          <6>1. Len(frame') = Len(frame) + 1
            BY <1>1, <4>1, <5>2 DEF Store
          <6> QED BY <1>1, <2>1, <4>1, <5>2, <6>1
        <5> QED BY <5>1, <5>2
      <4> QED BY <1>3, <2>1, <2>3, <4>1, <4>2 DEF FullInv, validator
    <3>3. ~TrailerByte(b)
      BY <1>3, <2>3 DEF TrailerByte, FullInv
    <3>4. CASE IgnoredByte(b)
      BY <1>3, <2>1, <2>3, <3>4 DEF IgnoredByte, FullInv, rxVars, validator
    <3> QED BY <2>1, <3>1, <3>2, <3>3, <3>4 DEF OnByte
  <2> QED BY <2>2, <2>3
<1>5. CASE BadSlot
  <2>1. state' = "waitBreak" /\ UNCHANGED validator
    BY <1>5 DEF BadSlot, OnError, Resync
  <2> QED BY <1>3, <2>1 DEF FullInv, validator
<1>6. CASE BreakReported
  <2>1. pos = MaxChannels + 2 /\ pos' = 0 /\ OnBreak /\ NextPacket
    BY <1>1, <1>6 DEF BreakReported, NextPacket
  <2>2. CASE locked # 0
    <3>1. locked = Len(packet.data) /\ locked > 0 /\ BreakWhileLocked
      BY <1>1, <1>3, <2>1, <2>2 DEF FullInv, OnBreak, BreakAfterData, BreakElsewhere, LengthDrives
    <3>2. state' = "waitStartCode"
      <4>1. CASE InStep
        BY <2>1, <3>1, <4>1, BoundaryInStep
      <4>2. CASE state = "waitBreak"
        BY <3>1, <4>2 DEF BreakWhileLocked, Recover
      <4> QED BY <1>3, <2>2, <4>1, <4>2 DEF FullInv
    <3>3. InStep' /\ UNCHANGED validator
      BY <2>1, <3>1, <3>2 DEF InStep, BreakWhileLocked
    <3> QED BY <1>3, <2>2, <3>3 DEF FullInv, validator
  <2>3. CASE locked = 0
    <3>1. state' = "waitStartCode" /\ ~BreakWhileLocked
      <4>1. ~LengthDrives /\ (BreakAfterData => Boundary(Len(frame)))
        BY <2>3 DEF LengthDrives, Boundary
      <4> QED BY <2>1, <4>1 DEF OnBreak, BreakWhileLocked, BreakAfterData, BreakElsewhere, NextFrame
    <3>2. InStep'
      BY <2>1, <3>1 DEF InStep
    <3>3. CASE BreakElsewhere
      BY <1>3, <2>1, <2>3, <3>1, <3>3 DEF BreakElsewhere, FullInv, validator
    <3>4. CASE BreakAfterData
      <4>1. Len(frame) = MaxChannels
        BY <1>1, <1>3, <2>1, <2>3, <3>4 DEF BreakAfterData, FullInv
      <4>2. Vote(MaxChannels)
        BY <2>3, <3>4, <4>1 DEF BreakAfterData, Classify
      <4>3. /\ votes \in [FrameLength -> Nat] /\ MaxChannels \in FrameLength
            /\ \A l \in FrameLength : l # MaxChannels => votes[l] = 0
        <5>1. votes \in [FrameLength -> 0..VoteWindow] /\ VoteWindow \in Nat
          BY ReceiverAssumption DEF ReceiverAssumption, TypeInv, TypeOK, RxTypeOK
        <5> QED BY <1>1, <1>3, <5>1 DEF FullInv, FrameLength
      <4> DEFINE count == Counted(MaxChannels)
      <4>4. /\ count \in [FrameLength -> Nat] /\ count[MaxChannels] > 0
            /\ \A l \in FrameLength : l # MaxChannels => count[l] = 0
        BY <4>3 DEF Counted
      <4> HIDE DEF count
      <4>5. Winner(count) = MaxChannels
        BY <4>3, <4>4, SoleWinner
      <4>6. locked' \in {0, MaxChannels} /\ votes' \in {NoVotes, count}
        BY <2>3, <4>2, <4>5 DEF Vote, count
      <4>7. \A l \in FrameLength : l # MaxChannels => votes'[l] = 0
        BY <4>4, <4>6 DEF NoVotes
      <4> QED BY <2>1, <3>1, <3>2, <4>6, <4>7 DEF FullInv
    <3> QED BY <2>1, <3>1, <3>3, <3>4 DEF OnBreak
  <2> QED BY <2>2, <2>3
<1>7. CASE BreakMissed
  <2>1. pos = MaxChannels + 2 /\ pos' = 0 /\ NextPacket /\ UNCHANGED <<state, frame, validator>>
    BY <1>1, <1>7 DEF BreakMissed, NextPacket, rxVars
  <2>2. CASE locked # 0
    <3>1. locked = Len(packet.data)
      BY <1>1, <1>3, <2>2 DEF FullInv
    <3>2. InStep' \/ state' = "waitBreak"
      BY <1>3, <2>1, <2>2, <3>1, BoundaryInStep DEF FullInv
    <3> QED BY <1>3, <2>1, <2>2, <3>2 DEF FullInv, validator
  <2>3. CASE locked = 0
    <3>1. state = "readData" => Len(frame) = MaxChannels
      BY <1>1, <1>3, <2>1, <2>3 DEF FullInv
    <3> QED BY <1>3, <2>1, <2>3, <3>1 DEF FullInv, validator
  <2> QED BY <2>2, <2>3
<1>8. ~SpuriousBreak
  BY DEF SpuriousBreak
<1>9. CASE UNCHANGED <<state, frame, validator, lineVars>>
  BY <1>3, <1>9 DEF FullInv, InStep, validator, lineVars
<1> QED BY <1>4, <1>5, <1>6, <1>7, <1>8, <1>9 DEF Next, Stop, Take, vars, rxVars

\* Where breaks are inferred and sources send full packets, every frame that is
\* published has the channels of the packet on the line: whatever breaks were
\* missed, whatever slots damaged, until a read ends within a packet.
THEOREM PublishesFull ==
  ASSUME InferBreaks, FullPackets
  PROVE  Spec => PublishedIsPacket
<1>1. Init => FullInv
  <2> SUFFICES ASSUME Init PROVE FullInv
    OBVIOUS
  <2>1. \A l \in FrameLength : NoVotes[l] = 0
    BY DEF NoVotes
  <2> QED BY <2>1 DEF Init, RxInit, FullInv
<1>2. TypeInv /\ FullInv /\ [Next]_vars => FullInv'
  BY FullStep
<1>3. TypeInv /\ FullInv /\ [Next]_vars =>
        [Len(frames') > Len(frames) /\ ~spurious =>
           packet.start = StartCodeDMX /\ frames'[Len(frames')] = Channels(packet)]_vars
  <2> SUFFICES ASSUME TypeInv, FullInv, Next, Len(frames') > Len(frames), ~spurious
               PROVE  packet.start = StartCodeDMX /\ frames'[Len(frames')] = Channels(packet)
    OBVIOUS
  <2>1. frames \in Seq(Seq(Byte)) /\ Len(frames) \in Nat
    BY DEF TypeInv, TypeOK, RxTypeOK
  <2>2. frames' # frames
    BY <2>1
  <2>3. ~Take
    <3>1. frames # <<>> => Len(Tail(frames)) <= Len(frames)
      BY <2>1
    <3> QED BY <2>1, <3>1 DEF Take
  <2>4. ~OnBreak
    BY <2>2, BreakIsSilent
  <2>5. Slot
    BY <2>2, <2>3, <2>4 DEF Next, BadSlot, OnError, BreakReported, BreakMissed, SpuriousBreak, Stop, rxVars
  <2>6. packet \in Packets /\ Len(packet.data) = MaxChannels /\ MaxChannels \in Nat \ {0}
    BY LineAssumption DEF LineAssumption, TypeInv, TypeOK, FullPackets
  <2>7. locked = Len(packet.data) /\ locked > 0 /\ InStep
    <3>1. DataByte(Slots(packet)[pos + 1])
      BY <2>2, <2>5 DEF Slot, OnByte, StartCodeByte, TrailerByte, IgnoredByte, rxVars
    <3>2. locked > 0
      BY <2>2, <3>1 DEF DataByte, ClosedByLength
    <3> QED BY <2>6, <3>1, <3>2 DEF FullInv, DataByte
  <2>8. frames' = TrySend(frames, FramesCap, packet.data) /\ packet.start = StartCodeDMX
    BY <2>2, <2>5, <2>7, SlotInStep
  <2>9. frames' = Append(frames, packet.data)
    BY <2>2, <2>8 DEF TrySend
  <2>10. Channels(packet) = packet.data
    BY <2>6 DEF Channels
  <2> QED BY <2>1, <2>8, <2>9, <2>10
<1> QED BY <1>1, <1>2, <1>3, TypeInvariant, PTL DEF Spec, PublishedIsPacket
=============================================================================
