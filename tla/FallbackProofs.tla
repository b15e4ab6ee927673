--------------------------- MODULE FallbackProofs ----------------------------
(***************************************************************************)
(* The receiver that hunts for its alignment.  First its types, on any     *)
(* line and for reads of any length.  Then that a receiver in step remains *)
(* so, whatever DMX packets hold.  Last that the hunt ends in step, from   *)
(* whatever point the line is joined, if no channel is at zero.            *)
(***************************************************************************)
EXTENDS FallbackReceiver, SequenceTheorems, WellFoundedInduction, TLAPS

----------------------------------------------------------------------------
(* Types.                                                                  *)

\* A set of numbers that is not empty has a least, which Min finds.
LEMMA MinOfNumbers ==
  ASSUME NEW S \in SUBSET Nat, S # {}
  PROVE  Min(S) \in S /\ \A y \in S : Min(S) <= y
<1>1. PICK m \in S : \A y \in S : ~ (<<y, m>> \in OpToRel(<, Nat))
  BY NatLessThanWellFounded, WFMin
<1>2. OpToRel(<, Nat) = {p \in Nat \X Nat : p[1] < p[2]}
  BY DEF OpToRel
<1>3. ASSUME NEW y \in S PROVE m <= y
  <2>1. m \in Nat /\ y \in Nat
    OBVIOUS
  <2>2. ~ (y < m)
    BY <1>1, <1>2, <2>1
  <2> QED BY <2>1, <2>2
<1>4. Min(S) = CHOOSE x \in S : \A y \in S : x <= y
  BY DEF Min
<1> QED BY <1>3, <1>4

LEMMA Sizes == /\ MaxChannels \in Nat /\ MaxChannels > 0 /\ PacketSize \in Nat /\ PacketSize = MaxChannels + 1
               /\ ChunkMax \in Nat /\ ChunkMax > 0 /\ FramesCap \in Nat /\ FaultsMax \in Nat
BY LineAssumption, FallbackAssumption DEF LineAssumption, FallbackAssumption, PacketSize

LEMMA PacketParts ==
  ASSUME NEW p \in Packets
  PROVE  /\ p.start \in Byte /\ p.data \in Seq(Byte) /\ Len(p.data) \in Nat
         /\ Slots(p) \in Seq(Byte) /\ Len(Slots(p)) \in Nat
<1>1. p.start \in Byte /\ p.data \in Seq(Byte) /\ 0 \in Byte
  BY LineAssumption DEF LineAssumption
<1>2. <<p.start>> \o p.data \in Seq(Byte)
  BY <1>1
<1>3. (IF InferBreaks THEN <<0>> ELSE <<>>) \in Seq(Byte)
  BY <1>1
<1>4. (<<p.start>> \o p.data) \o (IF InferBreaks THEN <<0>> ELSE <<>>) \in Seq(Byte)
  BY <1>2, <1>3, ConcatProperties
<1>5. Slots(p) \in Seq(Byte)
  BY <1>4 DEF Slots
<1> QED BY <1>1, <1>5

LEMMA SlotsStart ==
  ASSUME NEW p \in Packets
  PROVE  Len(Slots(p)) \in Nat /\ Len(Slots(p)) > 0
<1> DEFINE x == <<p.start>>  y == p.data  z == IF InferBreaks THEN <<0>> ELSE <<>>
<1>1. x \in Seq(Byte) /\ y \in Seq(Byte) /\ z \in Seq(Byte) /\ Len(x) = 1
  BY PacketParts, LineAssumption DEF LineAssumption
<1>2. Slots(p) = (x \o y) \o z
  BY DEF Slots
<1> HIDE DEF x, y, z
<1>3. x \o y \in Seq(Byte) /\ Len(x \o y) = Len(x) + Len(y)
  BY <1>1, ConcatProperties
<1>0. Len(y) \in Nat /\ Len(z) \in Nat
  BY <1>1, LenProperties
<1>4. Len((x \o y) \o z) = Len(x \o y) + Len(z)
  BY <1>1, <1>3, ConcatProperties
<1> QED BY <1>0, <1>1, <1>2, <1>3, <1>4

\* A slot is one of its packet's, and its value is a byte.
LEMMA Places ==
  ASSUME NEW c \in Place
  PROVE  /\ c.of \in Packets /\ c.at \in 1..Len(Slots(c.of)) /\ c = [of |-> c.of, at |-> c.at]
         /\ Value(c) \in Byte
<1>1. PICK p \in Packets : c \in [of : {p}, at : 1..Len(Slots(p))]
  BY DEF Place
<1>2. c.of = p /\ c.at \in 1..Len(Slots(p)) /\ c = [of |-> c.of, at |-> c.at]
  BY <1>1
<1>3. Slots(p) \in Seq(Byte)
  BY PacketParts
<1>4. Slots(p)[c.at] \in Byte
  BY <1>2, <1>3
<1> QED BY <1>2, <1>4 DEF Value

LEMMA IsPlace ==
  ASSUME NEW p \in Packets, NEW i \in 1..Len(Slots(p))
  PROVE  [of |-> p, at |-> i] \in Place
BY DEF Place

LEMMA ValuesAreBytes ==
  ASSUME NEW s \in Seq(Place)
  PROVE  Values(s) \in Seq(Byte) /\ Len(Values(s)) = Len(s)
<1>1. \A i \in 1..Len(s) : s[i] \in Place
  OBVIOUS
<1>2. \A i \in 1..Len(s) : Value(s[i]) \in Byte
  BY <1>1, Places
<1> QED BY <1>2 DEF Values

LEMMA OnLine ==
  ASSUME TypeOK
  PROVE  source \in SUBSET Packets /\ packet \in source /\ packet \in Packets
BY FallbackAssumption DEF TypeOK, FallbackAssumption

\* The line stays on a packet of its source.
LEMMA LineMoves ==
  ASSUME TypeOK, SlotGoesBy
  PROVE  /\ packet' \in source /\ packet' \in Packets /\ pos' \in 1..Len(Slots(packet'))
         /\ [of |-> packet', at |-> pos'] \in Place
<1>1. /\ packet \in Packets /\ packet \in source /\ pos \in 0..Len(Slots(packet)) /\ Len(Slots(packet)) \in Nat
      /\ source \in SUBSET Packets
  BY OnLine, PacketParts DEF TypeOK
<1>2. CASE pos < Len(Slots(packet)) /\ pos' = pos + 1 /\ UNCHANGED packet
  BY <1>1, <1>2, IsPlace
<1>3. CASE pos' = 1 /\ packet' \in source
  <2>0. packet' \in Packets
    BY <1>1, <1>3
  <2>1. Len(Slots(packet')) \in Nat /\ Len(Slots(packet')) > 0
    BY <2>0, SlotsStart
  <2> QED BY <1>3, <2>0, <2>1, IsPlace
<1> QED BY <1>2, <1>3 DEF SlotGoesBy

\* The frames that can be published.
Frame == {f \in Seq(Byte) : Len(f) \in 1..MaxChannels}

LEMMA ChannelOfFrames ==
  TypeOK => frames \in Seq(Frame) /\ Len(frames) \in Nat /\ Len(frames) <= FramesCap
<1> SUFFICES ASSUME TypeOK PROVE frames \in Seq(Frame) /\ Len(frames) \in Nat /\ Len(frames) <= FramesCap
  OBVIOUS
<1>1. frames \in Seq(Seq(Byte)) /\ Len(frames) <= FramesCap /\ \A i \in DOMAIN frames : Len(frames[i]) \in 1..MaxChannels
  BY DEF TypeOK
<1>2. \A i \in 1..Len(frames) : frames[i] \in Frame
  BY <1>1 DEF Frame
<1>3. frames = [i \in 1..Len(frames) |-> frames[i]] /\ Len(frames) \in Nat
  BY <1>1
<1>4. frames \in Seq(Frame)
  BY <1>2, <1>3
<1> QED BY <1>1, <1>3, <1>4

\* What sending and receiving make of the Frames channel.
FramesOK(fs) == /\ fs \in Seq(Seq(Byte)) /\ Len(fs) <= FramesCap
                /\ \A i \in DOMAIN fs : Len(fs[i]) \in 1..MaxChannels

LEMMA SendKeepsFrames ==
  ASSUME TypeOK, NEW f \in Frame
  PROVE  FramesOK(TrySend(frames, FramesCap, f))
<1>1. frames \in Seq(Frame) /\ Len(frames) \in Nat /\ Len(frames) <= FramesCap /\ FramesCap \in Nat
  BY ChannelOfFrames, Sizes
<1>2. FramesOK(frames)
  BY DEF TypeOK, FramesOK
<1>3. CASE Len(frames) < FramesCap
  <2> DEFINE fs == Append(frames, f)
  <2>1. TrySend(frames, FramesCap, f) = fs
    BY <1>3 DEF TrySend
  <2>2. /\ fs \in Seq(Frame) /\ Len(fs) = Len(frames) + 1 /\ DOMAIN fs = 1..(Len(frames) + 1)
        /\ \A i \in DOMAIN fs : fs[i] \in Frame
    BY <1>1
  <2>3. \A i \in DOMAIN fs : fs[i] \in Seq(Byte) /\ Len(fs[i]) \in 1..MaxChannels
    BY <2>2 DEF Frame
  <2>4. fs \in Seq(Seq(Byte))
    <3>1. frames \in Seq(Seq(Byte)) /\ f \in Seq(Byte)
      BY DEF TypeOK, Frame
    <3> QED BY <3>1
  <2> QED BY <1>1, <1>3, <2>1, <2>2, <2>3, <2>4 DEF FramesOK
<1>4. CASE ~ (Len(frames) < FramesCap)
  BY <1>2, <1>4 DEF TrySend
<1> QED BY <1>3, <1>4

LEMMA TailKeepsFrames ==
  ASSUME TypeOK, frames # <<>>
  PROVE  FramesOK(Tail(frames))
<1>1. frames \in Seq(Seq(Byte)) /\ Len(frames) <= FramesCap /\ FramesCap \in Nat
      /\ \A i \in DOMAIN frames : Len(frames[i]) \in 1..MaxChannels
  BY Sizes DEF TypeOK
<1>2. /\ Tail(frames) \in Seq(Seq(Byte)) /\ Len(Tail(frames)) = Len(frames) - 1 /\ Len(frames) \in Nat
      /\ DOMAIN Tail(frames) = 1..(Len(frames) - 1) /\ DOMAIN frames = 1..Len(frames)
      /\ \A i \in 1..(Len(frames) - 1) : Tail(frames)[i] = frames[i + 1] /\ i + 1 \in 1..Len(frames)
  BY <1>1
<1> QED BY <1>1, <1>2 DEF FramesOK

\* What the types say of the receiver alone.
RxOK == /\ state \in {"waitBreak", "waitStartCode", "readData"}
        /\ frame \in Seq(Place) /\ Len(frame) < MaxChannels
        /\ syncBuf \in Seq(Place) /\ Len(syncBuf) <= 4 * PacketSize
        /\ chunk \in Seq(Place) /\ Len(chunk) <= 4 * PacketSize + ChunkMax

LEMMA Empty == <<>> \in Seq(Place) /\ Len(<<>>) = 0
OBVIOUS

LEMMA HuntKeepsTypes ==
  ASSUME NEW S, NEW read \in Seq(S), Len(read) <= 4 * PacketSize + ChunkMax, Hunt(read)
  PROVE  /\ state' \in {"waitBreak", "waitStartCode", "readData"}
         /\ syncBuf' \in Seq(S) /\ Len(syncBuf') <= 4 * PacketSize
         /\ chunk' \in Seq(S) /\ Len(chunk') <= 4 * PacketSize + ChunkMax
<1>1. Len(read) \in Nat /\ PacketSize \in Nat /\ ChunkMax \in Nat
  BY Sizes
<1>0. <<>> \in Seq(S) /\ Len(<<>>) = 0
  OBVIOUS
<1>2. CASE Offsets(read) # {}
  <2>1. Offsets(read) \subseteq 0..(PacketSize - 1) /\ Len(read) >= 2 * PacketSize
    BY <1>1, <1>2 DEF Offsets
  <2>2. Min(Offsets(read)) \in 0..(PacketSize - 1)
    <3>1. Offsets(read) \in SUBSET Nat
      BY <2>1
    <3> QED BY <1>2, <2>1, <3>1, MinOfNumbers
  <2>3. ASSUME NEW m \in 0..(PacketSize - 1)
        PROVE  SubSeq(read, m + 1, Len(read)) \in Seq(S) /\ Len(SubSeq(read, m + 1, Len(read))) <= Len(read)
    BY <1>1, <2>1
  <2>4. AlignedPart(read) \in Seq(S) /\ Len(AlignedPart(read)) <= Len(read)
    BY <2>2, <2>3 DEF AlignedPart
  <2>5. state' = "waitStartCode" /\ chunk' = AlignedPart(read) /\ syncBuf' = <<>>
    BY <1>2 DEF Hunt
  <2>6. Len(AlignedPart(read)) \in Nat
    BY <2>4
  <2> QED BY <1>1, <2>4, <2>5, <2>6, <1>0
<1>3. CASE Offsets(read) = {}
  <2>1. state' = "waitBreak" /\ chunk' = <<>> /\ syncBuf' = Bounded(read)
    BY <1>3 DEF Hunt
  <2>2. Bounded(read) \in Seq(S) /\ Len(Bounded(read)) <= 4 * PacketSize
    BY <1>1 DEF Bounded
  <2> QED BY <1>1, <2>1, <2>2, <1>0
<1> QED BY <1>2, <1>3

LEMMA OnChunkKeepsTypes ==
  ASSUME TypeOK, NEW bytes \in Seq(Place), Len(bytes) <= ChunkMax, NEW error \in BOOLEAN, OnChunk(bytes, error)
  PROVE  RxOK' /\ UNCHANGED <<running, frames>>
<1>1. Len(bytes) \in Nat /\ PacketSize \in Nat /\ MaxChannels > 0 /\ MaxChannels \in Nat /\ ChunkMax \in Nat
  BY Sizes
<1>2. frame' \in Seq(Place) /\ Len(frame') < MaxChannels
  <2>1. frame' = <<>> \/ frame' = frame
    BY DEF OnChunk
  <2> QED BY <1>1, <2>1, Empty DEF TypeOK
<1>3. CASE error \/ state = "waitBreak"
  <2>1. Hunt(syncBuf \o bytes)
    BY <1>3 DEF OnChunk
  <2>2. syncBuf \o bytes \in Seq(Place) /\ Len(syncBuf \o bytes) <= 4 * PacketSize + ChunkMax
    <3>1. syncBuf \in Seq(Place) /\ Len(syncBuf) \in Nat /\ Len(syncBuf) <= 4 * PacketSize
      BY DEF TypeOK
    <3> QED BY <1>1, <3>1
  <2> QED BY <1>2, <2>1, <2>2, HuntKeepsTypes DEF OnChunk, RxOK
<1>4. CASE ~ (error \/ state = "waitBreak")
  <2>1. chunk' = bytes /\ UNCHANGED <<state, syncBuf, running, frames>>
    BY <1>4 DEF OnChunk
  <2> QED BY <1>1, <1>2, <2>1 DEF RxOK, TypeOK
<1> QED BY <1>3, <1>4

LEMMA OnGapKeepsTypes ==
  ASSUME TypeOK, OnGap
  PROVE  RxOK' /\ UNCHANGED running /\ FramesOK(frames')
<1>1. /\ frame \in Seq(Place) /\ Len(frame) \in Nat /\ Len(frame) < MaxChannels
      /\ syncBuf \in Seq(Place) /\ Len(syncBuf) \in Nat /\ MaxChannels \in Nat /\ MaxChannels > 0
      /\ PacketSize \in Nat /\ FramesOK(frames)
  BY Sizes DEF TypeOK, FramesOK
<1>2. CASE state = "readData" /\ frame # <<>>
  <2>1. /\ frames' = TrySend(frames, FramesCap, Values(frame)) /\ frame' = <<>> /\ state' = "waitStartCode"
        /\ UNCHANGED <<running, syncBuf, chunk>>
    BY <1>2 DEF OnGap, ClosePartial
  <2>2. Values(frame) \in Frame
    <3>1. Len(frame) > 0
      BY <1>1, <1>2, EmptySeq
    <3> QED BY <1>1, <3>1, ValuesAreBytes DEF Frame
  <2> QED BY <1>1, <2>1, <2>2, SendKeepsFrames, Empty DEF RxOK, TypeOK
<1>3. CASE ~(state = "readData" /\ frame # <<>>) /\ state = "waitBreak" /\ Len(syncBuf) > 1
  <2> DEFINE n == Min({Len(syncBuf) - 1, MaxChannels})
             f == SubSeq(syncBuf, 2, n + 1)
  <2>1. /\ frames' = IF Value(Head(syncBuf)) = StartCodeDMX THEN TrySend(frames, FramesCap, Values(f)) ELSE frames
        /\ syncBuf' = <<>> /\ state' = "waitStartCode" /\ UNCHANGED <<running, frame, chunk>>
    BY <1>3 DEF OnGap, TakeBuffered
  <2>2. n \in 1..MaxChannels /\ n <= Len(syncBuf) - 1
    <3>1. {Len(syncBuf) - 1, MaxChannels} \in SUBSET Nat
      BY <1>1, <1>3
    <3>2. n \in {Len(syncBuf) - 1, MaxChannels} /\ \A y \in {Len(syncBuf) - 1, MaxChannels} : n <= y
      BY <3>1, MinOfNumbers
    <3> QED BY <1>1, <1>3, <3>2
  <2>3. Values(f) \in Frame
    <3> HIDE DEF n
    <3>1. f \in Seq(Place) /\ Len(f) \in 1..MaxChannels
      BY <1>1, <2>2
    <3> HIDE DEF f
    <3> QED BY <3>1, ValuesAreBytes DEF Frame
  <2> HIDE DEF f
  <2>4. FramesOK(frames')
    BY <1>1, <2>1, <2>3, SendKeepsFrames
  <2> QED BY <1>1, <2>1, <2>4, Empty DEF RxOK, TypeOK
<1>4. CASE UNCHANGED <<frames, frame, state, syncBuf>>
  BY <1>1, <1>4 DEF OnGap, RxOK, TypeOK
<1> QED BY <1>2, <1>3, <1>4 DEF OnGap

LEMMA ConsumeKeepsTypes ==
  ASSUME TypeOK, Consume
  PROVE  RxOK' /\ FramesOK(frames')
<1>1. /\ chunk # <<>> /\ chunk' = Tail(chunk) /\ UNCHANGED syncBuf
      /\ chunk \in Seq(Place) /\ Len(chunk) \in Nat /\ Len(chunk) <= 4 * PacketSize + ChunkMax
      /\ PacketSize \in Nat /\ ChunkMax \in Nat /\ MaxChannels \in Nat /\ MaxChannels > 0
  BY Sizes DEF Consume, TypeOK
<1>2. chunk' \in Seq(Place) /\ Len(chunk') <= 4 * PacketSize + ChunkMax /\ Head(chunk) \in Place
  BY <1>1
<1>3. frame \in Seq(Place) /\ Len(frame) \in Nat /\ Len(frame) < MaxChannels /\ FramesOK(frames)
  BY DEF TypeOK, FramesOK
<1>4. CASE ConsumeStart \/ ConsumeNone
  BY <1>1, <1>2, <1>3, <1>4 DEF ConsumeStart, ConsumeNone, RxOK, TypeOK
<1>5. CASE ConsumeData
  <2> DEFINE f == Append(frame, Head(chunk))
  <2>1. f \in Seq(Place) /\ Len(f) = Len(frame) + 1
    BY <1>2, <1>3
  <2>2. Values(f) \in Frame
    <3> HIDE DEF f
    <3> QED BY <1>1, <1>3, <2>1, ValuesAreBytes DEF Frame
  <2>3. CASE Full(f)
    <3>1. frames' = TrySend(frames, FramesCap, Values(f)) /\ frame' = <<>> /\ state' = "waitStartCode"
      BY <1>5, <2>3 DEF ConsumeData
    <3> HIDE DEF f
    <3> QED BY <1>1, <1>2, <2>2, <3>1, SendKeepsFrames, Empty DEF RxOK, TypeOK
  <2>4. CASE ~Full(f)
    <3>1. frame' = f /\ UNCHANGED <<state, frames>>
      BY <1>5, <2>4 DEF ConsumeData
    <3>2. Len(f) < MaxChannels
      BY <1>1, <1>3, <2>1, <2>4 DEF Full
    <3> HIDE DEF f
    <3> QED BY <1>1, <1>2, <1>3, <2>1, <3>1, <3>2 DEF RxOK, TypeOK
  <2> QED BY <2>3, <2>4
<1> QED BY <1>4, <1>5 DEF Consume

LEMMA TypeInit == Init => TypeOK
<1> SUFFICES ASSUME Init PROVE TypeOK
  OBVIOUS
<1>1. /\ frame \in Seq(Place) /\ Len(frame) = 0 /\ syncBuf \in Seq(Place) /\ Len(syncBuf) = 0
      /\ chunk \in Seq(Place) /\ Len(chunk) = 0 /\ buf \in Seq(Place) /\ Len(buf) = 0
  BY Empty DEF Init
<1>2. frames \in Seq(Seq(Byte)) /\ Len(frames) = 0 /\ DOMAIN frames = {}
  BY DEF Init
<1> QED BY <1>1, <1>2, Sizes DEF Init, TypeOK

\* And of the line.
LineOK == /\ buf \in Seq(Place) /\ Len(buf) <= ChunkMax
          /\ source \in Sources /\ packet \in source
          /\ pos \in 0..Len(Slots(packet))
          /\ faults \in 0..FaultsMax

LEMMA TypeStep == TypeOK /\ [Next]_vars => TypeOK'
<1> SUFFICES ASSUME TypeOK, [Next]_vars PROVE TypeOK'
  OBVIOUS
<1>0. RxOK /\ FramesOK(frames) /\ running \in BOOLEAN /\ LineOK /\ ChunkMax \in Nat
      /\ FaultsMax \in Nat
  BY Sizes DEF TypeOK, RxOK, FramesOK, LineOK
<1>1. ASSUME RxOK', FramesOK(frames'), running' \in BOOLEAN, LineOK'
      PROVE  TypeOK'
  BY <1>1 DEF RxOK, FramesOK, LineOK, TypeOK
<1>2. <<>> \in Seq(Place) /\ Len(<<>>) <= ChunkMax
  BY <1>0, Empty
<1>3. CASE SlotArrives
  <2>1. buf' = Append(buf, [of |-> packet', at |-> pos']) /\ Len(buf) < ChunkMax
        /\ UNCHANGED <<rxVars, source, faults>>
    BY <1>3 DEF SlotArrives
  <2>2. /\ packet' \in source /\ pos' \in 1..Len(Slots(packet'))
        /\ [of |-> packet', at |-> pos'] \in Place
    BY <1>3, LineMoves DEF SlotArrives
  <2> DEFINE c == [of |-> packet', at |-> pos']
  <2>3. c \in Place /\ buf' = Append(buf, c)
    BY <2>1, <2>2
  <2> HIDE DEF c
  <2>4. buf' \in Seq(Place) /\ Len(buf') <= ChunkMax
    BY <1>0, <2>1, <2>3 DEF LineOK
  <2>5. LineOK'
    BY <1>0, <2>1, <2>2, <2>4 DEF LineOK
  <2> QED BY <1>0, <1>1, <2>1, <2>5 DEF rxVars, RxOK
<1>4. CASE ReadEnds
  <2>1. RxOK' /\ UNCHANGED <<running, frames>>
    BY <1>0, <1>4, OnChunkKeepsTypes DEF ReadEnds, LineOK
  <2>2. LineOK'
    BY <1>0, <1>2, <1>4 DEF ReadEnds, LineOK
  <2> QED BY <1>0, <1>1, <2>1, <2>2
<1>5. CASE BadSlot
  <2>1. RxOK' /\ UNCHANGED running /\ FramesOK(frames')
    <3>1. CASE OnChunk(buf, TRUE)
      BY <1>0, <3>1, OnChunkKeepsTypes DEF LineOK
    <3>2. CASE OnGap
      BY <3>2, OnGapKeepsTypes
    <3>3. CASE OnShortGap
      BY <1>0, <3>3 DEF OnShortGap, rxVars, RxOK
    <3> QED BY <1>5, <3>1, <3>2, <3>3 DEF BadSlot
  <2>2. LineOK'
    <3>1. packet' \in source /\ pos' \in 1..Len(Slots(packet')) /\ Len(Slots(packet')) \in Nat
      BY <1>5, LineMoves, PacketParts DEF BadSlot
    <3>2. faults' \in 0..FaultsMax /\ buf' = <<>> /\ source' = source
      BY <1>0, <1>5 DEF BadSlot, Fault, LineOK
    <3> QED BY <1>0, <1>2, <3>1, <3>2 DEF LineOK
  <2> QED BY <1>0, <1>1, <2>1, <2>2
<1>6. CASE Pause
  <2>1. LineOK'
    <3>1. packet' \in source /\ pos' = 0 /\ UNCHANGED <<buf, source, faults>>
      BY <1>6 DEF Pause
    <3>2. packet' \in Packets
      BY <3>1, OnLine
    <3>3. 0 \in 0..Len(Slots(packet'))
      BY <3>2, PacketParts
    <3> QED BY <1>0, <3>1, <3>3 DEF LineOK
  <2> QED BY <1>0, <1>1, <1>6, <2>1, OnGapKeepsTypes DEF Pause
<1>7. CASE Stall
  <2>1. LineOK'
    BY <1>0, <1>7 DEF Stall, Fault, LineOK
  <2> QED BY <1>0, <1>1, <1>7, <2>1, OnGapKeepsTypes DEF Stall
<1>8. CASE Consume
  BY <1>0, <1>1, <1>8, ConsumeKeepsTypes DEF Consume, lineVars, LineOK
<1>9. CASE Stop
  BY <1>0, <1>1, <1>9 DEF Stop, lineVars, RxOK, LineOK
<1>10. CASE Take
  BY <1>0, <1>1, <1>10, TailKeepsFrames DEF Take, lineVars, RxOK, LineOK
<1>11. CASE UNCHANGED vars
  BY <1>0, <1>1, <1>11 DEF vars, rxVars, lineVars, RxOK, LineOK
<1> QED BY <1>3, <1>4, <1>5, <1>6, <1>7, <1>8, <1>9, <1>10, <1>11 DEF Next

\* Every variable has its type on every line: the frame stays within its array, the
\* hunting window within four packets, and what is consumed after a hunt within that
\* window and one read.
THEOREM TypeCorrect == Spec => []TypeOK
BY TypeInit, TypeStep, PTL DEF Spec

----------------------------------------------------------------------------
(* A line of DMX packets.                                                  *)

\* Breaks leave no byte, and every packet has the DMX start code, a channel and no
\* more than the array holds.
DmxPackets ==
  /\ ~InferBreaks
  /\ \A p \in Packets : p.start = StartCodeDMX /\ Len(p.data) \in 1..MaxChannels

LEMMA SlotsOf ==
  ASSUME DmxPackets, NEW p \in Packets
  PROVE  /\ Slots(p) \in Seq(Byte) /\ Len(Slots(p)) = Len(p.data) + 1 /\ Len(Slots(p)) \in 2..PacketSize
         /\ Slots(p)[1] = StartCodeDMX /\ \A i \in 1..Len(p.data) : Slots(p)[i + 1] = p.data[i]
         /\ p.data \in Seq(Byte) /\ Len(p.data) \in 1..MaxChannels /\ Channels(p) = p.data
<1>1. p.start = StartCodeDMX /\ p.data \in Seq(Byte) /\ Len(p.data) \in 1..MaxChannels
  BY PacketParts DEF DmxPackets
<1>2. p.start \in Byte /\ <<p.start>> \in Seq(Byte)
  BY PacketParts
<1>3. Slots(p) = <<p.start>> \o p.data
  <2>1. <<p.start>> \o p.data \in Seq(Byte)
    BY <1>1, <1>2
  <2>2. Slots(p) = (<<p.start>> \o p.data) \o <<>>
    BY DEF Slots, DmxPackets
  <2> QED BY <2>1, <2>2, ConcatEmptySeq
<1> DEFINE L == Len(p.data)
<1>4. /\ Slots(p) \in Seq(Byte) /\ Len(Slots(p)) = L + 1 /\ Slots(p)[1] = p.start
      /\ \A i \in 1..L : Slots(p)[i + 1] = p.data[i]
  BY <1>1, <1>2, <1>3
<1>5. L \in 1..MaxChannels /\ MaxChannels \in Nat /\ PacketSize = MaxChannels + 1
  BY <1>1, Sizes
<1>6. Channels(p) = p.data
  BY <1>5 DEF Channels
<1> QED BY <1>1, <1>4, <1>5, <1>6

\* What follows the k-th slot of p without a pause is its next slot, or the first
\* of another packet if p is full.
LEMMA NextOf ==
  ASSUME DmxPackets, NEW p \in Packets, NEW k \in 0..Len(Slots(p)), NEW d \in Place,
         Adjacent([of |-> p, at |-> k], d)
  PROVE  \/ d.of = p /\ d.at = k + 1 /\ k < Len(Slots(p))
         \/ k = PacketSize /\ Len(Slots(p)) = PacketSize /\ d.at = 1
<1>1. d.at \in 1..Len(Slots(d.of)) /\ Len(Slots(p)) \in Nat
  BY Places, PacketParts
<1>2. CASE d.of = p /\ d.at = k + 1
  BY <1>1, <1>2
<1>3. CASE k = Len(Slots(p)) /\ ~Short(p) /\ d.at = 1
  BY <1>3, SlotsOf, Sizes DEF Short
<1> QED BY <1>2, <1>3 DEF Adjacent

\* A slot that goes by follows the one before it.
LEMMA GoesOn ==
  ASSUME SlotGoesBy
  PROVE  Adjacent([of |-> packet, at |-> pos], [of |-> packet', at |-> pos'])
BY DEF SlotGoesBy, Adjacent

----------------------------------------------------------------------------
(* Sequences of slots.                                                     *)

\* A slot, or the place before the first of a packet.
Spot == [of : Packets, at : Nat]

LEMMA PlaceIsSpot == Place \subseteq Spot
<1> SUFFICES ASSUME NEW c \in Place PROVE c \in Spot
  OBVIOUS
<1>1. c.of \in Packets /\ c.at \in 1..Len(Slots(c.of)) /\ c = [of |-> c.of, at |-> c.at]
  BY Places
<1>2. Len(Slots(c.of)) \in Nat
  BY <1>1, PacketParts
<1>3. c.at \in Nat
  BY <1>1, <1>2
<1> QED BY <1>1, <1>3 DEF Spot

\* One slot before a sequence.
LEMMA FrontAt ==
  ASSUME NEW S, NEW x \in S, NEW s \in Seq(S)
  PROVE  /\ <<x>> \o s \in Seq(S) /\ Len(<<x>> \o s) = Len(s) + 1 /\ Len(s) \in Nat
         /\ (<<x>> \o s)[1] = x /\ \A i \in 1..Len(s) : (<<x>> \o s)[i + 1] = s[i]
<1>1. <<x>> \in Seq(S) /\ Len(<<x>>) = 1 /\ <<x>>[1] = x
  OBVIOUS
<1> DEFINE f == <<x>>
<1>2. f \in Seq(S) /\ Len(f) = 1 /\ f[1] = x
  BY <1>1
<1> HIDE DEF f
<1> DEFINE g == f \o s
<1>3. /\ g \in Seq(S) /\ Len(s) \in Nat /\ Len(g) = Len(f) + Len(s)
      /\ \A j \in 1..Len(f) : g[j] = f[j]
      /\ \A j \in 1..Len(s) : g[Len(f) + j] = s[j]
  BY <1>2, ConcatProperties
<1> HIDE DEF g
<1>4. /\ g \in Seq(S) /\ Len(g) = Len(s) + 1 /\ Len(s) \in Nat /\ g[1] = x
      /\ \A i \in 1..Len(s) : g[i + 1] = s[i]
  <2>1. \A i \in 1..Len(s) : i + 1 = Len(f) + i
    BY <1>2, <1>3
  <2> QED BY <1>2, <1>3, <2>1
<1> QED BY <1>4 DEF f, g

\* Appending to the second of two sequences appends to both.
LEMMA AppendToConcat ==
  ASSUME NEW S, NEW s \in Seq(S), NEW t \in Seq(S), NEW c \in S
  PROVE  s \o Append(t, c) = Append(s \o t, c)
<1> DEFINE z == <<c>>
<1>1. z \in Seq(S)
  OBVIOUS
<1>2. Append(t, c) = t \o z /\ (s \o t \in Seq(S) => Append(s \o t, c) = (s \o t) \o z)
  BY AppendIsConcat
<1>3. s \o t \in Seq(S)
  BY ConcatProperties
<1> HIDE DEF z
<1>4. s \o (t \o z) = (s \o t) \o z
  BY <1>1, ConcatAssociative
<1> QED BY <1>2, <1>3, <1>4

\* A sequence is its first element and the rest.
LEMMA HeadAndTail ==
  ASSUME NEW S, NEW s \in Seq(S), NEW t \in Seq(S), s # <<>>
  PROVE  /\ Head(s) \in S /\ Tail(s) \in Seq(S)
         /\ s \o t = <<Head(s)>> \o (Tail(s) \o t)
<1> DEFINE h == <<Head(s)>>
           r == Tail(s)
<1>1. Head(s) \in S /\ r \in Seq(S) /\ h \in Seq(S) /\ s = h \o r
  BY HeadTailProperties
<1> HIDE DEF h, r
<1>2. (h \o r) \o t = h \o (r \o t)
  BY <1>1, ConcatAssociative
<1>3. s \o t = h \o (r \o t)
  BY <1>1, <1>2
<1> QED BY <1>1, <1>3 DEF h, r

\* An unbroken sequence stays so when a slot that follows its last is appended.
LEMMA UnbrokenAppend ==
  ASSUME NEW s \in Seq(Spot), Unbroken(s), Len(s) > 0, NEW c \in Spot, Adjacent(s[Len(s)], c)
  PROVE  /\ Append(s, c) \in Seq(Spot) /\ Unbroken(Append(s, c))
         /\ Append(s, c)[Len(Append(s, c))] = c
<1> DEFINE t == Append(s, c)
<1>1. /\ t \in Seq(Spot) /\ Len(t) = Len(s) + 1 /\ Len(s) \in Nat /\ t[Len(s) + 1] = c
      /\ \A i \in 1..Len(s) : t[i] = s[i]
  BY AppendProperties
<1> HIDE DEF t
<1>2. ASSUME NEW i \in 1..(Len(t) - 1) PROVE Adjacent(t[i], t[i + 1])
  <2>1. CASE i = Len(s)
    BY <1>1, <2>1
  <2>2. CASE i # Len(s)
    <3>1. i \in 1..(Len(s) - 1) /\ i \in 1..Len(s) /\ i + 1 \in 1..Len(s)
      BY <1>1, <1>2, <2>2
    <3> QED BY <1>1, <3>1 DEF Unbroken
  <2> QED BY <2>1, <2>2
<1> QED BY <1>1, <1>2 DEF t, Unbroken

\* And when its first is taken off.
LEMMA UnbrokenTail ==
  ASSUME NEW x \in Spot, NEW s \in Seq(Spot), Len(s) > 0, Unbroken(<<x>> \o s)
  PROVE  /\ Adjacent(x, s[1]) /\ Unbroken(s)
         /\ (<<x>> \o s)[Len(<<x>> \o s)] = s[Len(s)]
<1> DEFINE t == <<x>> \o s
<1>1. /\ t \in Seq(Spot) /\ Len(t) = Len(s) + 1 /\ Len(s) \in Nat /\ t[1] = x
      /\ \A i \in 1..Len(s) : t[i + 1] = s[i]
  BY FrontAt
<1>2. \A i \in 1..(Len(t) - 1) : Adjacent(t[i], t[i + 1])
  BY DEF Unbroken
<1> HIDE DEF t
<1>3. Adjacent(x, s[1])
  <2>1. 1 \in 1..(Len(t) - 1) /\ t[2] = s[1]
    BY <1>1
  <2> QED BY <1>1, <1>2, <2>1
<1>4. ASSUME NEW i \in 1..(Len(s) - 1) PROVE Adjacent(s[i], s[i + 1])
  <2>1. /\ i + 1 \in 1..(Len(t) - 1) /\ i \in 1..Len(s) /\ i + 1 \in 1..Len(s)
        /\ t[i + 1] = s[i] /\ t[(i + 1) + 1] = s[i + 1]
    BY <1>1
  <2> QED BY <1>2, <2>1
<1>5. t[Len(t)] = s[Len(s)]
  <2>1. Len(s) \in 1..Len(s)
    BY <1>1
  <2> QED BY <1>1, <2>1
<1> QED BY <1>3, <1>4, <1>5 DEF t, Unbroken

----------------------------------------------------------------------------
(* In step.                                                                *)

\* The frame after n channels of p.
ChannelsOf(p, n) == [i \in 1..n |-> [of |-> p, at |-> i + 1]]

LEMMA ChannelsOfFrame ==
  ASSUME DmxPackets, NEW p \in Packets, NEW n \in 0..Len(p.data)
  PROVE  /\ ChannelsOf(p, n) \in Seq(Place) /\ Len(ChannelsOf(p, n)) = n
         /\ n = Len(p.data) => Values(ChannelsOf(p, n)) = Channels(p)
<1> DEFINE f == ChannelsOf(p, n)
<1>1. /\ Len(p.data) \in Nat /\ Len(Slots(p)) = Len(p.data) + 1 /\ Channels(p) = p.data
      /\ p.data \in Seq(Byte) /\ \A i \in 1..Len(p.data) : Slots(p)[i + 1] = p.data[i]
  BY SlotsOf, PacketParts
<1>2. ASSUME NEW i \in 1..n PROVE [of |-> p, at |-> i + 1] \in Place
  <2>1. i + 1 \in 1..Len(Slots(p))
    BY <1>1
  <2> QED BY <2>1, IsPlace
<1>3. f \in Seq(Place) /\ Len(f) = n /\ \A i \in 1..n : f[i] = [of |-> p, at |-> i + 1]
  BY <1>1, <1>2 DEF ChannelsOf
<1> HIDE DEF f
<1>4. ASSUME n = Len(p.data) PROVE Values(f) = p.data
  <2> DEFINE v == Values(f)
  <2>1. v \in Seq(Byte) /\ Len(v) = n
    BY <1>3, ValuesAreBytes
  <2>2. \A i \in 1..n : v[i] = Slots(p)[i + 1]
    BY <1>3 DEF Values, Value
  <2> HIDE DEF v
  <2>3. \A i \in 1..Len(v) : v[i] = p.data[i]
    BY <1>1, <1>4, <2>1, <2>2
  <2>4. v = p.data
    BY <1>1, <1>4, <2>1, <2>3, SeqEqual
  <2> QED BY <2>4 DEF v
<1> QED BY <1>1, <1>3, <1>4 DEF f

LEMMA NoChannels ==
  ASSUME NEW p \in Packets
  PROVE  ChannelsOf(p, 0) = <<>>
BY DEF ChannelsOf

\* What InStep says of p and k.
Ahead(p, k) == <<[of |-> p, at |-> k]>> \o (chunk \o buf)

StepAt(p, k) == /\ Taken(p, k) /\ Unbroken(Ahead(p, k))
                /\ Ahead(p, k)[Len(Ahead(p, k))] = [of |-> packet, at |-> pos]

LEMMA InStepIs == InStep <=> \E p \in Packets : \E k \in 0..Len(Slots(p)) : StepAt(p, k)
BY DEF InStep, StepAt, Ahead

LEMMA InStepNext ==
  ASSUME NEW p \in Packets, NEW k \in 0..Len(Slots(p)), StepAt(p, k)'
  PROVE  InStep'
BY DEF InStep, StepAt, Ahead

LEMMA ToConsume ==
  ASSUME TypeOK
  PROVE  /\ chunk \in Seq(Spot) /\ buf \in Seq(Spot) /\ chunk \o buf \in Seq(Spot)
         /\ \A p \in Packets : \A k \in 0..Len(Slots(p)) : [of |-> p, at |-> k] \in Spot
<1>1. chunk \in Seq(Spot) /\ buf \in Seq(Spot)
  BY PlaceIsSpot DEF TypeOK
<1>2. chunk \o buf \in Seq(Spot)
  BY <1>1, ConcatProperties
<1>3. ASSUME NEW p \in Packets, NEW k \in 0..Len(Slots(p)) PROVE [of |-> p, at |-> k] \in Spot
  <2>1. k \in Nat
    BY PacketParts
  <2> QED BY <2>1 DEF Spot
<1> QED BY <1>1, <1>2, <1>3

LEMMA SentIsLast ==
  ASSUME NEW f, frames \in Seq(Seq(Byte)), frames' = TrySend(frames, FramesCap, f), f \in Seq(Byte),
         Len(frames') > Len(frames)
  PROVE  frames'[Len(frames')] = f
<1>1. frames' = Append(frames, f)
  BY DEF TrySend
<1> QED BY <1>1, AppendProperties

\* What a step publishes, if the packet p has ended.
Published(p) == Len(frames') > Len(frames) => frames'[Len(frames')] = Channels(p)

\* Slots arrive, and a read ends: the state machine is where it was.
LEMMA ArrivalKeepsStep ==
  ASSUME TypeOK, InStep, SlotArrives \/ ReadEnds
  PROVE  InStep' /\ UNCHANGED frames
<1>0. PICK p \in Packets : \E k \in 0..Len(Slots(p)) : StepAt(p, k)
  BY InStepIs
<1>1. PICK k \in 0..Len(Slots(p)) : StepAt(p, k)
  BY <1>0
<1> DEFINE x == [of |-> p, at |-> k]
<1>2. chunk \in Seq(Spot) /\ buf \in Seq(Spot) /\ chunk \o buf \in Seq(Spot) /\ x \in Spot
  BY ToConsume
<1>3. CASE SlotArrives
  <2> DEFINE c == [of |-> packet', at |-> pos']
             s == chunk \o buf
             a == Ahead(p, k)
  <2>1. /\ buf' = Append(buf, c) /\ UNCHANGED <<running, state, frame, syncBuf, chunk, frames>>
    BY <1>3 DEF SlotArrives, rxVars
  <2>2. c \in Spot /\ Adjacent([of |-> packet, at |-> pos], c)
    BY <1>3, LineMoves, GoesOn, PlaceIsSpot DEF SlotArrives
  <2>3. a \in Seq(Spot) /\ Len(a) > 0 /\ a = <<x>> \o s
    BY <1>2, FrontAt DEF Ahead
  <2>4. Ahead(p, k)' = Append(a, c)
    <3>1. Ahead(p, k)' = <<x>> \o (chunk \o Append(buf, c))
      BY <2>1 DEF Ahead
    <3> HIDE DEF x, c
    <3>2. chunk \o Append(buf, c) = Append(s, c)
      BY <1>2, <2>2, AppendToConcat
    <3>3. <<x>> \in Seq(Spot) /\ s \in Seq(Spot)
      BY <1>2
    <3>4. <<x>> \o Append(s, c) = Append(<<x>> \o s, c)
      BY <2>2, <3>3, AppendToConcat
    <3> QED BY <2>3, <3>1, <3>2, <3>4
  <2>5. Unbroken(a) /\ a[Len(a)] = [of |-> packet, at |-> pos] /\ Taken(p, k)
    BY <1>1 DEF StepAt
  <2>6. Unbroken(Ahead(p, k)') /\ Ahead(p, k)'[Len(Ahead(p, k)')] = c
    <3> HIDE DEF a, c
    <3> QED BY <2>2, <2>3, <2>4, <2>5, UnbrokenAppend
  <2>7. Taken(p, k)'
    BY <2>1, <2>5 DEF Taken
  <2>8. StepAt(p, k)'
    BY <2>6, <2>7 DEF StepAt, Unbroken
  <2> QED BY <2>1, <2>8, InStepNext
<1>4. CASE ReadEnds
  <2>1. Taken(p, k) /\ state # "waitBreak"
    BY <1>1 DEF StepAt, Taken
  <2>2. /\ buf' = <<>> /\ chunk = <<>> /\ chunk' = buf
        /\ UNCHANGED <<state, frame, frames, packet, pos>>
    BY <1>4, <2>1 DEF ReadEnds, OnChunk
  <2>3. chunk \o buf = buf /\ buf \o <<>> = buf
    BY <1>2, <2>2, ConcatEmptySeq
  <2>4. Ahead(p, k)' = Ahead(p, k)
    BY <2>2, <2>3 DEF Ahead
  <2>5. StepAt(p, k)'
    BY <1>1, <2>2, <2>4 DEF StepAt, Taken, Unbroken
  <2> QED BY <2>2, <2>5, InStepNext
<1> QED BY <1>3, <1>4

\* A byte is consumed, as the slot it is.
LEMMA ConsumeKeepsStep ==
  ASSUME DmxPackets, TypeOK, InStep, Consume
  PROVE  InStep' /\ Published(Head(chunk).of)
<1>0. PICK p \in Packets : \E k \in 0..Len(Slots(p)) : StepAt(p, k)
  BY InStepIs
<1>1. PICK k \in 0..Len(Slots(p)) : StepAt(p, k)
  BY <1>0
<1> DEFINE x == [of |-> p, at |-> k]
           h == Head(chunk)
           s == <<h>> \o (Tail(chunk) \o buf)
<1>2. /\ chunk # <<>> /\ chunk' = Tail(chunk) /\ UNCHANGED <<running, syncBuf, buf, packet, pos, faults>>
      /\ chunk \in Seq(Place) /\ h \in Place
  BY DEF Consume, lineVars, TypeOK
<1>3. /\ chunk \in Seq(Spot) /\ buf \in Seq(Spot) /\ chunk \o buf \in Seq(Spot) /\ x \in Spot
      /\ h \in Spot /\ Tail(chunk) \in Seq(Spot) /\ s = chunk \o buf
  BY <1>2, ToConsume, HeadAndTail
<1>4. s \in Seq(Spot) /\ Len(s) > 0 /\ s[1] = h
  <2>1. Tail(chunk) \o buf \in Seq(Spot)
    BY <1>3, ConcatProperties
  <2> HIDE DEF h
  <2> QED BY <1>3, <2>1, FrontAt
<1>5. Adjacent(x, h) /\ Unbroken(s) /\ s[Len(s)] = [of |-> packet, at |-> pos] /\ Taken(p, k)
  <2>1. Ahead(p, k) = <<x>> \o s
    BY <1>3 DEF Ahead
  <2>2. Unbroken(<<x>> \o s) /\ (<<x>> \o s)[Len(<<x>> \o s)] = [of |-> packet, at |-> pos] /\ Taken(p, k)
    BY <1>1, <2>1 DEF StepAt
  <2> HIDE DEF s, x
  <2> QED BY <1>3, <1>4, <2>2, UnbrokenTail
<1>6. PICK q \in Packets : /\ \E i \in 1..Len(Slots(q)) : h = [of |-> q, at |-> i]
                           /\ Len(Slots(q)) \in Nat
  BY <1>2, Places, PacketParts
<1>13. PICK j \in 1..Len(Slots(q)) : h = [of |-> q, at |-> j]
  BY <1>6
<1>14. h.of = q /\ h.at = j /\ j \in Nat
  BY <1>6, <1>13
<1>7. ASSUME Taken(q, j)' PROVE InStep'
  <2>1. Ahead(q, j)' = s
    BY <1>2, <1>13 DEF Ahead
  <2>2. Unbroken(Ahead(q, j)') /\ Ahead(q, j)'[Len(Ahead(q, j)')] = [of |-> packet', at |-> pos']
    BY <1>2, <1>5, <2>1
  <2>3. StepAt(q, j)'
    BY <1>7, <2>2 DEF StepAt, Unbroken
  <2>4. j \in 0..Len(Slots(q))
    BY <1>6, <1>14
  <2> QED BY <2>3, <2>4, InStepNext
<1>8. \/ q = p /\ j = k + 1 /\ k < Len(Slots(p))
      \/ k = PacketSize /\ Len(Slots(p)) = PacketSize /\ j = 1
  BY <1>2, <1>5, <1>14, NextOf
<1>9. /\ Len(Slots(p)) = Len(p.data) + 1 /\ Len(p.data) \in 1..MaxChannels /\ Len(p.data) \in Nat
      /\ Channels(p) = p.data /\ p.data \in Seq(Byte)
      /\ MaxChannels \in Nat /\ PacketSize = MaxChannels + 1
  BY SlotsOf, PacketParts, Sizes
<1>10. frame \in Seq(Place) /\ Len(frame) \in Nat /\ Len(frame) < MaxChannels
  BY DEF TypeOK
<1>11. CASE state = "waitStartCode" /\ k \in {0, Len(Slots(p))} /\ frame = <<>>
  <2>1. j = 1
    BY <1>8, <1>9, <1>11
  <2>2. Value(h) = StartCodeDMX
    BY <1>6, <1>13, <2>1, SlotsOf DEF Value
  <2>3. state' = "readData" /\ UNCHANGED <<frame, frames>>
    BY <1>11, <2>2 DEF Consume, ConsumeStart, ConsumeData, ConsumeNone
  <2>4. frame' = <<>> /\ Len(<<>>) = 0
    BY <1>11, <2>3
  <2>5. frame' = ChannelsOf(q, 0)
    BY <1>6, <2>4, NoChannels
  <2>6. Taken(q, j)'
    BY <1>2, <2>1, <2>3, <2>4, <2>5 DEF Taken, ChannelsOf
  <2> QED BY <1>7, <1>14, <2>3, <2>6 DEF Published
<1>12. CASE state = "readData" /\ k = Len(frame) + 1 /\ frame = ChannelsOf(p, Len(frame))
  <2>1. q = p /\ j = k + 1 /\ k <= Len(p.data)
    BY <1>8, <1>9, <1>10, <1>12
  <2> DEFINE f == Append(frame, h)
  <2>2. f \in Seq(Place) /\ Len(f) = k /\ f = ChannelsOf(p, k)
    <3> DEFINE g == ChannelsOf(p, k)
               e == ChannelsOf(p, Len(frame))
    <3>1. g \in Seq(Place) /\ Len(g) = k /\ \A i \in 1..k : g[i] = [of |-> p, at |-> i + 1]
      <4>1. k \in 0..Len(p.data)
        BY <1>9, <1>10, <1>12, <2>1
      <4> QED BY <4>1, ChannelsOfFrame DEF ChannelsOf
    <3>2. /\ f \in Seq(Place) /\ Len(f) = k /\ f[k] = h /\ \A i \in 1..(k - 1) : f[i] = frame[i]
      BY <1>2, <1>10, <1>12, AppendProperties
    <3>3. \A i \in 1..(k - 1) : e[i] = [of |-> p, at |-> i + 1]
      BY <1>12 DEF ChannelsOf
    <3>4. frame = e
      BY <1>12
    <3> HIDE DEF f, g, e
    <3>5. \A i \in 1..k : f[i] = g[i]
      <4> SUFFICES ASSUME NEW i \in 1..k PROVE f[i] = g[i]
        OBVIOUS
      <4>1. CASE i = k
        BY <1>13, <2>1, <3>1, <3>2, <4>1
      <4>2. CASE i # k
        <5>1. i \in 1..(k - 1)
          BY <4>2, <1>10, <1>12
        <5> QED BY <3>1, <3>2, <3>3, <3>4, <5>1
      <4> QED BY <4>1, <4>2
    <3>6. f = g
      BY <3>1, <3>2, <3>5, SeqEqual
    <3> QED BY <3>2, <3>6 DEF g
  <2>3. ConsumeData
    BY <1>12 DEF Consume, ConsumeStart, ConsumeNone
  <2>4. CASE Full(f)
    <3>1. k = MaxChannels /\ k = Len(p.data) /\ j = Len(Slots(p))
      BY <1>9, <2>1, <2>2, <2>4 DEF Full
    <3>2. frames' = TrySend(frames, FramesCap, Values(f)) /\ frame' = <<>> /\ state' = "waitStartCode"
      BY <2>3, <2>4 DEF ConsumeData
    <3>3. Values(f) = Channels(p) /\ Values(f) \in Seq(Byte)
      <4>1. k \in 0..Len(p.data)
        BY <1>9, <3>1
      <4> QED BY <1>9, <2>2, <3>1, <4>1, ChannelsOfFrame
    <3>4. Published(h.of)
      <4> HIDE DEF f
      <4> QED BY <1>14, <2>1, <3>2, <3>3, SentIsLast DEF TypeOK, Published
    <3>5. Taken(q, j)'
      BY <1>2, <2>1, <3>1, <3>2 DEF Taken
    <3> QED BY <1>7, <3>4, <3>5
  <2>5. CASE ~Full(f)
    <3>1. frame' = f /\ UNCHANGED <<state, frames>>
      BY <2>3, <2>5 DEF ConsumeData
    <3> HIDE DEF f
    <3>2. Taken(q, j)'
      BY <1>2, <1>12, <2>1, <2>2, <3>1 DEF Taken, ChannelsOf
    <3> QED BY <1>7, <1>14, <3>1, <3>2 DEF Published
  <2> QED BY <2>4, <2>5
<1> QED BY <1>5, <1>11, <1>12 DEF Taken, ChannelsOf

\* Nothing is left to consume.
LEMMA AheadOfNothing ==
  ASSUME NEW p \in Packets, NEW k
  PROVE  LET a == <<[of |-> p, at |-> k]>> \o (<<>> \o <<>>)
         IN  Unbroken(a) /\ a[Len(a)] = [of |-> p, at |-> k]
<1> DEFINE a == <<[of |-> p, at |-> k]>> \o (<<>> \o <<>>)
<1>1. a = <<[of |-> p, at |-> k]>>
  OBVIOUS
<1>2. Len(a) = 1 /\ a[1] = [of |-> p, at |-> k]
  BY <1>1
<1> HIDE DEF a
<1>3. Unbroken(a) /\ a[Len(a)] = [of |-> p, at |-> k]
  BY <1>2 DEF Unbroken
<1> QED BY <1>3 DEF a

\* The receiver starts afresh with the packet that follows a pause.
LEMMA StepAfresh ==
  ASSUME state' = "waitStartCode", frame' = <<>>, chunk' = <<>>, buf' = <<>>,
         packet' \in Packets, pos' = 0
  PROVE  InStep'
<1>1. PICK q \in Packets : packet' = q
  OBVIOUS
<1>2. Ahead(q, 0)' = <<[of |-> q, at |-> 0]>> \o (<<>> \o <<>>)
  BY DEF Ahead
<1>3. Unbroken(Ahead(q, 0)') /\ Ahead(q, 0)'[Len(Ahead(q, 0)')] = [of |-> q, at |-> 0]
  BY <1>2, AheadOfNothing
<1>4. StepAt(q, 0)'
  BY <1>1, <1>3 DEF StepAt, Taken, Unbroken
<1>5. 0 \in 0..Len(Slots(q))
  BY PacketParts
<1> QED BY <1>4, <1>5, InStepNext

\* A pause closes the packet that has ended.
LEMMA PauseKeepsStep ==
  ASSUME DmxPackets, TypeOK, InStep, Pause
  PROVE  InStep' /\ Published(packet)
<1>0. PICK p \in Packets : \E k \in 0..Len(Slots(p)) : StepAt(p, k)
  BY InStepIs
<1>1. PICK k \in 0..Len(Slots(p)) : StepAt(p, k)
  BY <1>0
<1>2. /\ buf = <<>> /\ chunk = <<>> /\ chunk' = <<>> /\ buf' = <<>>
      /\ pos \in {0, Len(Slots(packet))} /\ pos' = 0 /\ packet' \in Packets
  BY OnLine DEF Pause, OnGap
<1>3. p = packet /\ k = pos /\ Taken(p, k)
  <2>1. Ahead(p, k) = <<[of |-> p, at |-> k]>> \o (<<>> \o <<>>)
    BY <1>2 DEF Ahead
  <2>2. Ahead(p, k)[Len(Ahead(p, k))] = [of |-> p, at |-> k]
    BY <2>1, AheadOfNothing
  <2>3. [of |-> p, at |-> k] = [of |-> packet, at |-> pos] /\ Taken(p, k)
    BY <1>1, <2>2 DEF StepAt
  <2> QED BY <2>3
<1>4. CASE state = "waitStartCode" /\ frame = <<>>
  <2>1. UNCHANGED <<state, frame, frames>>
    BY <1>4 DEF Pause, OnGap
  <2> QED BY <1>2, <1>4, <2>1, StepAfresh DEF Published
<1>5. CASE state = "readData" /\ k = Len(frame) + 1 /\ frame = ChannelsOf(p, Len(frame))
  <2>1. /\ Len(frame) = Len(p.data) /\ Len(p.data) \in Nat /\ Len(p.data) > 0
        /\ Channels(p) = p.data
    <3>1. /\ Len(Slots(p)) = Len(p.data) + 1 /\ Len(p.data) \in 1..MaxChannels
          /\ Channels(p) = p.data /\ Len(p.data) \in Nat /\ MaxChannels \in Nat /\ Len(frame) \in Nat
      BY SlotsOf, PacketParts, Sizes DEF TypeOK
    <3> QED BY <1>2, <1>3, <1>5, <3>1
  <2>2. frame # <<>> /\ frame = ChannelsOf(p, Len(p.data))
    BY <1>5, <2>1
  <2>3. frames' = TrySend(frames, FramesCap, Values(frame)) /\ frame' = <<>> /\ state' = "waitStartCode"
    BY <1>5, <2>2 DEF Pause, OnGap, ClosePartial
  <2>4. Values(frame) = Channels(p) /\ Values(frame) \in Seq(Byte)
    <3>1. Len(p.data) \in 0..Len(p.data)
      BY <2>1
    <3> QED BY <2>2, <3>1, ChannelsOfFrame, ValuesAreBytes DEF TypeOK
  <2>5. Published(p)
    BY <2>3, <2>4, SentIsLast DEF TypeOK, Published
  <2> QED BY <1>2, <1>3, <2>3, <2>5, StepAfresh
<1> QED BY <1>3, <1>4, <1>5 DEF Taken, ChannelsOf

\* Every step, while nothing is damaged.
LEMMA EveryStep ==
  ASSUME DmxPackets, TypeOK, InStep, [Next]_vars, faults' = faults
  PROVE  /\ InStep'
         /\ Published(IF chunk = <<>> THEN packet ELSE Head(chunk).of)
<1>1. faults \in Nat
  BY Sizes DEF TypeOK
<1>2. CASE SlotArrives \/ ReadEnds
  BY <1>2, ArrivalKeepsStep DEF Published
<1>3. CASE Consume
  BY <1>3, ConsumeKeepsStep DEF Consume
<1>4. CASE Pause
  BY <1>4, PauseKeepsStep DEF Pause, OnGap
<1>5. CASE BadSlot \/ Stall
  <2>1. faults' = faults + 1
    BY <1>5 DEF BadSlot, Stall, Fault
  <2> QED BY <1>1, <2>1
<1>6. CASE Stop \/ UNCHANGED vars
  <2>1. UNCHANGED <<state, frame, chunk, buf, packet, pos, frames>>
    BY <1>6 DEF Stop, vars, rxVars, lineVars
  <2>2. Len(frames) \in Nat
    BY DEF TypeOK
  <2>3. ~ (Len(frames') > Len(frames))
    BY <2>1, <2>2
  <2> QED BY <2>1, <2>3 DEF InStep, Taken, Unbroken, Published
<1>7. CASE Take
  <2>1. UNCHANGED <<state, frame, chunk, buf, packet, pos>> /\ frames' = Tail(frames) /\ frames # <<>>
    BY <1>7 DEF Take, lineVars
  <2>2. ~ (Len(frames') > Len(frames))
    <3>1. frames \in Seq(Seq(Byte))
      BY DEF TypeOK
    <3> QED BY <2>1, <3>1
  <2> QED BY <2>1, <2>2 DEF InStep, Taken, Unbroken, Published
<1> QED BY <1>2, <1>3, <1>4, <1>5, <1>6, <1>7 DEF Next

\* Whatever the channels hold, zeros as well, however reads are cut and however
\* many of them a packet takes: a receiver in step remains so until the line fails.
THEOREM StepIsKept ==
  ASSUME DmxPackets
  PROVE  Spec => KeepsStep
<1>1. TypeOK /\ [Next]_vars => [InStep /\ faults' = faults => InStep']_vars
  BY EveryStep
<1> QED BY <1>1, TypeCorrect, PTL DEF Spec, KeepsStep

\* And of a line of which it is in step it publishes the packets as they end.
THEOREM StepPublishes ==
  ASSUME DmxPackets
  PROVE  Spec => PublishesInStep
<1> DEFINE P == InStep /\ faults' = faults /\ Len(frames') > Len(frames) =>
                  LET ended == IF chunk = <<>> THEN packet ELSE Head(chunk).of
                  IN  frames'[Len(frames')] = Channels(ended)
<1>1. TypeOK /\ [Next]_vars => [P]_vars
  BY EveryStep DEF Published
<1> QED BY <1>1, TypeCorrect, PTL DEF Spec, PublishesInStep

----------------------------------------------------------------------------
(* Whose slots they are.                                                   *)

FromSource == [of : source, at : Nat]

SourceInv == syncBuf \in Seq(FromSource) /\ chunk \in Seq(FromSource) /\ buf \in Seq(FromSource)

\* A read ends, with or without an error.
LEMMA ReadKeepsSource ==
  ASSUME TypeOK, NEW S, syncBuf \in Seq(S), chunk \in Seq(S), buf \in Seq(S),
         NEW error \in BOOLEAN, OnChunk(buf, error)
  PROVE  syncBuf' \in Seq(S) /\ chunk' \in Seq(S)
<1>1. CASE error \/ state = "waitBreak"
  <2>1. Hunt(syncBuf \o buf)
    BY <1>1 DEF OnChunk
  <2>2. syncBuf \o buf \in Seq(S) /\ Len(syncBuf \o buf) <= 4 * PacketSize + ChunkMax
    <3>1. /\ Len(syncBuf) \in Nat /\ Len(syncBuf) <= 4 * PacketSize
          /\ Len(buf) \in Nat /\ Len(buf) <= ChunkMax /\ PacketSize \in Nat /\ ChunkMax \in Nat
      BY Sizes, LenProperties DEF TypeOK
    <3>2. syncBuf \o buf \in Seq(S) /\ Len(syncBuf \o buf) = Len(syncBuf) + Len(buf)
      BY ConcatProperties
    <3> QED BY <3>1, <3>2
  <2> QED BY <2>1, <2>2, HuntKeepsTypes
<1>2. CASE ~ (error \/ state = "waitBreak")
  BY <1>2 DEF OnChunk
<1> QED BY <1>1, <1>2

LEMMA GapKeepsSource ==
  ASSUME NEW S, syncBuf \in Seq(S), OnGap
  PROVE  syncBuf' \in Seq(S) /\ UNCHANGED chunk
<1>1. <<>> \in Seq(S)
  OBVIOUS
<1> QED BY <1>1 DEF OnGap, TakeBuffered

LEMMA SourceStep ==
  ASSUME TypeOK, SourceInv, [Next]_vars
  PROVE  SourceInv' /\ source' = source
<1> DEFINE S == FromSource
<1>1. syncBuf \in Seq(S) /\ chunk \in Seq(S) /\ buf \in Seq(S)
  BY DEF SourceInv
<1>2. source' = source
  BY DEF Next, SlotArrives, ReadEnds, BadSlot, Pause, Stall, Consume, Stop, Take, vars, lineVars
<1>3. ASSUME syncBuf' \in Seq(S), chunk' \in Seq(S), buf' \in Seq(S) PROVE SourceInv'
  BY <1>2, <1>3 DEF SourceInv, FromSource
<1>4. SlotArrives => [of |-> packet', at |-> pos'] \in S
  <2> SUFFICES ASSUME SlotArrives PROVE [of |-> packet', at |-> pos'] \in S
    OBVIOUS
  <2>1. packet' \in source /\ packet' \in Packets /\ pos' \in 1..Len(Slots(packet'))
    BY LineMoves DEF SlotArrives
  <2>2. Len(Slots(packet')) \in Nat
    BY <2>1, PacketParts
  <2> QED BY <2>1, <2>2 DEF FromSource
<1> HIDE DEF S
<1>5. <<>> \in Seq(S)
  OBVIOUS
<1>6. CASE SlotArrives
  <2> DEFINE c == [of |-> packet', at |-> pos']
  <2>1. buf' = Append(buf, c) /\ c \in S /\ UNCHANGED <<syncBuf, chunk>>
    BY <1>4, <1>6 DEF SlotArrives, rxVars
  <2> HIDE DEF c
  <2>2. Append(buf, c) \in Seq(S)
    BY <1>1, <2>1
  <2>3. buf' \in Seq(S)
    BY <2>1, <2>2
  <2> QED BY <1>1, <1>2, <1>3, <2>1, <2>3
<1>7. CASE ReadEnds
  BY <1>1, <1>3, <1>5, <1>7, ReadKeepsSource DEF ReadEnds
<1>8. CASE BadSlot
  <2>1. CASE OnChunk(buf, TRUE)
    BY <1>1, <1>3, <1>5, <1>8, <2>1, ReadKeepsSource DEF BadSlot
  <2>2. CASE OnGap
    BY <1>1, <1>3, <1>5, <1>8, <2>2, GapKeepsSource DEF BadSlot
  <2>3. CASE OnShortGap
    BY <1>1, <1>3, <1>5, <1>8, <2>3 DEF BadSlot, OnShortGap, rxVars
  <2> QED BY <1>8, <2>1, <2>2, <2>3 DEF BadSlot
<1>9. CASE Pause \/ Stall
  BY <1>1, <1>3, <1>9, GapKeepsSource DEF Pause, Stall
<1>10. CASE Consume
  <2>1. chunk # <<>> /\ chunk' = Tail(chunk) /\ UNCHANGED <<syncBuf, buf>>
    BY <1>10 DEF Consume, lineVars
  <2>2. Tail(chunk) \in Seq(S)
    BY <1>1, <2>1
  <2> QED BY <1>1, <1>2, <1>3, <2>1, <2>2
<1>11. CASE Stop \/ Take
  BY <1>1, <1>3, <1>11 DEF Stop, Take, lineVars
<1>12. CASE UNCHANGED vars
  BY <1>1, <1>3, <1>12 DEF vars, rxVars, lineVars
<1> QED BY <1>2, <1>6, <1>7, <1>8, <1>9, <1>10, <1>11, <1>12 DEF Next

LEMMA SourceInvariant == Spec => [](TypeOK /\ SourceInv)
<1>1. Init => SourceInv
  <2>1. \A S : <<>> \in Seq(S)
    OBVIOUS
  <2> QED BY <2>1 DEF Init, SourceInv
<1>2. TypeOK /\ SourceInv /\ [Next]_vars => SourceInv'
  BY SourceStep
<1> QED BY <1>1, <1>2, TypeCorrect, PTL DEF Spec

\* Where no channel is at zero, a zero is a start code.
LEMMA ZeroIsStart ==
  ASSUME DmxPackets, Lit, NEW c \in Place, c \in FromSource, Value(c) = StartCodeDMX
  PROVE  c.at = 1
<1>1. c.of \in Packets /\ c.at \in 1..Len(Slots(c.of)) /\ c.of \in source
  BY Places DEF FromSource
<1>2. /\ Len(Slots(c.of)) = Len(c.of.data) + 1 /\ Len(c.of.data) \in Nat
      /\ \A i \in 1..Len(c.of.data) : Slots(c.of)[i + 1] = c.of.data[i]
  BY <1>1, SlotsOf, PacketParts
<1>3. ASSUME c.at # 1 PROVE FALSE
  <2>1. c.at - 1 \in 1..Len(c.of.data) /\ (c.at - 1) + 1 = c.at
    BY <1>1, <1>2, <1>3
  <2>2. Slots(c.of)[c.at] = c.of.data[c.at - 1]
    BY <1>2, <2>1
  <2> QED BY <1>1, <2>1, <2>2 DEF Lit, Value
<1> QED BY <1>3

----------------------------------------------------------------------------
(* The hunt.                                                               *)

\* What is read while hunting goes on slot by slot, but for a pause after the very
\* first: no more than one slot outlives a pause in the buffer.
Joins(s) == \A i \in 1..(Len(s) - 1) :
  \/ Adjacent(s[i], s[i + 1])
  \/ i = 1 /\ s[1].at = Len(Slots(s[1].of)) /\ s[2].at = 1

Ends(s) == s # <<>> =>
  \/ s[Len(s)] = [of |-> packet, at |-> pos]
  \/ Len(s) = 1 /\ s[1].at = Len(Slots(s[1].of)) /\ pos = 0

Joined == /\ chunk = <<>> /\ frame = <<>>
          /\ Joins(syncBuf \o buf) /\ Ends(syncBuf \o buf)

\* The invariant, if no channel is at zero: until the line fails, the receiver hunts
\* in what it has read since it joined, or is in step.
SyncInv == Lit /\ faults = 0 => IF state = "waitBreak" THEN Joined ELSE InStep

LEMMA Heard ==
  ASSUME TypeOK
  PROVE  /\ syncBuf \o buf \in Seq(Place) /\ Len(syncBuf \o buf) \in Nat
         /\ syncBuf \in Seq(Place) /\ buf \in Seq(Place)
<1>1. syncBuf \in Seq(Place) /\ buf \in Seq(Place)
  BY DEF TypeOK
<1>2. syncBuf \o buf \in Seq(Place)
  BY <1>1, ConcatProperties
<1> QED BY <1>1, <1>2, LenProperties

LEMMA EndsWhere ==
  ASSUME NEW s \in Seq(Place), Ends(s), Len(s) > 1
  PROVE  s[Len(s)] = [of |-> packet, at |-> pos]
<1>1. Len(s) \in Nat
  BY LenProperties
<1> DEFINE L == Len(s)
<1>2. L \in Nat /\ L > 1
  BY <1>1
<1> HIDE DEF L
<1>3. L # 1 /\ L # 0
  BY <1>2
<1>4. s # <<>>
  BY <1>3 DEF L
<1> QED BY <1>3, <1>4 DEF Ends, L

\* A start code begins what joins: there is no pause in it.
LEMMA StartsUnbroken ==
  ASSUME DmxPackets, NEW s \in Seq(Place), Joins(s), s # <<>>, s[1].at = 1
  PROVE  Unbroken(s)
<1>1. s[1] \in Place /\ Len(s) \in Nat
  BY EmptySeq
<1>2. s[1].of \in Packets
  BY <1>1, Places
<1>3. Len(Slots(s[1].of)) = Len(s[1].of.data) + 1 /\ Len(s[1].of.data) \in 1..MaxChannels
  BY <1>2, SlotsOf
<1>4. s[1].at # Len(Slots(s[1].of))
  <2> DEFINE L == Len(Slots(s[1].of))
             n == Len(s[1].of.data)
  <2>1. L = n + 1 /\ n \in 1..MaxChannels /\ MaxChannels \in Nat
    BY <1>3, Sizes
  <2> HIDE DEF L, n
  <2>2. L # 1
    BY <2>1
  <2> QED BY <2>2 DEF L
<1> QED BY <1>4 DEF Joins, Unbroken

\* Consuming starts in step at a start code.
LEMMA StepFrom ==
  ASSUME NEW s \in Seq(Place), s # <<>>, s[1].at = 1, Unbroken(s),
         s[Len(s)] = [of |-> packet', at |-> pos'],
         state' = "waitStartCode", frame' = <<>>, chunk' = s, buf' = <<>>
  PROVE  InStep'
<1>1. s[1] \in Place /\ Len(s) \in Nat /\ Len(s) > 0
  BY EmptySeq
<1>2. PICK q \in Packets : s[1].of = q
  BY <1>1, Places
<1> DEFINE x == [of |-> q, at |-> 0]
           a == <<x>> \o s
<1>3. Ahead(q, 0)' = a
  BY ConcatEmptySeq DEF Ahead
<1>4. /\ Len(a) = Len(s) + 1 /\ a[1] = x /\ \A i \in 1..Len(s) : a[i + 1] = s[i]
  <2>1. x \in Spot
    BY DEF Spot
  <2>2. s \in Seq(Spot)
    BY PlaceIsSpot
  <2> HIDE DEF x
  <2> QED BY <2>1, <2>2, FrontAt
<1>5. Adjacent(x, s[1])
  BY <1>2 DEF Adjacent
<1> HIDE DEF x, a
<1>6. ASSUME NEW i \in 1..(Len(a) - 1) PROVE Adjacent(a[i], a[i + 1])
  <2>1. CASE i = 1
    BY <1>1, <1>4, <1>5, <2>1
  <2>2. CASE i # 1
    <3>1. i - 1 \in 1..(Len(s) - 1) /\ i - 1 \in 1..Len(s) /\ i \in 1..Len(s) /\ (i - 1) + 1 = i
      BY <1>1, <1>4, <2>2
    <3>2. Adjacent(s[i - 1], s[(i - 1) + 1])
      BY <3>1 DEF Unbroken
    <3>3. a[i] = s[i - 1] /\ a[i + 1] = s[i]
      BY <1>4, <3>1
    <3> QED BY <3>1, <3>2, <3>3
  <2> QED BY <2>1, <2>2
<1>7. a[Len(a)] = [of |-> packet', at |-> pos']
  <2>1. Len(s) \in 1..Len(s)
    BY <1>1
  <2> QED BY <1>4, <2>1
<1>8. StepAt(q, 0)'
  BY <1>3, <1>6, <1>7 DEF StepAt, Taken, Unbroken
<1>9. 0 \in 0..Len(Slots(q))
  BY PacketParts
<1> QED BY <1>8, <1>9, InStepNext

\* What is left of a sequence that joins.
LEMMA SuffixJoins ==
  ASSUME NEW s \in Seq(Place), Joins(s), NEW m \in 0..(Len(s) - 1)
  PROVE  LET t == SubSeq(s, m + 1, Len(s)) IN
         /\ t \in Seq(Place) /\ Len(t) = Len(s) - m /\ t # <<>>
         /\ t[1] = s[m + 1] /\ t[Len(t)] = s[Len(s)]
         /\ Joins(t)
<1> DEFINE t == SubSeq(s, m + 1, Len(s))
<1>1. Len(s) \in Nat /\ m \in Nat
  BY LenProperties
<1>2. t \in Seq(Place) /\ Len(t) = Len(s) - m /\ \A i \in 1..(Len(s) - m) : t[i] = s[m + i]
  BY <1>1
<1> HIDE DEF t
<1>3. t # <<>> /\ t[1] = s[m + 1] /\ t[Len(t)] = s[Len(s)]
  <2>1. Len(t) > 0 /\ 1 \in 1..(Len(s) - m) /\ Len(t) \in 1..(Len(s) - m) /\ m + Len(t) = Len(s)
    BY <1>1, <1>2
  <2>2. t[1] = s[m + 1] /\ t[Len(t)] = s[m + Len(t)]
    BY <1>2, <2>1
  <2>3. t # <<>>
    BY <2>1
  <2> QED BY <2>1, <2>2, <2>3
<1>4. Joins(t)
  <2> SUFFICES ASSUME NEW i \in 1..(Len(t) - 1)
               PROVE  \/ Adjacent(t[i], t[i + 1])
                      \/ i = 1 /\ t[1].at = Len(Slots(t[1].of)) /\ t[2].at = 1
    BY DEF Joins
  <2>1. /\ m + i \in 1..(Len(s) - 1) /\ i \in 1..(Len(s) - m) /\ i + 1 \in 1..(Len(s) - m)
        /\ m + (i + 1) = (m + i) + 1
    BY <1>1, <1>2
  <2>2. t[i] = s[m + i] /\ t[i + 1] = s[(m + i) + 1]
    BY <1>2, <2>1
  <2>3. CASE Adjacent(s[m + i], s[(m + i) + 1])
    BY <2>2, <2>3
  <2>4. CASE m + i = 1 /\ s[1].at = Len(Slots(s[1].of)) /\ s[2].at = 1
    <3>1. m = 0 /\ i = 1
      BY <1>1, <2>4
    <3> QED BY <2>2, <2>4, <3>1
  <2> QED BY <2>1, <2>3, <2>4 DEF Joins
<1> QED BY <1>2, <1>3, <1>4 DEF t

\* A slot arrives while hunting.
LEMMA ArrivalJoins ==
  ASSUME TypeOK, Joined, SlotArrives
  PROVE  Joined'
<1> DEFINE c == [of |-> packet', at |-> pos']
           s == syncBuf \o buf
           t == Append(s, c)
<1>1. buf' = Append(buf, c) /\ UNCHANGED <<syncBuf, chunk, frame>> /\ SlotGoesBy
  BY DEF SlotArrives, rxVars
<1>2. c \in Place /\ c.at = pos'
  BY <1>1, LineMoves
<1>3. Joins(s) /\ Ends(s) /\ s \in Seq(Place) /\ Len(s) \in Nat
  BY Heard DEF Joined
<1>4. syncBuf' \o buf' = t
  <2> HIDE DEF c
  <2> QED BY <1>1, <1>2, Heard, AppendToConcat
<1>5. /\ Len(t) = Len(s) + 1 /\ t[Len(s) + 1] = c /\ \A i \in 1..Len(s) : t[i] = s[i]
  <2> HIDE DEF c, s
  <2> QED BY <1>2, <1>3, AppendProperties
<1>6. s # <<>> => \/ Adjacent(s[Len(s)], c)
                  \/ Len(s) = 1 /\ s[1].at = Len(Slots(s[1].of)) /\ c.at = 1
  <2>1. CASE s # <<>> /\ s[Len(s)] = [of |-> packet, at |-> pos]
    BY <1>1, <2>1, GoesOn
  <2>2. CASE Len(s) = 1 /\ s[1].at = Len(Slots(s[1].of)) /\ pos = 0
    <3>1. packet \in Packets
      BY OnLine
    <3>2. Len(Slots(packet)) \in Nat /\ Len(Slots(packet)) > 0
      BY <3>1, SlotsStart
    <3>3. pos' = 1
      BY <1>1, <2>2, <3>2 DEF SlotGoesBy
    <3> QED BY <1>2, <2>2, <3>3
  <2> QED BY <1>3, <2>1, <2>2 DEF Ends
<1> HIDE DEF c, s, t
<1>7. Joins(t)
  <2> SUFFICES ASSUME NEW i \in 1..(Len(t) - 1)
               PROVE  \/ Adjacent(t[i], t[i + 1])
                      \/ i = 1 /\ t[1].at = Len(Slots(t[1].of)) /\ t[2].at = 1
    BY DEF Joins
  <2>1. CASE i = Len(s)
    <3>1. s # <<>> /\ t[i] = s[i] /\ t[i + 1] = c
      BY <1>3, <1>5, <2>1, EmptySeq
    <3>2. CASE Adjacent(s[Len(s)], c)
      BY <2>1, <3>1, <3>2
    <3>3. CASE Len(s) = 1 /\ s[1].at = Len(Slots(s[1].of)) /\ c.at = 1
      BY <2>1, <3>1, <3>3
    <3> QED BY <1>6, <3>1, <3>2, <3>3
  <2>2. CASE i # Len(s)
    <3>1. i \in 1..(Len(s) - 1) /\ i \in 1..Len(s) /\ i + 1 \in 1..Len(s)
      BY <1>3, <1>5, <2>2
    <3>2. t[i] = s[i] /\ t[i + 1] = s[i + 1]
      BY <1>5, <3>1
    <3>3. i = 1 => t[1] = s[1] /\ t[2] = s[2]
      BY <3>2
    <3> QED BY <1>3, <3>1, <3>2, <3>3 DEF Joins
  <2> QED BY <2>1, <2>2
<1>8. t[Len(t)] = [of |-> packet', at |-> pos']
  BY <1>5 DEF c
<1>9. Joins(syncBuf' \o buf') /\ Ends(syncBuf \o buf)'
  BY <1>4, <1>7, <1>8 DEF Ends
<1> QED BY <1>1, <1>9 DEF Joined, Joins

\* The offset that is found is a start code's.
LEMMA OffsetIsStart ==
  ASSUME DmxPackets, Lit, NEW s \in Seq(Place), s \in Seq(FromSource), Offsets(s) # {}
  PROVE  /\ Min(Offsets(s)) \in 0..(PacketSize - 1) /\ Len(s) >= 2 * PacketSize
         /\ s[Min(Offsets(s)) + 1].at = 1
<1>1. PacketSize \in Nat /\ PacketSize > 1 /\ Len(s) \in Nat
  BY Sizes, LenProperties
<1>2. Len(s) >= 2 * PacketSize /\ Offsets(s) = {off \in 0..(PacketSize - 1) : Fits(s, off)}
  <2>1. CASE Len(s) < 2 * PacketSize
    BY <2>1 DEF Offsets
  <2>2. CASE ~ (Len(s) < 2 * PacketSize)
    BY <1>1, <2>2 DEF Offsets
  <2> QED BY <2>1, <2>2
<1>3. Min(Offsets(s)) \in Offsets(s)
  <2>1. Offsets(s) \in SUBSET Nat
    BY <1>1, <1>2
  <2> QED BY <2>1, MinOfNumbers
<1> DEFINE m == Min(Offsets(s))
<1>4. m \in 0..(PacketSize - 1) /\ Fits(s, m)
  BY <1>2, <1>3
<1> HIDE DEF m
<1>5. m \in m..(Len(s) - PacketSize - 1) /\ (m - m) % PacketSize = 0 /\ m + 1 \in 1..Len(s)
  <2>1. m - m = 0 /\ 0 % PacketSize = 0
    BY <1>1, <1>4
  <2>2. m <= Len(s) - PacketSize - 1 /\ m + 1 <= Len(s)
    BY <1>1, <1>2, <1>4
  <2> QED BY <1>1, <1>4, <2>1, <2>2
<1>6. Value(s[m + 1]) = StartCodeDMX
  BY <1>4, <1>5 DEF Fits
<1>7. s[m + 1] \in Place /\ s[m + 1] \in FromSource
  BY <1>5
<1>8. s[m + 1].at = 1
  BY <1>6, <1>7, ZeroIsStart
<1> QED BY <1>2, <1>4, <1>8 DEF m

\* A read ends while hunting: the hunt goes on, or ends in step.
LEMMA ReadHunts ==
  ASSUME DmxPackets, Lit, TypeOK, SourceInv, Joined, state = "waitBreak", ReadEnds
  PROVE  IF state' = "waitBreak" THEN Joined' ELSE InStep'
<1> DEFINE s == syncBuf \o buf
<1>1. /\ Hunt(s) /\ buf # <<>> /\ buf' = <<>> /\ UNCHANGED <<packet, pos, frame>>
  BY DEF ReadEnds, OnChunk
<1>2. /\ Joins(s) /\ Ends(s) /\ s \in Seq(Place) /\ Len(s) \in Nat /\ frame' = <<>>
      /\ PacketSize \in Nat /\ PacketSize > 1
  BY <1>1, Heard, Sizes DEF Joined
<1>0. s \in Seq(FromSource)
  BY ConcatProperties DEF SourceInv
<1>3. CASE Offsets(s) # {}
  <2> DEFINE m == Min(Offsets(s))
             t == SubSeq(s, m + 1, Len(s))
  <2>1. state' = "waitStartCode" /\ chunk' = t
    BY <1>1, <1>3 DEF Hunt, AlignedPart
  <2> HIDE DEF s
  <2>2. m \in 0..(PacketSize - 1) /\ Len(s) >= 2 * PacketSize /\ s[m + 1].at = 1
    BY <1>0, <1>2, <1>3, OffsetIsStart
  <2>3. s[Len(s)] = [of |-> packet, at |-> pos]
    <3> HIDE DEF m, t
    <3>1. Len(s) >= 2 * PacketSize /\ PacketSize > 1 /\ PacketSize \in Nat /\ Len(s) \in Nat
      BY <1>2, <2>2
    <3>2. Len(s) > 1
      BY <3>1
    <3> QED BY <1>2, <3>2, EndsWhere
  <2> HIDE DEF m
  <2>4. m \in 0..(Len(s) - 1)
    BY <1>2, <2>2
  <2>5. t \in Seq(Place) /\ t # <<>> /\ t[1].at = 1 /\ t[Len(t)] = [of |-> packet', at |-> pos'] /\ Joins(t)
    BY <1>1, <1>2, <2>2, <2>3, <2>4, SuffixJoins
  <2> HIDE DEF t
  <2>6. Unbroken(t)
    BY <2>5, StartsUnbroken
  <2> QED BY <1>1, <1>2, <2>1, <2>5, <2>6, StepFrom
<1>4. CASE Offsets(s) = {}
  <2>1. state' = "waitBreak" /\ chunk' = <<>> /\ syncBuf' = Bounded(s)
    BY <1>1, <1>4 DEF Hunt
  <2> HIDE DEF s
  <2>2. CASE Bounded(s) = s
    <3>1. syncBuf' \o buf' = s
      BY <1>1, <1>2, <2>1, <2>2, ConcatEmptySeq
    <3>2. Ends(s)'
      BY <1>1, <1>2, <3>1 DEF Ends, s
    <3> QED BY <1>1, <1>2, <2>1, <3>1, <3>2 DEF Joined, Joins, Ends, s
  <2>3. CASE Len(s) > 4 * PacketSize /\ Bounded(s) = SubSeq(s, Len(s) - 2 * PacketSize + 1, Len(s))
    <3> DEFINE m == Len(s) - 2 * PacketSize
               t == SubSeq(s, m + 1, Len(s))
    <3>1. m \in 0..(Len(s) - 1)
      BY <1>2, <2>3
    <3>2. s[Len(s)] = [of |-> packet, at |-> pos]
      <4>1. s # <<>> /\ Len(s) # 1
        BY <1>2, <2>3
      <4> QED BY <1>2, <4>1 DEF Ends
    <3> HIDE DEF m
    <3>3. t \in Seq(Place) /\ t[Len(t)] = [of |-> packet, at |-> pos] /\ Joins(t)
      BY <1>2, <3>1, <3>2, SuffixJoins
    <3>4. Bounded(s) = t
      BY <2>3 DEF m
    <3> HIDE DEF t
    <3>5. syncBuf' \o buf' = t
      BY <1>1, <2>1, <3>3, <3>4, ConcatEmptySeq
    <3>6. Joins(syncBuf' \o buf') /\ Ends(syncBuf \o buf)'
      BY <1>1, <3>3, <3>5 DEF Ends
    <3> QED BY <1>2, <2>1, <3>6 DEF Joined, Joins
  <2> QED BY <2>2, <2>3 DEF Bounded
<1> QED BY <1>3, <1>4

\* What is in the buffer when the source pauses, if it begins with a start code: one
\* packet that has ended.
LEMMA OnePacket ==
  ASSUME DmxPackets, NEW s \in Seq(Place), Len(s) > 1, Unbroken(s), s[1].at = 1,
         NEW p \in Packets, s[1].of = p, NEW q \in Packets,
         s[Len(s)] = [of |-> q, at |-> Len(Slots(q))]
  PROVE  LET n == Min({Len(s) - 1, MaxChannels}) IN
         n = Len(p.data) /\ SubSeq(s, 2, n + 1) = ChannelsOf(p, n)
<1> DEFINE L == Len(p.data)
<1>1. /\ L \in 1..MaxChannels /\ MaxChannels \in Nat /\ Len(Slots(p)) = L + 1 /\ Len(s) \in Nat
      /\ Short(p) <=> L < MaxChannels
  BY SlotsOf, Sizes DEF Short
<1> HIDE DEF L
<1>2. ASSUME NEW i \in 1..Len(s), i <= L + 1 PROVE s[i] = [of |-> p, at |-> i]
  <2> DEFINE wrong == {j \in 1..Len(s) : j <= L + 1 /\ s[j] # [of |-> p, at |-> j]}
  <2>1. CASE wrong = {}
    BY <1>2, <2>1
  <2>2. CASE wrong # {}
    <3>1. wrong \in SUBSET Nat
      BY <1>1
    <3>2. PICK j \in wrong : \A y \in wrong : j <= y
      BY <2>2, <3>1, MinOfNumbers
    <3>3. j \in 1..Len(s) /\ j <= L + 1 /\ s[j] # [of |-> p, at |-> j]
      BY <3>2
    <3>4. s[1] = [of |-> p, at |-> 1]
      <4>1. s[1] \in Place
        BY <1>1
      <4> QED BY <4>1, Places
    <3>5. j - 1 \in 1..(Len(s) - 1) /\ j - 1 \in 1..Len(s) /\ (j - 1) + 1 = j /\ j - 1 < L + 1 /\ j - 1 < j
      BY <1>1, <3>3, <3>4
    <3>6. j - 1 \notin wrong
      <4>1. ~ (j <= j - 1)
        BY <3>5
      <4> QED BY <3>2, <4>1
    <3>7. s[j - 1] = [of |-> p, at |-> j - 1]
      BY <1>1, <3>5, <3>6
    <3>8. Adjacent(s[j - 1], s[j])
      <4>1. Adjacent(s[j - 1], s[(j - 1) + 1])
        BY <3>5 DEF Unbroken
      <4> QED BY <3>5, <4>1
    <3>9. j - 1 # Len(Slots(p))
      BY <1>1, <3>5
    <3>10. s[j].of = p /\ s[j].at = j
      BY <3>5, <3>7, <3>8, <3>9 DEF Adjacent
    <3>11. s[j] \in Place
      BY <3>3
    <3>12. s[j] = [of |-> p, at |-> j]
      BY <3>10, <3>11, Places
    <3> QED BY <3>3, <3>12
  <2> QED BY <2>1, <2>2
<1>3. Len(s) >= L + 1
  <2> SUFFICES ASSUME Len(s) < L + 1 PROVE FALSE
    BY <1>1
  <2>1. Len(s) \in 1..Len(s)
    BY <1>1
  <2>2. s[Len(s)] = [of |-> p, at |-> Len(s)]
    BY <1>1, <1>2, <2>1
  <2>3. q = p /\ Len(Slots(q)) = Len(s)
    BY <2>2
  <2> QED BY <1>1, <2>3
<1>4. Len(s) = L + 1 \/ L = MaxChannels
  <2> SUFFICES ASSUME Len(s) > L + 1, L < MaxChannels PROVE FALSE
    BY <1>1, <1>3
  <2>1. L + 1 \in 1..(Len(s) - 1) /\ L + 1 \in 1..Len(s)
    BY <1>1
  <2>2. s[L + 1] = [of |-> p, at |-> L + 1]
    BY <1>1, <1>2, <2>1
  <2>3. Adjacent(s[L + 1], s[(L + 1) + 1])
    BY <2>1 DEF Unbroken
  <2>4. s[(L + 1) + 1].of = p /\ s[(L + 1) + 1].at = (L + 1) + 1
    BY <1>1, <2>2, <2>3 DEF Adjacent
  <2>5. (L + 1) + 1 \in 1..Len(s)
    BY <1>1
  <2>6. s[(L + 1) + 1] \in Place
    BY <2>5
  <2>7. (L + 1) + 1 \in 1..Len(Slots(p))
    BY <2>4, <2>6, Places
  <2> QED BY <1>1, <2>7
<1> DEFINE n == Min({Len(s) - 1, MaxChannels})
<1>5. n = L
  <2>1. {Len(s) - 1, MaxChannels} \in SUBSET Nat
    BY <1>1, <1>3
  <2>2. n \in {Len(s) - 1, MaxChannels} /\ n <= Len(s) - 1 /\ n <= MaxChannels
    BY <2>1, MinOfNumbers
  <2> QED BY <1>1, <1>3, <1>4, <2>2
<1> HIDE DEF n
<1>6. SubSeq(s, 2, n + 1) = ChannelsOf(p, n)
  <2> DEFINE f == SubSeq(s, 2, n + 1)
             c == ChannelsOf(p, n)
  <2>1. f \in Seq(Place) /\ Len(f) = n /\ \A i \in 1..n : f[i] = s[i + 1]
    BY <1>1, <1>3, <1>5
  <2>2. c \in Seq(Place) /\ Len(c) = n
    <3>1. n \in 0..Len(p.data)
      BY <1>1, <1>5 DEF L
    <3> QED BY <3>1, ChannelsOfFrame
  <2>3. \A i \in 1..n : c[i] = [of |-> p, at |-> i + 1]
    BY DEF ChannelsOf
  <2> HIDE DEF f, c
  <2>4. \A i \in 1..n : i + 1 \in 1..Len(s) /\ i + 1 <= L + 1
    BY <1>1, <1>3, <1>5
  <2>5. \A i \in 1..Len(f) : f[i] = c[i]
    BY <1>2, <2>1, <2>3, <2>4
  <2>6. f = c
    BY <2>1, <2>2, <2>5, SeqEqual
  <2> QED BY <2>6 DEF f, c
<1> QED BY <1>5, <1>6 DEF n, L

\* A step publishes a packet of the source's, if anything.
PublishedOne == Len(frames') > Len(frames) => \E p \in source : frames'[Len(frames')] = Channels(p)

\* The source pauses while the receiver hunts.
LEMMA PauseHunts ==
  ASSUME DmxPackets, Lit, TypeOK, SourceInv, Joined, state = "waitBreak", Pause
  PROVE  PublishedOne /\ IF state' = "waitBreak" THEN Joined' ELSE InStep'
<1>1. /\ buf = <<>> /\ buf' = <<>> /\ chunk = <<>> /\ chunk' = <<>> /\ frame = <<>>
      /\ pos \in {0, Len(Slots(packet))} /\ pos' = 0 /\ packet' \in Packets
      /\ packet \in Packets
  BY OnLine DEF Pause, OnGap, Joined
<1>2. syncBuf \in Seq(Place) /\ Len(syncBuf) \in Nat /\ syncBuf \o buf = syncBuf
  BY <1>1, Heard, LenProperties, ConcatEmptySeq
<1>3. Joins(syncBuf) /\ Ends(syncBuf)
  BY <1>2 DEF Joined
<1>4. ASSUME NEW i \in 1..Len(syncBuf), syncBuf[i] = [of |-> packet, at |-> pos]
      PROVE  pos = Len(Slots(packet))
  <2>1. syncBuf[i] \in Place
    BY <1>2
  <2>2. pos \in 1..Len(Slots(packet))
    BY <1>4, <2>1, Places
  <2> QED BY <1>1, <2>2
<1>5. CASE Len(syncBuf) > 1
  <2> DEFINE p == syncBuf[1].of
             n == Min({Len(syncBuf) - 1, MaxChannels})
             f == SubSeq(syncBuf, 2, n + 1)
  <2>1. /\ frames' = IF Value(Head(syncBuf)) = StartCodeDMX THEN TrySend(frames, FramesCap, Values(f)) ELSE frames
        /\ state' = "waitStartCode" /\ frame' = <<>>
    BY <1>1, <1>5 DEF Pause, OnGap, TakeBuffered
  <2>2. InStep'
    BY <1>1, <2>1, StepAfresh
  <2>3. Head(syncBuf) = syncBuf[1] /\ syncBuf[1] \in Place /\ syncBuf # <<>> /\ Len(syncBuf) \in 1..Len(syncBuf)
    BY <1>2, <1>5, EmptySeq
  <2>4. p \in Packets /\ p \in source /\ syncBuf[1] \in FromSource
    <3>1. syncBuf[1] \in FromSource
      BY <1>5, <2>3, HeadTailProperties DEF SourceInv
    <3> QED BY <2>3, <3>1, Places DEF FromSource
  <2>5. CASE Value(Head(syncBuf)) = StartCodeDMX
    <3>1. syncBuf[1].at = 1
      BY <2>3, <2>4, <2>5, ZeroIsStart
    <3>2. Unbroken(syncBuf)
      BY <1>2, <1>3, <2>3, <3>1, StartsUnbroken
    <3>3. syncBuf[Len(syncBuf)] = [of |-> packet, at |-> Len(Slots(packet))]
      <4>1. syncBuf[Len(syncBuf)] = [of |-> packet, at |-> pos]
        BY <1>2, <1>3, <1>5, EndsWhere
      <4> QED BY <1>4, <2>3, <4>1
    <3>4. n = Len(p.data) /\ f = ChannelsOf(p, n)
      BY <1>1, <1>2, <1>5, <2>4, <3>1, <3>2, <3>3, OnePacket
    <3> HIDE DEF f, n
    <3>5. n \in 0..Len(p.data)
      BY <2>4, <3>4, PacketParts
    <3> HIDE DEF p
    <3>6. Values(f) = Channels(p) /\ Values(f) \in Seq(Byte)
      BY <2>4, <3>4, <3>5, ChannelsOfFrame, ValuesAreBytes
    <3>7. PublishedOne
      BY <2>1, <2>4, <2>5, <3>6, SentIsLast DEF TypeOK, PublishedOne
    <3> QED BY <2>1, <2>2, <3>7
  <2>6. CASE Value(Head(syncBuf)) # StartCodeDMX
    <3>1. frames' = frames
      BY <2>1, <2>6
    <3>2. Len(frames) \in Nat
      BY DEF TypeOK
    <3>3. PublishedOne
      BY <3>1, <3>2 DEF PublishedOne
    <3> QED BY <2>1, <2>2, <3>3
  <2> QED BY <2>5, <2>6
<1>6. CASE ~ (Len(syncBuf) > 1)
  <2>1. UNCHANGED <<frames, frame, state, syncBuf>>
    BY <1>1, <1>6 DEF Pause, OnGap
  <2>2. Len(frames) \in Nat
    BY DEF TypeOK
  <2>3. PublishedOne
    BY <2>1, <2>2 DEF PublishedOne
  <2>4. Ends(syncBuf)'
    <3>1. CASE syncBuf = <<>>
      BY <2>1, <3>1 DEF Ends
    <3>2. CASE syncBuf # <<>>
      <4>1. Len(syncBuf) = 1 /\ Len(syncBuf) \in 1..Len(syncBuf)
        BY <1>2, <1>6, <3>2, EmptySeq
      <4>2. syncBuf[1].at = Len(Slots(syncBuf[1].of))
        <5>1. CASE syncBuf[Len(syncBuf)] = [of |-> packet, at |-> pos]
          <6>1. pos = Len(Slots(packet))
            BY <1>4, <4>1, <5>1
          <6> QED BY <4>1, <5>1, <6>1
        <5>2. CASE syncBuf[1].at = Len(Slots(syncBuf[1].of))
          BY <5>2
        <5> QED BY <1>3, <3>2, <5>1, <5>2 DEF Ends
      <4> QED BY <1>1, <2>1, <4>1, <4>2 DEF Ends
    <3> QED BY <3>1, <3>2
  <2>5. syncBuf' \o buf' = syncBuf
    BY <1>1, <1>2, <2>1
  <2>6. Joined'
    BY <1>1, <1>3, <2>1, <2>4, <2>5 DEF Joined, Joins, Ends
  <2> QED BY <2>1, <2>3, <2>6
<1> QED BY <1>5, <1>6

\* Every step, until the line fails.
LEMMA SyncStep ==
  ASSUME DmxPackets, Lit, TypeOK, SourceInv, SyncInv, [Next]_vars, faults' = 0
  PROVE  /\ IF state' = "waitBreak" THEN Joined' ELSE InStep'
         /\ PublishedOne
         /\ state # "waitBreak" => state' # "waitBreak"
<1>0. faults = 0 /\ ~ (BadSlot \/ Stall)
  <2>1. faults \in Nat
    BY Sizes DEF TypeOK
  <2>2. BadSlot \/ Stall => faults' = faults + 1
    BY DEF BadSlot, Stall, Fault
  <2>3. SlotArrives \/ ReadEnds \/ Pause \/ Consume \/ Stop \/ Take \/ UNCHANGED vars => faults' = faults
    BY DEF SlotArrives, ReadEnds, Pause, Consume, Stop, Take, vars, lineVars
  <2> QED BY <2>1, <2>2, <2>3 DEF Next
<1>1. CASE state # "waitBreak"
  <2> DEFINE p == IF chunk = <<>> THEN packet ELSE Head(chunk).of
  <2>1. InStep
    BY <1>0, <1>1 DEF SyncInv
  <2>2. InStep' /\ Published(p)
    BY <1>0, <2>1, EveryStep
  <2>3. p \in source
    <3>1. CASE chunk = <<>>
      BY <3>1, OnLine
    <3>2. CASE chunk # <<>>
      <4>1. Head(chunk) \in FromSource
        BY <3>2, HeadTailProperties DEF SourceInv
      <4> QED BY <3>2, <4>1 DEF FromSource
    <3> QED BY <3>1, <3>2
  <2> HIDE DEF p
  <2>4. state' # "waitBreak"
    BY <2>2 DEF InStep, Taken
  <2> QED BY <2>2, <2>3, <2>4 DEF Published, PublishedOne
<1>2. CASE state = "waitBreak"
  <2>1. Joined
    BY <1>0, <1>2 DEF SyncInv
  <2>2. CASE Pause
    BY <1>2, <2>1, <2>2, PauseHunts
  <2>3. ASSUME frames' = frames \/ (frames # <<>> /\ frames' = Tail(frames)) PROVE PublishedOne
    <3>1. frames \in Seq(Seq(Byte)) /\ Len(frames) \in Nat
      BY DEF TypeOK
    <3>2. ~ (Len(frames') > Len(frames))
      BY <2>3, <3>1
    <3> QED BY <3>2 DEF PublishedOne
  <2>4. CASE SlotArrives
    <3>1. UNCHANGED <<state, frames>>
      BY <2>4 DEF SlotArrives, rxVars
    <3>2. PublishedOne
      BY <2>3, <3>1
    <3>3. Joined' /\ state' = "waitBreak"
      BY <1>2, <2>1, <2>4, <3>1, ArrivalJoins
    <3> QED BY <1>2, <3>2, <3>3
  <2>5. CASE ReadEnds
    <3>1. UNCHANGED frames
      BY <2>5 DEF ReadEnds, OnChunk
    <3>2. PublishedOne
      BY <2>3, <3>1
    <3>3. IF state' = "waitBreak" THEN Joined' ELSE InStep'
      BY <1>2, <2>1, <2>5, ReadHunts
    <3> QED BY <1>2, <3>2, <3>3
  <2>6. CASE Consume
    BY <2>1, <2>6 DEF Consume, Joined
  <2>7. CASE Stop \/ UNCHANGED vars \/ Take
    <3>1. UNCHANGED <<state, frame, syncBuf, chunk, buf, packet, pos>>
      BY <2>7 DEF Stop, Take, vars, rxVars, lineVars
    <3>2. frames' = frames \/ (frames # <<>> /\ frames' = Tail(frames))
      <4>1. CASE Stop \/ UNCHANGED vars
        BY <4>1 DEF Stop, vars, rxVars
      <4>2. CASE Take
        BY <4>2 DEF Take
      <4> QED BY <2>7, <4>1, <4>2
    <3>3. Joined'
      BY <2>1, <3>1 DEF Joined, Joins, Ends
    <3> QED BY <1>2, <2>3, <3>1, <3>2, <3>3
  <2> QED BY <1>0, <2>2, <2>4, <2>5, <2>6, <2>7 DEF Next
<1> QED BY <1>1, <1>2

LEMMA SyncInit == Init => SyncInv
<1> SUFFICES ASSUME Init PROVE Joined /\ state = "waitBreak"
  BY DEF SyncInv
<1>1. syncBuf \o buf = <<>> /\ Len(<<>>) = 0
  BY DEF Init
<1>2. Joins(<<>>) /\ Ends(<<>>)
  BY <1>1 DEF Joins, Ends
<1> QED BY <1>1, <1>2 DEF Init, Joined

LEMMA SyncInvariant ==
  ASSUME DmxPackets
  PROVE  Spec => [](TypeOK /\ SourceInv /\ SyncInv)
<1>1. TypeOK /\ SourceInv /\ SyncInv /\ [Next]_vars => SyncInv'
  <2> SUFFICES ASSUME TypeOK, SourceInv, SyncInv, [Next]_vars, Lit', faults' = 0
               PROVE  (IF state = "waitBreak" THEN Joined ELSE InStep)'
    BY DEF SyncInv
  <2>1. Lit
    BY SourceStep DEF Lit
  <2> QED BY <2>1, SyncStep
<1> QED BY <1>1, SyncInit, SourceInvariant, PTL DEF Spec

\* For any source with no channel at zero: wherever the line is joined, however reads
\* are cut and however many of them a packet takes, until the line fails a published
\* frame is one of the source's packets.
THEOREM FramesArePackets ==
  ASSUME DmxPackets
  PROVE  Spec => PublishesPackets
<1> DEFINE P == Lit /\ Len(frames') > Len(frames) /\ faults' = 0 =>
                  \E p \in source : frames'[Len(frames')] = Channels(p)
<1>1. TypeOK /\ SourceInv /\ SyncInv /\ [Next]_vars => [P]_vars
  BY SyncStep DEF PublishedOne
<1> QED BY <1>1, SyncInvariant, PTL DEF Spec, PublishesPackets

\* And the receiver that has found a start code does not hunt again.
THEOREM SyncHeld ==
  ASSUME DmxPackets
  PROVE  Spec => HoldsSync
<1> DEFINE P == Lit /\ state # "waitBreak" /\ faults' = 0 => state' # "waitBreak"
<1>1. TypeOK /\ SourceInv /\ SyncInv /\ [Next]_vars => [P]_vars
  BY SyncStep
<1> QED BY <1>1, SyncInvariant, PTL DEF Spec, HoldsSync
=============================================================================
