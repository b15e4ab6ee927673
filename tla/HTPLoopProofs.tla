--------------------------- MODULE HTPLoopProofs ----------------------------
(***************************************************************************)
(* The closed form of the merge is the merge, and the merge is unique;     *)
(* computeHTP returns it, for any number of sources, channels and levels   *)
(* and in any order the sources are visited.                               *)
(***************************************************************************)
EXTENDS HTPLoop, WellFoundedInduction, TLAPS

----------------------------------------------------------------------------
(* The merge.                                                              *)

\* A bounded set of numbers that is not empty has a maximum, which Max finds.
LEMMA MaxOfBounded ==
  ASSUME NEW n \in Nat, NEW S \in SUBSET (0..n), S # {}
  PROVE  /\ Max(S) \in S
         /\ \A y \in S : y <= Max(S)
<1> DEFINE T == {n - x : x \in S}
<1>1. T \in SUBSET Nat /\ T # {}
  <2>1. \A x \in S : x \in Nat /\ n - x \in Nat
    OBVIOUS
  <2>2. PICK x \in S : TRUE
    OBVIOUS
  <2>3. n - x \in T
    OBVIOUS
  <2> QED BY <2>1, <2>3
<1>2. PICK d \in T : \A e \in T : ~ (<<e, d>> \in OpToRel(<, Nat))
  BY <1>1, NatLessThanWellFounded, WFMin
<1>3. \A e \in T : d <= e
  <2>1. OpToRel(<, Nat) = {p \in Nat \X Nat : p[1] < p[2]}
    BY DEF OpToRel
  <2> HIDE DEF T
  <2>2. ASSUME NEW e \in T, e < d PROVE FALSE
    <3>1. d \in Nat /\ e \in Nat
      BY <1>1
    <3>2. <<e, d>> \in {p \in Nat \X Nat : p[1] < p[2]}
      BY <3>1, <2>2
    <3> QED BY <1>2, <2>1, <3>2, Zenon
  <2>3. ASSUME NEW e \in T PROVE d <= e
    BY <2>2, <1>1
  <2> QED BY <2>3
<1>4. n - d \in S /\ \A y \in S : y <= n - d
  <2>1. PICK x \in S : d = n - x
    OBVIOUS
  <2>2. n - d = x
    BY <2>1
  <2>3. ASSUME NEW y \in S PROVE y <= n - d
    <3>1. n - y \in T
      OBVIOUS
    <3>2. d <= n - y
      BY <1>3, <3>1
    <3> QED BY <3>2, <2>1
  <2> QED BY <2>2, <2>3
<1>5. \E x \in S : \A y \in S : x >= y
  BY <1>4
<1> QED BY <1>5 DEF Max

\* What the closed form returns is a frame.
LEMMA HighestIsFrame ==
  ASSUME NEW fs \in SUBSET Frame
  PROVE  Highest(fs) \in Frame
<1> USE FrameAssumption
<1>1. Max({0} \cup {f.Length : f \in fs}) \in 0..MaxChannels
  <2> DEFINE S == {0} \cup {f.Length : f \in fs}
  <2>1. S \in SUBSET (0..MaxChannels) /\ S # {}
    BY DEF Frame
  <2> QED BY <2>1, MaxOfBounded
<1>2. ASSUME NEW i \in Channel
      PROVE  Max({0} \cup LevelsOn(fs, i)) \in Level
  <2> DEFINE S == {0} \cup LevelsOn(fs, i)
  <2>1. S \in SUBSET (0..MaxLevel) /\ S # {}
    BY DEF Frame, Level, LevelsOn
  <2>2. Max(S) \in S
    BY <2>1, MaxOfBounded
  <2> QED BY <2>1, <2>2 DEF Level
<1> QED BY <1>1, <1>2 DEF Highest, Frame

\* The frame computeHTP returns is the merge of the frames it was given.
THEOREM HighestIsMerge ==
  ASSUME NEW fs \in SUBSET Frame
  PROVE  IsMergeOf(Highest(fs), fs)
<1> USE FrameAssumption
<1>1. /\ \A f \in fs : f.Length <= Highest(fs).Length
      /\ Highest(fs).Length = 0 \/ \E f \in fs : f.Length = Highest(fs).Length
  <2> DEFINE S == {0} \cup {f.Length : f \in fs}
  <2>1. S \in SUBSET (0..MaxChannels) /\ S # {}
    BY DEF Frame
  <2>2. Max(S) \in S /\ \A y \in S : y <= Max(S)
    BY <2>1, MaxOfBounded
  <2>3. Highest(fs).Length = Max(S)
    BY DEF Highest
  <2> QED BY <2>2, <2>3
<1>2. ASSUME NEW i \in Channel
      PROVE  /\ \A f \in fs : i <= f.Length => f.Channels[i] <= Highest(fs).Channels[i]
             /\ \/ Highest(fs).Channels[i] = 0
                \/ \E f \in fs : i <= f.Length /\ f.Channels[i] = Highest(fs).Channels[i]
  <2> DEFINE S == {0} \cup LevelsOn(fs, i)
  <2>1. S \in SUBSET (0..MaxLevel) /\ S # {}
    BY DEF Frame, Level, LevelsOn
  <2>2. Max(S) \in S /\ \A y \in S : y <= Max(S)
    BY <2>1, MaxOfBounded
  <2>3. Highest(fs).Channels[i] = Max(S)
    BY DEF Highest
  <2>4. \A f \in fs : i <= f.Length => f.Channels[i] \in S
    BY DEF LevelsOn
  <2>5. Max(S) = 0 \/ \E f \in fs : i <= f.Length /\ f.Channels[i] = Max(S)
    BY <2>2 DEF LevelsOn
  <2> QED BY <2>2, <2>3, <2>4, <2>5
<1> QED BY <1>1, <1>2 DEF IsMergeOf

\* The reference definition leaves no choice: there is one merge.
THEOREM MergeIsUnique ==
  ASSUME NEW fs \in SUBSET Frame, NEW m \in Frame, NEW n \in Frame,
         IsMergeOf(m, fs), IsMergeOf(n, fs)
  PROVE  m = n
<1> USE FrameAssumption
<1>0. /\ m.Length \in Nat /\ n.Length \in Nat
      /\ \A i \in Channel : m.Channels[i] \in Nat /\ n.Channels[i] \in Nat
      /\ \A f \in fs : f.Length \in Nat /\ \A i \in Channel : f.Channels[i] \in Nat
  BY DEF Frame, Level
<1>1. m.Length = n.Length
  BY <1>0 DEF IsMergeOf
<1>2. ASSUME NEW i \in Channel PROVE m.Channels[i] = n.Channels[i]
  <2>1. m.Channels[i] <= n.Channels[i]
    BY <1>0 DEF IsMergeOf
  <2>2. n.Channels[i] <= m.Channels[i]
    BY <1>0 DEF IsMergeOf
  <2> QED BY <2>1, <2>2, <1>0
<1>3. m.Channels = n.Channels
  BY <1>2 DEF Frame
<1> QED BY <1>1, <1>3 DEF Frame

----------------------------------------------------------------------------
(* The loop.                                                               *)

\* The loop stays within the bounds of a frame.
THEOREM TypeCorrect == Spec => []TypeOK
<1> USE FrameAssumption DEF TypeOK
<1>1. Init => TypeOK
  <2> SUFFICES ASSUME Init PROVE TypeOK
    OBVIOUS
  <2>1. result \in Frame /\ maxLen \in 0..MaxChannels
    BY DEF Init, ZeroFrame, Frame, Channel, Level
  <2> QED BY <2>1 DEF Init
<1>2. TypeOK /\ [Next]_vars => TypeOK'
  <2> SUFFICES ASSUME TypeOK, [Next]_vars PROVE TypeOK'
    OBVIOUS
  <2>1. ASSUME NEW s \in Source, Visit(s) PROVE TypeOK'
    <3>1. CASE outputUni[s] # outputUniverse \/ s \notin seen
      BY <2>1, <3>1 DEF Visit
    <3>2. CASE ~ (outputUni[s] # outputUniverse \/ s \notin seen)
      <4> DEFINE f == frame[s]
                 c == [i \in Channel |-> IF Brighter(f, i) THEN f.Channels[i]
                                         ELSE result.Channels[i]]
      <4>1. f \in Frame
        OBVIOUS
      <4>2. c \in [Channel -> Level]
        BY <4>1 DEF Frame
      <4>3. result' = [result EXCEPT !.Channels = c] /\ maxLen' = Longer(f)
        BY <2>1, <3>2 DEF Visit
      <4>4. result' \in Frame
        BY <4>2, <4>3 DEF Frame
      <4>5. maxLen' \in 0..MaxChannels
        BY <4>1, <4>3 DEF Longer, Frame
      <4> QED BY <2>1, <4>4, <4>5 DEF Visit
    <3> QED BY <3>1, <3>2
  <2>2. CASE Return
    BY <2>2 DEF Return, Frame
  <2>3. CASE UNCHANGED vars
    BY <2>3 DEF vars
  <2> QED BY <2>1, <2>2, <2>3 DEF Next
<1> QED BY <1>1, <1>2, PTL DEF Spec

\* At every step the result is the merge of the sources visited so far.  The
\* invariant is inductive: a source the loop skips adds nothing to what the
\* visited sources contribute, and one it does not skip adds its frame.
THEOREM LoopMerges == Spec => []PartialMerge
<1> USE FrameAssumption
<1>1. Init => PartialMerge
  <2> SUFFICES ASSUME Init PROVE PartialMerge
    OBVIOUS
  <2>1. Contributed(Source \ todo) = {}
    BY DEF Init, Contributed
  <2>2. /\ [result EXCEPT !.Length = maxLen].Length = 0
        /\ \A i \in Channel : [result EXCEPT !.Length = maxLen].Channels[i] = 0
    BY DEF Init, ZeroFrame
  <2> QED BY <2>1, <2>2 DEF PartialMerge, IsMergeOf
<1>2. TypeOK /\ PartialMerge /\ [Next]_vars => PartialMerge'
  <2> SUFFICES ASSUME TypeOK, PartialMerge, [Next]_vars PROVE PartialMerge'
    OBVIOUS
  <2> DEFINE r  == [result EXCEPT !.Length = maxLen]
             fs == Contributed(Source \ todo)
  <2>0. /\ r.Length = maxLen /\ r.Channels = result.Channels
        /\ r'.Length = maxLen' /\ (TypeOK' => r'.Channels = result'.Channels)
    BY DEF TypeOK, Frame
  <2>1. ASSUME NEW s \in Source, Visit(s) PROVE PartialMerge'
    <3>1. (Source \ todo)' = (Source \ todo) \cup {s}
      BY <2>1 DEF Visit, TypeOK
    <3>2. CASE outputUni[s] # outputUniverse \/ s \notin seen
      <4>1. fs' = fs
        BY <2>1, <3>1, <3>2 DEF Contributed, Visit
      <4>2. r' = r
        BY <2>1, <3>2 DEF Visit
      <4> QED BY <4>1, <4>2 DEF PartialMerge
    <3>3. CASE ~ (outputUni[s] # outputUniverse \/ s \notin seen)
      <4> DEFINE f == frame[s]
      <4>1. fs' = fs \cup {f}
        BY <2>1, <3>1, <3>3 DEF Contributed, Visit
      <4>2. maxLen' = Longer(f)
        BY <2>1, <3>3 DEF Visit
      <4>3. \A i \in Channel :
              result'.Channels[i] = IF Brighter(f, i) THEN f.Channels[i] ELSE result.Channels[i]
        BY <2>1, <3>3 DEF Visit, TypeOK, Frame
      <4>4. result'.Channels = r'.Channels
        BY <2>1, <3>3 DEF Visit, TypeOK, Frame
      <4>5. /\ f.Length \in Nat /\ maxLen \in Nat
            /\ \A g \in fs : g.Length \in Nat
            /\ \A i \in Channel : /\ f.Channels[i] \in Nat /\ result.Channels[i] \in Nat
                                  /\ \A g \in fs : g.Channels[i] \in Nat
            /\ \A i \in Channel : i \in Nat
        BY DEF TypeOK, Frame, Level, Contributed, Channel
      <4>6. /\ \A g \in fs : g.Length <= maxLen
            /\ maxLen = 0 \/ \E g \in fs : g.Length = maxLen
        BY <2>0 DEF PartialMerge, IsMergeOf
      <4>7. /\ \A g \in fs' : g.Length <= r'.Length
            /\ r'.Length = 0 \/ \E g \in fs' : g.Length = r'.Length
        <5>1. r'.Length = Longer(f)
          BY <2>0, <4>2
        <5> HIDE DEF f, r, fs
        <5>2. CASE f.Length > maxLen
          BY <5>1, <5>2, <4>1, <4>5, <4>6 DEF Longer
        <5>3. CASE ~ (f.Length > maxLen)
          BY <5>1, <5>3, <4>1, <4>5, <4>6 DEF Longer
        <5> QED BY <5>2, <5>3
      <4>8. ASSUME NEW i \in Channel
            PROVE  /\ \A g \in fs' : i <= g.Length => g.Channels[i] <= r'.Channels[i]
                   /\ \/ r'.Channels[i] = 0
                      \/ \E g \in fs' : i <= g.Length /\ g.Channels[i] = r'.Channels[i]
        <5>1. /\ \A g \in fs : i <= g.Length => g.Channels[i] <= result.Channels[i]
              /\ \/ result.Channels[i] = 0
                 \/ \E g \in fs : i <= g.Length /\ g.Channels[i] = result.Channels[i]
          BY <2>0 DEF PartialMerge, IsMergeOf
        <5>2. r'.Channels[i] = IF Brighter(f, i) THEN f.Channels[i] ELSE result.Channels[i]
          BY <4>3, <4>4
        <5> HIDE DEF f, r, fs
        <5>3. CASE Brighter(f, i)
          BY <5>1, <5>2, <5>3, <4>1, <4>5 DEF Brighter
        <5>4. CASE ~ Brighter(f, i)
          BY <5>1, <5>2, <5>4, <4>1, <4>5 DEF Brighter
        <5> QED BY <5>3, <5>4
      <4> QED BY <4>7, <4>8 DEF PartialMerge, IsMergeOf
    <3> QED BY <3>2, <3>3
  <2>2. CASE Return
    <3>1. fs' = fs
      BY <2>2 DEF Return, Contributed
    <3>2. r' = r
      BY <2>2 DEF Return, TypeOK, Frame
    <3> QED BY <3>1, <3>2 DEF PartialMerge
  <2>3. CASE UNCHANGED vars
    BY <2>3 DEF vars, PartialMerge, Contributed
  <2> QED BY <2>1, <2>2, <2>3 DEF Next
<1> QED BY <1>1, <1>2, TypeCorrect, PTL DEF Spec

\* What has been returned is the merge of all sources, with its length.
Returned == done => /\ todo = {}
                    /\ result.Length = maxLen

\* What computeHTP returns is the closed form of the merge, for any order of the
\* map: the loop ends on a merge of all sources, so is the closed form, and there
\* is only one.
THEOREM LoopReturnsHighest == Spec => []ReturnsHighest
<1>1. Init => Returned
  BY DEF Init, Returned
<1>2. TypeOK /\ Returned /\ [Next]_vars => Returned'
  <2> SUFFICES ASSUME TypeOK, Returned, [Next]_vars PROVE Returned'
    OBVIOUS
  <2>1. ASSUME NEW s \in Source, Visit(s) PROVE Returned'
    BY <2>1 DEF Visit, Returned
  <2>2. CASE Return
    BY <2>2 DEF Return, Returned, TypeOK, Frame
  <2>3. CASE UNCHANGED vars
    BY <2>3 DEF vars, Returned
  <2> QED BY <2>1, <2>2, <2>3 DEF Next
<1>3. TypeOK /\ PartialMerge /\ Returned => ReturnsHighest
  <2> SUFFICES ASSUME TypeOK, PartialMerge, Returned, done
               PROVE  result = Highest(Contributed(Source))
    BY DEF ReturnsHighest
  <2>1. Contributed(Source) \in SUBSET Frame
    BY DEF TypeOK, Contributed
  <2>2. [result EXCEPT !.Length = maxLen] = result /\ Source \ todo = Source
    BY DEF Returned, TypeOK, Frame
  <2>3. result \in Frame /\ IsMergeOf(result, Contributed(Source))
    BY <2>2 DEF PartialMerge, TypeOK
  <2> HIDE DEF Contributed
  <2>4. /\ Highest(Contributed(Source)) \in Frame
        /\ IsMergeOf(Highest(Contributed(Source)), Contributed(Source))
    BY <2>1, HighestIsFrame, HighestIsMerge
  <2> QED BY <2>1, <2>3, <2>4, MergeIsUnique
<1> QED BY <1>1, <1>2, <1>3, TypeCorrect, LoopMerges, PTL DEF Spec
=============================================================================
