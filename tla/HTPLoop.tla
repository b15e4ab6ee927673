------------------------------ MODULE HTPLoop -------------------------------
(***************************************************************************)
(* The loop of computeHTP (merge/merge.go), one source per step, in the    *)
(* order a Go map yields its entries: any order.                           *)
(*                                                                         *)
(* Merger computes the merge in one step, by the closed form Highest; this *)
(* module checks that the loop arrives at it.                              *)
(***************************************************************************)
EXTENDS HTP

CONSTANTS Source, outputUni,   \* as in Merger
          outputUniverse       \* the argument of computeHTP

VARIABLES frame,    \* sourceState.frame, of each source
          seen,     \* the sources whose lastSeen is not zero
          todo,     \* the sources the loop has not visited
          result,   \* its local variable of the same name
          maxLen,   \* likewise
          done      \* TRUE once result has been returned

vars == <<frame, seen, todo, result, maxLen, done>>

Init == /\ frame \in [Source -> Frame]
        /\ seen \in SUBSET Source
        /\ todo = Source
        /\ result = ZeroFrame
        /\ maxLen = 0
        /\ done = FALSE

\* Mutant: the bound of the channel loop is the merged length, not the source's.
BrighterByMaxLen(f, i) == i <= maxLen /\ f.Channels[i] > result.Channels[i]

Brighter(f, i) == i <= f.Length /\ f.Channels[i] > result.Channels[i]

\* Mutant: lengths are added up.
LongerSum(f) == maxLen + f.Length

Longer(f) == IF f.Length > maxLen THEN f.Length ELSE maxLen

Visit(s) ==
  /\ s \in todo
  /\ todo' = todo \ {s}
  /\ IF outputUni[s] # outputUniverse \/ s \notin seen
     THEN UNCHANGED <<result, maxLen>>
     ELSE LET f == frame[s] IN
            /\ maxLen' = Longer(f)
            /\ result' = [result EXCEPT !.Channels =
                 [i \in Channel |-> IF Brighter(f, i) THEN f.Channels[i]
                                    ELSE result.Channels[i]]]
  /\ UNCHANGED <<frame, seen, done>>

\* Mutant: the length is not filled in.
ReturnUnfilled == /\ todo = {}
                  /\ done' = TRUE
                  /\ UNCHANGED <<frame, seen, todo, result, maxLen>>

\* The loop is done: the length is filled in, and the frame returned.
Return == /\ todo = {}
          /\ done' = TRUE
          /\ result' = [result EXCEPT !.Length = maxLen]
          /\ UNCHANGED <<frame, seen, todo, maxLen>>

Next == (\E s \in Source : Visit(s)) \/ Return

Spec == Init /\ [][Next]_vars
----------------------------------------------------------------------------
\* Every variable has its type; the result never leaves the frame's bounds.
TypeOK == /\ frame \in [Source -> Frame]
          /\ seen \subseteq Source
          /\ todo \subseteq Source
          /\ result \in Frame
          /\ maxLen \in 0..MaxChannels
          /\ done \in BOOLEAN

\* The frames of the contributing sources among the sources of S.
Contributed(S) == {frame[s] : s \in {t \in S \cap seen : outputUni[t] = outputUniverse}}

\* At every step of the loop the result, once the length is filled in, is the
\* merge of the sources visited so far: the order of the map never shows.
PartialMerge == IsMergeOf([result EXCEPT !.Length = maxLen], Contributed(Source \ todo))

\* What the loop returns, in whatever order it has visited the sources, is the
\* frame by which Merger computes the merge in one step: every channel at the
\* highest of the levels of the sources that reach so far, as long as the longest.
ReturnsHighest == done => result = Highest(Contributed(Source))
=============================================================================
