-------------------------------- MODULE HTP ---------------------------------
(***************************************************************************)
(* DMX frames and their merge, Highest Takes Precedence.                   *)
(*                                                                         *)
(* dmx.Frame is a length and an array of 512 levels; merge.computeHTP      *)
(* folds the frames of the contributing sources of one universe into one   *)
(* frame.  The constants shrink both the array and the level range.        *)
(* Frame.Timestamp is only displayed and is left out.                      *)
(***************************************************************************)
EXTENDS Integers, FiniteSetsExt

CONSTANTS MaxChannels,   \* dmx.MaxChannels, 512 in the program
          MaxLevel       \* the largest channel level, 255 in the program

ASSUME FrameAssumption == /\ MaxChannels \in Nat \ {0}
                          /\ MaxLevel \in Nat \ {0}

Channel == 1..MaxChannels
Level   == 0..MaxLevel
Frame   == [Length : 0..MaxChannels, Channels : [Channel -> Level]]

\* dmx.Frame{}: what expiry leaves of a source and what nobody contributing
\* merges to.
ZeroFrame == [Length |-> 0, Channels |-> [i \in Channel |-> 0]]

\* Mutant: the whole array is read, whatever the length.
LevelsInArray(fs, i) == {f.Channels[i] : f \in fs}

\* The levels the frames of fs carry on channel i.  A frame that is shorter
\* than i says nothing about channel i, whatever its array holds there.
LevelsOn(fs, i) == {f.Channels[i] : f \in {g \in fs : i <= g.Length}}

\* The loop of computeHTP over the frames of the contributing sources.
Highest(fs) ==
  [Length   |-> Max({0} \cup {f.Length : f \in fs}),
   Channels |-> [i \in Channel |-> Max({0} \cup LevelsOn(fs, i))]]

\* The reference definition of the merge, by what a lighting engineer expects
\* of it instead of by how the loop finds it: no contribution is cut off or
\* dimmed, and nothing is brighter or longer than some contribution makes it.
IsMergeOf(m, fs) ==
  /\ \A f \in fs : f.Length <= m.Length
  /\ m.Length = 0 \/ \E f \in fs : f.Length = m.Length
  /\ \A i \in Channel :
       /\ \A f \in fs : i <= f.Length => f.Channels[i] <= m.Channels[i]
       /\ \/ m.Channels[i] = 0
          \/ \E f \in fs : i <= f.Length /\ f.Channels[i] = m.Channels[i]
=============================================================================
