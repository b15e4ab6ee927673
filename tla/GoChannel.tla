----------------------------- MODULE GoChannel ------------------------------
(***************************************************************************)
(* Buffered Go channels, as sequences.  Every send in the bridge but one   *)
(* is the send of a select with an empty default: when the channel has no  *)
(* room, the value is dropped.                                             *)
(***************************************************************************)
EXTENDS Naturals, Sequences

\* Mutant: room is checked off by one.
TrySendPastEnd(ch, cap, x) == IF Len(ch) <= cap THEN Append(ch, x) ELSE ch

TrySend(ch, cap, x) == IF Len(ch) < cap THEN Append(ch, x) ELSE ch
=============================================================================
