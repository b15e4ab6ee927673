----------------------------- MODULE MCMainLoop -----------------------------
(***************************************************************************)
(* Small instances of MainLoop: a first start, or a file that has been     *)
(* edited to merge Art-Net; the quiet line or the grid.                    *)
(***************************************************************************)
EXTENDS MainLoop

CONSTANT Patience   \* the merge timeout of the edited file

\* A key given twice, a number that is none, a pair that is none.
Edited == <<Line("quiet", "true"), Line("artnet", "true"), Line("mergeTimeout", Malformed),
            Line("mergeTimeout", Patience), Line("artnetUniverse", Malformed),
            Line("mergeInputs", <<[src |-> 1, out |-> 0], Malformed>>)>>

FirstStart == {Missing, Readable(Edited)}
EditedOnly == {Readable(Edited)}

\* An empty -merge-inputs leaves those of the file.
NoFlags == {[mergeInputs |-> <<>>]}

RateOf == [line |-> 2, network |-> 1]
=============================================================================
