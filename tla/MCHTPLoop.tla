----------------------------- MODULE MCHTPLoop ------------------------------
(***************************************************************************)
(* Every assignment of small frames to three sources, one of which feeds   *)
(* another universe.                                                       *)
(***************************************************************************)
EXTENDS HTPLoop

MC_outputUni == [s \in Source |-> IF s = 3 THEN "other" ELSE "merged"]
=============================================================================
