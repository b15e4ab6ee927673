------------------------------ MODULE MCBridge ------------------------------
(***************************************************************************)
(* Small instances of Bridge: two consoles, one of them on an output       *)
(* universe, and a sequence byte of four values.                           *)
(***************************************************************************)
EXTENDS Bridge

CONSTANTS desk, stage   \* the consoles' addresses

TwoConsoles == {[ip |-> desk, universe |-> 0], [ip |-> stage, universe |-> 1]}

\* The output universe is an input as well, and two universes feed each other.
EachOther == <<[src |-> 0, out |-> 1], [src |-> 1, out |-> 0]>>
=============================================================================
