---------------------------- MODULE MCReception -----------------------------
(***************************************************************************)
(* Small instances of Reception: packets of two slot values.  Every packet *)
(* length up to one slot more than a frame holds, or one length only.      *)
(***************************************************************************)
EXTENDS Reception

CONSTANT Lengths     \* how many channel slots a packet has

AnyPacket == [start : Byte, data : UNION {[1..n -> Byte] : n \in Lengths}]

\* DMX only, and no two slots of a packet that could be mistaken for another.
DmxPacket == [start : {0}, data : UNION {[1..n -> Byte] : n \in Lengths}]
=============================================================================
