----------------------------- MODULE MCWindows ------------------------------
(***************************************************************************)
(* A small instance of WindowsReception: packets of any start code, with   *)
(* no channels and with more than a frame holds.                           *)
(***************************************************************************)
EXTENDS WindowsReception
=============================================================================
