------------------------------ MODULE MCMerger ------------------------------
(***************************************************************************)
(* Small instances of Merger for TLC.  The wiring is that of main.go: one  *)
(* forwarder calls Update for the local DMX port, another for every        *)
(* Art-Net source.                                                         *)
(***************************************************************************)
EXTENDS Merger

CONSTANTS l, a, b, x,      \* "local", two Art-Net sources, one never mapped
          u1, u2,          \* output universes
          usb, net         \* the two forwarders

\* One source per universe.
Separate == [s \in {l, b} |-> IF s = b THEN u2 ELSE u1]

\* Every source on one universe.
OneUniverse == [s \in Source |-> u1]

\* The Art-Net forwarder also asks for a source that is not mapped.
AllFeeds == [g \in Updater |-> IF g = usb THEN {l} ELSE SourceID \ {l}]

Short == [Length |-> 1, Channels |-> <<1, 0>>]
Long  == [Length |-> 2, Channels |-> <<0, 1>>]
Noisy == [Length |-> 1, Channels |-> <<0, 1>>]

\* A frame that leaves channel 2 out, one that sets it, and one whose array
\* still holds a level beyond its length.
ThreeFrames == {Short, Long, Noisy}
OneFrame == {Long}
=============================================================================
