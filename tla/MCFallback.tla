----------------------------- MODULE MCFallback -----------------------------
(***************************************************************************)
(* Small instances of FallbackReceiver: two channels, so packets of three  *)
(* slots and a hunting window of twelve.                                   *)
(***************************************************************************)
EXTENDS FallbackReceiver

Dmx(data) == [start |-> StartCodeDMX, data |-> data]

\* No channel at zero; a mix of the full packets is neither of them, and neither
\* cut off is the short one.
LitScene == {Dmx(<<1, 2>>), Dmx(<<2, 1>>), Dmx(<<3>>)}

\* Channels at zero, as most are: an alignment may be a channel's.
DarkScene == {Dmx(<<0, 1>>), Dmx(<<1, 0>>), Dmx(<<0>>)}

Scenes == {LitScene, DarkScene}

AllPackets == UNION Scenes
=============================================================================
