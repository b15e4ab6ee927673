------------------------------ MODULE DmxLine -------------------------------
(***************************************************************************)
(* What a DMX source sends and an adapter delivers.                        *)
(*                                                                         *)
(* A packet is a start code and up to 512 channel slots, and ends with the *)
(* break that starts the next one.  Where the driver reports breaks, it is *)
(* an event and no byte; where it does not (macOS, serial_darwin.go), it   *)
(* arrives as a stray zero byte.                                           *)
(***************************************************************************)
EXTENDS Integers, GoChannel

CONSTANTS
  MaxChannels,  \* dmx.MaxChannels, 512 in the program
  Byte,         \* the values of a slot on the line; 0 is among them
  InferBreaks,  \* breakFromShortRead: TRUE on macOS, FALSE on Linux and Windows
  Packets       \* the packets sources send, [start : Byte, data : Seq(Byte)]

ASSUME LineAssumption ==
  /\ MaxChannels \in Nat \ {0}
  /\ 0 \in Byte
  /\ InferBreaks \in BOOLEAN
  /\ \A p \in Packets : p.start \in Byte /\ p.data \in Seq(Byte)

StartCodeDMX == 0

\* What the adapter delivers of a packet.
Slots(p) == <<p.start>> \o p.data \o (IF InferBreaks THEN <<0>> ELSE <<>>)

\* What a receiver can make of it: 512 channels at most.
Channels(p) == IF Len(p.data) <= MaxChannels THEN p.data ELSE SubSeq(p.data, 1, MaxChannels)
=============================================================================
