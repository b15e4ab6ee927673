------------------------------- MODULE Parmrk -------------------------------
(***************************************************************************)
(* The escapes by which a tty with PARMRK set puts line events into the    *)
(* data (the comment of dmx/parmrk.go), and the decoder that takes them    *)
(* out again (parmrkDecoder).                                              *)
(***************************************************************************)
EXTENDS Integers, Sequences

FF == 255

\* Marker of dmx/port.go.
Marker == {"none", "break", "error"}

\* What happens on the line, in order: a byte of data, or an event.
DataItem(b) == [mark |-> "none", byte |-> b]
BreakItem   == [mark |-> "break", byte |-> 0]
ErrorItem   == [mark |-> "error", byte |-> 0]

\* The bytes by which the tty reports them.  A break and an error on a zero byte
\* read the same, so an error here is one on another byte.
DataBytes(b)  == IF b = FF THEN <<FF, FF>> ELSE <<b>>
BreakBytes    == <<FF, 0, 0>>
ErrorBytes(b) == <<FF, 0, b>>

----------------------------------------------------------------------------
(* decode, one round of its loop: the state of the decoder, the decoded    *)
(* bytes and the event found, after one more byte.                         *)

Idle(d, b) == IF b = FF THEN [d EXCEPT !.state = "sawFF"]
              ELSE [d EXCEPT !.out = Append(@, b)]

\* Mutant: of a doubled FF both bytes are taken for data.
SawFFTwice(d, b) ==
  CASE b = FF -> [d EXCEPT !.state = "idle", !.out = @ \o <<FF, FF>>]
    [] b = 0  -> [d EXCEPT !.state = "sawFF00"]
    [] OTHER  -> Idle([d EXCEPT !.state = "idle", !.out = Append(@, FF)], b)

SawFF(d, b) ==
  CASE b = FF -> [d EXCEPT !.state = "idle", !.out = Append(@, FF)]
    [] b = 0  -> [d EXCEPT !.state = "sawFF00"]
    [] OTHER  -> Idle([d EXCEPT !.state = "idle", !.out = Append(@, FF)], b)

SawFF00(d, b) == [d EXCEPT !.state = "idle",
                           !.mark = IF b = 0 THEN "break" ELSE "error"]

DecodeByte(d, b) ==
  CASE d.state = "idle"    -> Idle(d, b)
    [] d.state = "sawFF"   -> SawFF(d, b)
    [] d.state = "sawFF00" -> SawFF00(d, b)
=============================================================================
