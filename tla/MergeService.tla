---------------------------- MODULE MergeService ----------------------------
(***************************************************************************)
(* What the merger promises the rest of the bridge, without its mutex, its *)
(* goroutines and the steps of a send: a bounded stream of output frames,  *)
(* in which each frame was, at the moment it was appended, the merge of    *)
(* what the sources of its universe were contributing.  The stream is      *)
(* lossy: it may lose its oldest frame, and a merge may never be appended. *)
(*                                                                         *)
(* Merger implements this specification; MergerProofs proves that it does. *)
(***************************************************************************)
EXTENDS HTP, Sequences

CONSTANTS Source,      \* the mapped sources
          Universe,    \* the output universes
          outputUni,   \* the universe each source contributes to
          OutputCap    \* the most frames the stream holds

VARIABLES contributed, \* the frames each source contributes: one, or none
          stream,      \* the frames appended and not yet sent or lost
          sent         \* the last frame sent for each universe

vars == <<contributed, stream, sent>>

\* The frames that the sources of universe u contribute.
Contributions(u) == UNION {contributed[s] : s \in {t \in Source : outputUni[t] = u}}

Init == /\ contributed = [s \in Source |-> {}]
        /\ stream = <<>>
        /\ sent = [u \in Universe |-> ZeroFrame]

\* A source delivers a new frame, or falls silent.
Contribute(s) == /\ \/ \E f \in Frame : contributed' = [contributed EXCEPT ![s] = {f}]
                    \/ contributed' = [contributed EXCEPT ![s] = {}]
                 /\ UNCHANGED <<stream, sent>>

\* The merge of universe u is appended to the stream.
Publish(u) == /\ Len(stream) < OutputCap
              /\ \E m \in Frame : /\ IsMergeOf(m, Contributions(u))
                                  /\ stream' = Append(stream, [universe |-> u, frame |-> m])
              /\ UNCHANGED <<contributed, sent>>

\* The oldest frame is sent on the network.
Send == /\ stream # <<>>
        /\ sent' = [sent EXCEPT ![Head(stream).universe] = Head(stream).frame]
        /\ stream' = Tail(stream)
        /\ UNCHANGED contributed

\* The oldest frame is lost.
Lose == /\ stream # <<>>
        /\ stream' = Tail(stream)
        /\ UNCHANGED <<contributed, sent>>

Next == \/ \E s \in Source : Contribute(s)
        \/ \E u \in Universe : Publish(u)
        \/ Send
        \/ Lose

Spec == Init /\ [][Next]_vars
=============================================================================
