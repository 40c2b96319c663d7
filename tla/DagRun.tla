------------------------------- MODULE DagRun -------------------------------
(***************************************************************************)
(* What a durable run of a workflow graph promises, with no mention of     *)
(* attempts, workers, retries, signals or cancellation:                    *)
(*                                                                         *)
(*   - a node finishes once, after everything it reads has finished;       *)
(*   - the effect of a side_effect node takes place once, after everything *)
(*     the node reads has finished and before the node itself has;         *)
(*   - a run is completed only when every node has finished, and an        *)
(*     aborted run finishes no further node (an effect already under way   *)
(*     may still land).                                                    *)
(***************************************************************************)
CONSTANTS Nodes, Upstream, SideEffectNodes

VARIABLES finished, effected, verdict

vars == <<finished, effected, verdict>>

Init == finished = {} /\ effected = {} /\ verdict = "open"

TakeEffect(n) ==
  /\ n \notin finished \cup effected
  /\ Upstream[n] \subseteq finished
  /\ effected' = effected \cup {n}
  /\ UNCHANGED <<finished, verdict>>

Finish(n) ==
  /\ verdict = "open"
  /\ n \notin finished
  /\ Upstream[n] \subseteq finished
  /\ n \in SideEffectNodes => n \in effected
  /\ finished' = finished \cup {n}
  /\ verdict' \in {"open", "aborted"} \cup (IF finished' = Nodes THEN {"completed"} ELSE {})
  /\ UNCHANGED effected

Close ==
  /\ verdict = "open"
  /\ verdict' \in {"aborted"} \cup (IF finished = Nodes THEN {"completed"} ELSE {})
  /\ UNCHANGED <<finished, effected>>

Next ==
  \/ \E n \in SideEffectNodes : TakeEffect(n)
  \/ \E n \in Nodes : Finish(n)
  \/ Close

Spec == Init /\ [][Next]_vars
=============================================================================
