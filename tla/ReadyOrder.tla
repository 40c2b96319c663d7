----------------------------- MODULE ReadyOrder -----------------------------
(***************************************************************************)
(* Which node of a workflow graph runs next.                               *)
(*                                                                         *)
(* A node is the natural number that is its rank in the UTF-16 order of    *)
(* node ids; up[n] is the set of nodes whose outputs feed n (edges from    *)
(* workflow inputs are always satisfied: the fixture is validated before a *)
(* run starts).  Both interpreters of a workflow, durableWorkflow and      *)
(* simulateDeterministic, walk the sorted node array in passes.            *)
(***************************************************************************)
EXTENDS Naturals

\* A variant with a plausible mistake: one upstream output is enough.
ReadyOnAny(nodes, up, done) ==
  {n \in nodes \ done : up[n] = {} \/ up[n] \cap done # {}}

\* The nodes whose every upstream output is there.
Ready(nodes, up, done) == {n \in nodes \ done : up[n] \subseteq done}

\* A variant with a plausible mistake: the pass restarts after every node.
SmallestReady(n, pos, ready) == n \in ready /\ \A m \in ready : n <= m

\* The for loop stands at pos and goes on upwards; only when nothing above
\* pos is ready does the while loop start a new pass from the smallest id.
IsNextInPass(n, pos, ready) ==
  /\ n \in ready
  /\ IF \E m \in ready : m > pos
     THEN n > pos /\ \A m \in ready : m > pos => n <= m
     ELSE \A m \in ready : n <= m

=============================================================================
