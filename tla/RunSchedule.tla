---------------------------- MODULE RunSchedule -----------------------------
(***************************************************************************)
(* The two interpreters of a workflow graph, side by side.                 *)
(*                                                                         *)
(* durableWorkflow picks one node at a time, each pick separated from the  *)
(* next by an awaited activity; simulateDeterministic computes the whole   *)
(* order at once.  Here the durable loop runs over every graph of          *)
(* MaxNodes nodes, cyclic ones included (the loop guards against them with *)
(* WORKFLOW_STALLED although the compiler rejects them), with every        *)
(* activity succeeding, and is compared with the simulator and with the    *)
(* compiler's cycle detection.                                             *)
(***************************************************************************)
EXTENDS ReadyOrder, FiniteSets, SequencesExt

CONSTANT MaxNodes
ASSUME MaxNodesAssumption == MaxNodes \in Nat \ {0}

\* Nodes, as their rank in the UTF-16 order.
Ranks == 1 .. MaxNodes

VARIABLES
  up,     \* the graph: up[n] feeds n
  pos,    \* the for loop's node; 0 before the first pass
  trace,  \* completedNodeIds, in order
  loop    \* "running", "completed" or "stalled"

scheduleVars == <<up, pos, trace, loop>>

Done == ToSet(trace)

ScheduleTypeOK ==
  /\ up \in [Ranks -> SUBSET Ranks]
  /\ pos \in 0 .. MaxNodes
  /\ trace \in Seq(Ranks)
  /\ loop \in {"running", "completed", "stalled"}

ScheduleInit ==
  /\ up \in [Ranks -> SUBSET Ranks]
  /\ pos = 0
  /\ trace = << >>
  /\ loop = "running"

RunNode(n) ==
  /\ loop = "running"
  /\ IsNextInPass(n, pos, Ready(Ranks, up, Done))
  /\ trace' = Append(trace, n)
  /\ pos' = n
  /\ UNCHANGED <<up, loop>>

Finish ==
  /\ loop = "running"
  /\ Done = Ranks
  /\ loop' = "completed"
  /\ UNCHANGED <<up, pos, trace>>

Stall ==
  /\ loop = "running"
  /\ Done # Ranks
  /\ Ready(Ranks, up, Done) = {}
  /\ loop' = "stalled"
  /\ UNCHANGED <<up, pos, trace>>

ScheduleNext == Finish \/ Stall \/ \E n \in Ranks : RunNode(n)

ScheduleSpec == ScheduleInit /\ [][ScheduleNext]_scheduleVars /\ WF_scheduleVars(ScheduleNext)

-----------------------------------------------------------------------------
(* simulateDeterministic: passes over the sorted nodes until one makes no    *)
(* progress, which as many passes as there are nodes reach.                 *)
Turn(g, done, n) ==
  IF n \in Ready(Ranks, g, ToSet(done)) THEN Append(done, n) ELSE done

\* What a pass has made of before when it has gone by a node.
Pass(g, before) ==
  LET walked[n \in 0 .. MaxNodes] == IF n = 0 THEN before ELSE Turn(g, walked[n - 1], n)
  IN  walked

Passes(g) ==
  LET after[k \in 0 .. MaxNodes] == IF k = 0 THEN << >> ELSE Pass(g, after[k - 1])[MaxNodes]
  IN  after

Simulate(g) == Passes(g)[MaxNodes]

(* detectCycles: depth-first search with the nodes on the stack (temporary)  *)
(* and the nodes already explored (permanent); reaching a node of the stack *)
(* reports a cycle.                                                         *)
Successors(g, n) == {m \in Ranks : n \in g[m]}

Searches == [permanent : SUBSET Ranks, cycle : BOOLEAN]

\* The calls for what n leads to, when n is on the stack.
VisitNext(g, n, stack, search, Below) ==
  LET seen[m \in 0 .. MaxNodes] ==
        IF m = 0 THEN search
        ELSE IF m \in Successors(g, n) THEN Below[m][stack][seen[m - 1]]
        ELSE seen[m - 1]
  IN  seen[MaxNodes]

VisitOnce(g, n, temporary, search, Below) ==
  IF n \in search.permanent THEN search
  ELSE IF n \in temporary THEN [search EXCEPT !.cycle = TRUE]
  ELSE [VisitNext(g, n, temporary \cup {n}, search, Below) EXCEPT !.permanent = @ \cup {n}]

\* Calls that may go k deep: with all nodes on the stack there is none that goes deeper.
Visit(g) ==
  LET visit[k \in 0 .. MaxNodes + 1] ==
        [n \in Ranks |-> [temporary \in SUBSET Ranks |-> [search \in Searches |->
           IF k = 0 THEN search ELSE VisitOnce(g, n, temporary, search, visit[k - 1])]]]
  IN  visit[MaxNodes + 1]

NoSearch == [permanent |-> {}, cycle |-> FALSE]

\* A variant with a plausible mistake: only the nodes without upstream are
\* taken as starting points.
HasCycleBelowSources(g) ==
  LET searched[n \in 0 .. MaxNodes] ==
        IF n = 0 THEN NoSearch
        ELSE IF g[n] = {} THEN Visit(g)[n][{}][searched[n - 1]] ELSE searched[n - 1]
  IN  searched[MaxNodes].cycle

HasCycle(g) ==
  LET searched[n \in 0 .. MaxNodes] ==
        IF n = 0 THEN NoSearch ELSE Visit(g)[n][{}][searched[n - 1]]
  IN  searched[MaxNodes].cycle

-----------------------------------------------------------------------------
(* At every point the nodes a durable run has completed are, in order, the *)
(* beginning of the deterministic simulation of the same workflow: what    *)
(* `awf simulate` shows is what Temporal will do.                          *)
FollowsSimulation == IsPrefix(trace, Simulate(up))

(* A run stops short exactly when the simulation stops short, with the     *)
(* same nodes left over, and exactly when the compiler would have rejected *)
(* the graph: a validated workflow never raises WORKFLOW_STALLED.          *)
StallsOnlyOnCycles ==
  /\ loop = "stalled" => HasCycle(up) /\ trace = Simulate(up)
  /\ loop = "completed" => ~HasCycle(up) /\ trace = Simulate(up)
=============================================================================
