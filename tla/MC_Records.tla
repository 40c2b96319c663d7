----------------------------- MODULE MC_Records -----------------------------
(***************************************************************************)
(* Five components that share no state: the object CAS, the records of the *)
(* control plane, the operator's view of a run, the workflow editor and    *)
(* the order in which a run takes the nodes of a graph.  Interleaving them *)
(* shows nothing, so a behaviour is one of them.                           *)
(***************************************************************************)
EXTENDS ObjectCas, ControlRecords, RunControl, WorkflowEditor, RunSchedule, TLC

CONSTANTS t1, t2, a1, a2, a3, a4, a5, h1, h2, h3

\* a1, a2 and a3 are t1's own; a4 is t2's copy of a1, a5 a second copy of t1's.
MCTenantOf == [i \in ArtifactIds |-> IF i = a4 THEN t2 ELSE t1]
MCHashOf == a1 :> h1 @@ a2 :> h2 @@ a3 :> h3 @@ a4 :> h1 @@ a5 :> h1

Port == [schema |-> "text", hidden |-> FALSE]
Glob(names, deep) == [names |-> names, deep |-> deep]
Anything == Glob(<<>>, TRUE)
Node(id, writes, attempts) ==
  [id |-> id, kind |-> "deterministic", owner |-> [id |-> "team", role |-> "builder"],
   inputs |-> [x |-> Port], outputs |-> [y |-> Port],
   reads |-> {}, writes |-> writes, filesystemRead |-> {}, filesystemWrite |-> {Anything},
   secretRefs |-> {}, network |-> {}, attempts |-> attempts, timeoutSec |-> 60, cost |-> 1,
   rounds |-> 0, guarded |-> FALSE, verifiers |-> {}]
NodeA == Node("a", {Glob(<<"a">>, TRUE)}, 1)
Loop == [Node("c", {}, 1) EXCEPT !.kind = "loop", !.rounds = 2]
MCNodeEdits ==
  {NodeA, Node("b", {Glob(<<"a", "b">>, FALSE)}, 2), Node("b", {Glob(<<"c">>, TRUE)}, 1),
   Loop, [Loop EXCEPT !.rounds = 0]}

EdgeTo(source, sourcePort, target, targetPort) ==
  [source |-> [node |-> source, port |-> sourcePort], target |-> [node |-> target, port |-> targetPort],
   condition |-> "none"]
FirstEdges == {EdgeTo("in", "i", "a", "x"), EdgeTo("a", "y", "out", "o")}
MCEdgeEdits ==
  {EdgeTo("in", "i", "b", "x"), EdgeTo("a", "y", "c", "x"), EdgeTo("c", "y", "b", "x"),
   EdgeTo("b", "y", "c", "x"), EdgeTo("b", "y", "out", "o"), [EdgeTo("a", "y", "out", "o") EXCEPT !.condition = "passed"]}

MCWorkflow ==
  [version |-> 1, mode |-> "CONTRACT", nodes |-> {NodeA}, edges |-> FirstEdges,
   schemas |-> {[type |-> "text", valid |-> TRUE]},
   inputs |-> [i |-> Port], outputs |-> [o |-> Port],
   verifiers |-> {[id |-> "v", owner |-> [id |-> "judges", role |-> "verifier"], hidden |-> TRUE]},
   requiredVerifiers |-> {"v"}, allowedSecrets |-> {}, allowedNetworkHosts |-> {}, limit |-> 4]
\* The last names a verifier twice.
MCContracts ==
  {MCWorkflow, [MCWorkflow EXCEPT !.limit = 2, !.requiredVerifiers = {"w"}],
   [MCWorkflow EXCEPT !.verifiers = @ \cup {[v EXCEPT !.hidden = FALSE] : v \in @}]}
MCWorkflows ==
  {MCWorkflow, [MCWorkflow EXCEPT !.limit = NoLimit],
   [MCWorkflow EXCEPT !.schemas = {}], [MCWorkflow EXCEPT !.outputs = [o |-> Port, p |-> Port]],
   [MCWorkflow EXCEPT !.nodes = {[NodeA EXCEPT !.owner.id = "judges"]}],
   [MCWorkflow EXCEPT !.nodes = {[NodeA EXCEPT !.secretRefs = {"s"}, !.filesystemWrite = {}]}]}

VARIABLE part

vars == <<part, casVars, recordVars, log, editorVars, scheduleVars>>

\* The state of a component whose turn it is not is one of its initial states.
Resting(name) ==
  /\ name # "editor" => draft = MCWorkflow
  /\ name # "schedule" => up = [n \in Ranks |-> {}]

Init ==
  /\ part \in {"cas", "records", "log", "editor", "schedule"}
  /\ Resting(part)
  /\ CasInit /\ RecordsInit /\ LogInit /\ EditorInit /\ ScheduleInit

Next ==
  \/ part = "cas" /\ CasNext /\ UNCHANGED <<part, recordVars, log, editorVars, scheduleVars>>
  \/ part = "records" /\ RecordsNext /\ UNCHANGED <<part, casVars, log, editorVars, scheduleVars>>
  \/ part = "log" /\ LogNext /\ UNCHANGED <<part, casVars, recordVars, editorVars, scheduleVars>>
  \/ part = "editor" /\ EditorNext /\ UNCHANGED <<part, casVars, recordVars, log, scheduleVars>>
  \/ part = "schedule" /\ ScheduleNext /\ UNCHANGED <<part, casVars, recordVars, log, editorVars>>

Spec == Init /\ [][Next]_vars
TypeOK == CasTypeOK /\ RecordsTypeOK /\ LogTypeOK
=============================================================================
