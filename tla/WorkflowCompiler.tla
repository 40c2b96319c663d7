-------------------------- MODULE WorkflowCompiler --------------------------
(***************************************************************************)
(* What packages/compiler/src/validate.ts says of a workflow definition    *)
(* that has the shape of packages/ir/src/schema.ts: the codes of its       *)
(* diagnostics.  Their paths and texts are left out, and so is whether an  *)
(* artifact schema is itself valid JSON Schema: it is marked.              *)
(*                                                                         *)
(* Nodes, schemas and verifiers are sets, so two of one id are two records *)
(* that differ.  A pattern is a sequence of names, deep when it ends in    *)
(* two stars; the pattern * is the empty sequence, deep.  Node names and   *)
(* the words "in" and "out" for the workflow's own ends make an endpoint.  *)
(***************************************************************************)
EXTENDS Integers, Sequences, SequencesExt, Walks

NoLimit == -1

\* The shape of packages/ir/src/schema.ts, as far as a proof needs it.
Pattern == [names : Seq(STRING), deep : BOOLEAN]
Endpoint == [node : STRING, port : STRING]
IsNode(n) ==
  /\ n.id \in STRING \ {"in", "out"}
  /\ {n.cost, n.attempts, n.rounds} \subseteq Nat
  /\ n.writes \subseteq Pattern
IsEdge(e) == e.source \in Endpoint /\ e.target \in Endpoint
WorkflowFields == {"version", "mode", "nodes", "edges", "schemas", "inputs", "outputs", "verifiers",
                   "requiredVerifiers", "allowedSecrets", "allowedNetworkHosts", "limit"}
IsWorkflow(w) ==
  /\ w = [field \in WorkflowFields |-> w[field]]
  /\ IsFiniteSet(w.nodes) /\ \A n \in w.nodes : IsNode(n)
  /\ IsFiniteSet(w.edges) /\ \A e \in w.edges : IsEdge(e)
  /\ w.limit \in Int

-----------------------------------------------------------------------------
\* The files a pattern stands for, and the text it is when it is itself
\* compared with a pattern.
AsPath(pattern) ==
  IF ~pattern.deep THEN pattern.names
  ELSE Append(pattern.names, IF pattern.names = <<>> THEN "*" ELSE "**")

PatternMatches(pattern, path) ==
  IF pattern.deep THEN IsStrictPrefix(pattern.names, path) ELSE path = pattern.names

PathMatches(path, grants) == \E grant \in grants : PatternMatches(grant, path)

RecursivePatternsOverlap(left, right) ==
  IsPrefix(left.names, right.names) \/ IsPrefix(right.names, left.names)

\* Variant: only patterns that are written alike are taken to meet.
SamePatterns(left, right) == left = right

WritePatternsOverlap(left, right) ==
  \/ PatternMatches(left, AsPath(right))
  \/ PatternMatches(right, AsPath(left))
  \/ /\ left.deep /\ left.names # <<>> /\ right.deep /\ right.names # <<>>
     /\ RecursivePatternsOverlap(left, right)

-----------------------------------------------------------------------------
\* The graph: an edge goes from [node, port] to [node, port].

NodeIds(w) == {n.id : n \in w.nodes}
NodeOf(w, id) == CHOOSE n \in w.nodes : n.id = id

\* The port an edge starts from or ends in, <<>> when there is none.
PortIn(ports, name) == IF name \in DOMAIN ports THEN <<ports[name].schema>> ELSE <<>>
SourcePort(w, edge) ==
  IF edge.source.node = "in" THEN PortIn(w.inputs, edge.source.port)
  ELSE IF edge.source.node \in NodeIds(w) THEN PortIn(NodeOf(w, edge.source.node).outputs, edge.source.port)
  ELSE <<>>
TargetPort(w, edge) ==
  IF edge.target.node = "out" THEN PortIn(w.outputs, edge.target.port)
  ELSE IF edge.target.node \in NodeIds(w) THEN PortIn(NodeOf(w, edge.target.node).inputs, edge.target.port)
  ELSE <<>>

\* Edges with two known ends: the others are reported and then passed over.
KnownEdges(w) == {e \in w.edges : SourcePort(w, e) # <<>> /\ TargetPort(w, e) # <<>>}

Adjacency(w) ==
  [id \in NodeIds(w) |->
     {e.target.node : e \in {f \in KnownEdges(w) : f.source.node = id /\ f.target.node # "out"}}]

Producers(w, node, port) == {e \in KnownEdges(w) : e.target = [node |-> node, port |-> port]}

\* The nodes that a search along the edges finds from a set of nodes.
ReachableFrom(adjacency, starts) == Reach(starts, adjacency, DOMAIN adjacency)

CanReach(start, target, adjacency) == target \in ReachableFrom(adjacency, adjacency[start])

\* The nodes that can run: those that an input of the workflow leads to.
Reachable(w) ==
  ReachableFrom(Adjacency(w),
    {e.target.node : e \in {f \in w.edges : f.source.node = "in" /\ f.target.node \in NodeIds(w)}})

-----------------------------------------------------------------------------
\* validateWorkflow, part by part: the codes each part may report.

When(condition, code) == IF condition THEN {code} ELSE {}

Declared(w) == {<<s.type>> : s \in w.schemas}
DeclaredPorts(w) ==
  UNION {{<<ports[p].schema>> : p \in DOMAIN ports} :
           ports \in {w.inputs, w.outputs} \cup (UNION {{n.inputs, n.outputs} : n \in w.nodes})}

CheckNames(w) ==
  When(\E n, m \in w.nodes : n # m /\ n.id = m.id, "DUPLICATE_NODE_ID")
  \cup When(\E s, t \in w.schemas : s # t /\ s.type = t.type, "DUPLICATE_ARTIFACT_SCHEMA")
  \cup When(\E s \in w.schemas : ~s.valid, "INVALID_ARTIFACT_JSON_SCHEMA")
  \cup When(~(DeclaredPorts(w) \subseteq Declared(w)), "UNKNOWN_ARTIFACT_SCHEMA")

CheckEdges(w) ==
  When(KnownEdges(w) # w.edges, "UNKNOWN_ENDPOINT")
  \cup When(\E e \in KnownEdges(w) : SourcePort(w, e) # TargetPort(w, e), "PORT_TYPE_MISMATCH")
  \cup When(\E n \in w.nodes : \E p \in DOMAIN n.inputs : Producers(w, n.id, p) = {},
            "REQUIRED_INPUT_MISSING_PRODUCER")
  \cup When(\E p \in DOMAIN w.outputs : Producers(w, "out", p) = {}, "WORKFLOW_OUTPUT_MISSING_PRODUCER")
  \cup When(\/ \E n \in w.nodes : \E p \in DOMAIN n.inputs : Cardinality(Producers(w, n.id, p)) > 1
            \/ \E p \in DOMAIN w.outputs : Cardinality(Producers(w, "out", p)) > 1,
            "MULTIPLE_PRODUCERS")

\* A depth-first search meets a node of its own stack exactly when some node
\* can reach itself.
DetectCycles(w) ==
  When(\E id \in NodeIds(w) : CanReach(id, id, Adjacency(w)), "FORBIDDEN_CYCLE")

IsMaker(owner) == owner.role \in {"product", "builder"}

CheckVerifiers(w) ==
  LET makers == {n.owner.id : n \in {m \in w.nodes : IsMaker(m.owner)}}
      required == {v \in w.verifiers : v.id \in w.requiredVerifiers}
  IN When(\E u, v \in w.verifiers : u # v /\ u.id = v.id, "DUPLICATE_VERIFIER_DEFINITION")
     \cup When(\E v \in w.verifiers : v.hidden /\ IsMaker(v.owner), "HIDDEN_VERIFIER_LEAKAGE")
     \cup When(\E v \in w.verifiers : v.owner.role # "verifier", "RELEASE_VERIFIER_RULE")
     \cup When(~(w.requiredVerifiers \subseteq {v.id : v \in w.verifiers}), "UNKNOWN_VERIFIER_REFERENCE")
     \cup When(\E v \in required : v.owner.id \in makers, "AUTHORITY_OVERLAP")

\* Two nodes that no path orders write files that may be the same.
WriteConflict(w) ==
  \E n, m \in w.nodes :
    /\ n.id # m.id
    /\ \E left \in n.writes, right \in m.writes : WritePatternsOverlap(left, right)
    /\ ~CanReach(n.id, m.id, Adjacency(w))
    /\ ~CanReach(m.id, n.id, Adjacency(w))

CheckNode(w, n) ==
  When(n.kind = "loop" /\ n.rounds = 0, "UNBOUNDED_LOOP")
  \cup When(n.attempts > 5, "RETRY_BOUNDS")
  \cup When(n.timeoutSec > 3600, "TIMEOUT_BOUNDS")
  \cup When(n.kind = "side_effect" /\ ~n.guarded, "SIDE_EFFECT_GUARD_MISSING")
  \cup When(\E r \in n.reads : ~PathMatches(AsPath(r), n.filesystemRead), "UNDECLARED_READ_CAPABILITY")
  \cup When(\E r \in n.writes : ~PathMatches(AsPath(r), n.filesystemWrite), "UNDECLARED_WRITE_CAPABILITY")
  \cup When(~(n.secretRefs \subseteq w.allowedSecrets), "UNDECLARED_SECRET")
  \cup When(~(n.network \subseteq w.allowedNetworkHosts), "UNDECLARED_NETWORK")
  \cup When(IsMaker(n.owner) /\ \E p \in DOMAIN n.inputs : n.inputs[p].hidden, "HIDDEN_VERIFIER_LEAKAGE")
  \cup When(~(n.verifiers \subseteq {v.id : v \in w.verifiers}), "UNKNOWN_VERIFIER_REFERENCE")

\* An unreachable node is only a warning.
CheckReachability(w) ==
  When(\E e \in w.edges : /\ e.target.node = "out" /\ e.target.port \in DOMAIN w.outputs
                         /\ e.source.node \notin Reachable(w) \cup {"in"},
       "UNREACHABLE_OUTPUT")

Total(cost) ==
  LET members == SetToSeq(DOMAIN cost)
      sum[k \in 0 .. Len(members)] == IF k = 0 THEN 0 ELSE sum[k - 1] + cost[members[k]]
  IN  sum[Len(members)]

\* A loop without bounds counts 51 rounds.
NodeCost(n) == n.cost * n.attempts * (IF n.kind # "loop" THEN 1 ELSE IF n.rounds = 0 THEN 51 ELSE n.rounds)
AnalyzeBudget(w) == When(w.limit # NoLimit /\ Total([n \in w.nodes |-> NodeCost(n)]) > w.limit, "BUDGET_EXCEEDED")

ValidateWorkflow(w) ==
  CheckNames(w) \cup CheckEdges(w) \cup DetectCycles(w) \cup CheckVerifiers(w)
  \cup When(WriteConflict(w), "WRITE_CONFLICT")
  \cup (UNION {CheckNode(w, n) : n \in w.nodes})
  \cup CheckReachability(w) \cup AnalyzeBudget(w)

IsValid(w) == ValidateWorkflow(w) = {}
=============================================================================
