--------------------------- MODULE WorkflowEditor ---------------------------
(***************************************************************************)
(* The workflow editor of packages/control-plane: documents that are valid *)
(* (editor.ts), the edits that turn one into a candidate, the difference   *)
(* an operator is shown (semantic-diff.ts) and the graph (graph.ts).       *)
(*                                                                         *)
(* Snapshots, canonical JSON and digests are what makes a document a       *)
(* value, which it is here.                                                *)
(***************************************************************************)
EXTENDS WorkflowCompiler

CONSTANTS
  Workflows, \* inputs that a document may be opened from
  NodeEdits, \* nodes that an edit may put in
  EdgeEdits, \* edges that an edit may put in
  Contracts  \* contract fields that an edit may put in

ContractFields == {"schemas", "inputs", "outputs", "verifiers", "requiredVerifiers",
                   "allowedSecrets", "allowedNetworkHosts", "limit"}

\* What is typed is checked by the schema before anything else is.
ASSUME EditorAssumption ==
  /\ \A w \in Workflows : IsWorkflow(w)
  /\ \A n \in NodeEdits : IsNode(n)
  /\ \A e \in EdgeEdits : IsEdge(e)
  /\ \A c \in Contracts : ContractFields \subseteq DOMAIN c /\ c.limit \in Int

Opened == [kind |-> "opened"]

VARIABLES
  draft,    \* the workflow at hand
  previous, \* the one the last step started from
  edit      \* the last step: an edit, or that draft was made a document

editorVars == <<draft, previous, edit>>

\* createWorkflowEditorDocument and parseWorkflowEditorDocument: an input that
\* is not valid is refused.
EditorInit ==
  /\ draft \in {w \in Workflows : IsValid(w)}
  /\ previous = draft
  /\ edit = Opened

-----------------------------------------------------------------------------
\* applyWorkflowEdit

UpsertNode(w, node) == [w EXCEPT !.nodes = {n \in @ : n.id # node.id} \cup {node}]
RemoveNode(w, id) ==
  [w EXCEPT !.nodes = {n \in @ : n.id # id},
            !.edges = {e \in @ : e.source.node # id /\ e.target.node # id}]

\* An edge is named by its two ends.
EdgeId(edge) == <<edge.source, edge.target>>
UpsertEdge(w, edge) == [w EXCEPT !.edges = {e \in @ : EdgeId(e) # EdgeId(edge)} \cup {edge}]
RemoveEdge(w, id) == [w EXCEPT !.edges = {e \in @ : EdgeId(e) # id}]
ReplaceContracts(w, contracts) ==
  [field \in DOMAIN w |-> IF field \in ContractFields THEN contracts[field] ELSE w[field]]

EditOf(kind, value) == [kind |-> kind, value |-> value]
Edited(w, operation) ==
  CASE operation.kind = "upsert_node" -> UpsertNode(w, operation.value)
    [] operation.kind = "remove_node" -> RemoveNode(w, operation.value)
    [] operation.kind = "upsert_edge" -> UpsertEdge(w, operation.value)
    [] operation.kind = "remove_edge" -> RemoveEdge(w, operation.value)
    [] operation.kind = "replace_contracts" -> ReplaceContracts(w, operation.value)

\* applyWorkflowEdit does not ask whether what it edits is valid: a caller goes
\* on from a candidate that is not publishable yet.
ApplyWorkflowEdit(operation) ==
  /\ edit' = operation
  /\ previous' = draft
  /\ draft' = Edited(draft, operation)

\* A candidate without errors is made a document.
PublishDocument ==
  /\ edit # Opened
  /\ IsValid(draft)
  /\ edit' = Opened
  /\ previous' = draft
  /\ UNCHANGED draft

EditorNext ==
  \/ PublishDocument
  \/ \E n \in NodeEdits : ApplyWorkflowEdit(EditOf("upsert_node", n))
  \/ \E n \in NodeEdits : ApplyWorkflowEdit(EditOf("remove_node", n.id))
  \/ \E e \in EdgeEdits : ApplyWorkflowEdit(EditOf("upsert_edge", e))
  \/ \E e \in EdgeEdits : ApplyWorkflowEdit(EditOf("remove_edge", EdgeId(e)))
  \/ \E c \in Contracts : ApplyWorkflowEdit(EditOf("replace_contracts", c))

EditorSpec == EditorInit /\ [][EditorNext]_editorVars

-----------------------------------------------------------------------------
\* semanticDiffWorkflows.  Entities of one type are a function of their ids,
\* as the maps of the code are: of two with one id the last stays.

OneOf(set) == CHOOSE x \in set : TRUE
ById(set, Id(_)) == [id \in {Id(x) : x \in set} |-> OneOf({x \in set : Id(x) = id})]
Identified(x) == x.id
SchemaId(s) == s.type

Entities(w) ==
  [node |-> ById(w.nodes, Identified),
   edge |-> ById(w.edges, EdgeId),
   artifact_schema |-> ById(w.schemas, SchemaId),
   verifier |-> ById(w.verifiers, Identified),
   contract |-> [inputs |-> <<w.inputs>>, outputs |-> <<w.outputs>>,
                 scopePolicy |-> <<w.allowedSecrets, w.allowedNetworkHosts, w.limit>>,
                 releasePolicy |-> <<w.requiredVerifiers>>]]

\* Top-level fields of two nodes that differ: what the paths of a change name.
FieldsThatDiffer(left, right) == {field \in DOMAIN left : left[field] # right[field]}

CapabilityFields == {"filesystemRead", "filesystemWrite", "network", "secretRefs", "owner"}

\* impactFor, for what stays and differs.
ModifiedImpact(entityType, id, left, right) ==
  CASE entityType = "artifact_schema" -> "breaking"
    [] entityType = "edge" -> "behavioral"
    [] entityType = "verifier" -> "security"
    [] entityType = "contract" -> IF id \in {"scopePolicy", "releasePolicy"} THEN "security" ELSE "breaking"
    [] entityType = "node" ->
         IF FieldsThatDiffer(left, right) \cap CapabilityFields # {} THEN "security"
         ELSE IF FieldsThatDiffer(left, right) \cap {"inputs", "outputs", "kind"} # {} THEN "breaking"
         ELSE "behavioral"

AddedImpact(entityType) == IF entityType = "verifier" THEN "security" ELSE "behavioral"

Change(entityType, id, kind, impact) ==
  [entityType |-> entityType, id |-> id, kind |-> kind, impact |-> impact]

\* Variant: the ids of the new side only are gone through.
ChangesOfNew(entityType, before, after) ==
  {Change(entityType, id, "added", AddedImpact(entityType)) : id \in DOMAIN after \ DOMAIN before}
  \cup {Change(entityType, id, "modified", ModifiedImpact(entityType, id, before[id], after[id])) :
          id \in {i \in DOMAIN before \cap DOMAIN after : before[i] # after[i]}}

DiffMap(entityType, before, after) ==
  {Change(entityType, id, "added", AddedImpact(entityType)) : id \in DOMAIN after \ DOMAIN before}
  \cup {Change(entityType, id, "removed", "breaking") : id \in DOMAIN before \ DOMAIN after}
  \cup {Change(entityType, id, "modified", ModifiedImpact(entityType, id, before[id], after[id])) :
          id \in {i \in DOMAIN before \cap DOMAIN after : before[i] # after[i]}}

WorkflowIdentity(w) == [version |-> w.version, mode |-> w.mode]

\* The changes of each type of entity.
SemanticDiff(before, after) ==
  LET left == WorkflowIdentity(before)
      right == WorkflowIdentity(after)
      identity == IF left = right THEN {}
                  ELSE {Change("workflow", "workflow", "modified",
                               IF FieldsThatDiffer(left, right) = {"version"} THEN "metadata" ELSE "behavioral")}
      types == {"node", "edge", "artifact_schema", "verifier", "contract"}
  IN [type \in types \cup {"workflow"} |->
        IF type = "workflow" THEN identity
        ELSE DiffMap(type, Entities(before)[type], Entities(after)[type])]

-----------------------------------------------------------------------------
\* projectWorkflowGraph: the cost the operator is shown, where a loop without
\* bounds counts as one round, and the edges at a node.
GraphNodeCost(n) == n.cost * n.attempts * (IF n.kind # "loop" \/ n.rounds = 0 THEN 1 ELSE n.rounds)
GraphCost(w) == Total([n \in w.nodes |-> GraphNodeCost(n)])
IncomingEdges(w, id) == {e \in w.edges : e.target.node = id}

-----------------------------------------------------------------------------
Files == {<<"a">>, <<"a", "b">>, <<"a", "b", "c">>, <<"c">>}
Upstream(w, id) == {e.source.node : e \in IncomingEdges(w, id)} \ {"in"}
Above(w, id) == Reach(Upstream(w, id), [u \in NodeIds(w) |-> Upstream(w, u)], NodeIds(w))
Started(w) ==
  Rounds({}, [S \in SUBSET NodeIds(w) |-> S \cup {id \in NodeIds(w) : Upstream(w, id) \subseteq S}], NodeIds(w))

\* A document, whatever edits led to it, can be run: its nodes, each started
\* when those that feed it are done, all get done; every input has one value; of
\* two nodes that may write one file, one is upstream of the other; and the most
\* it can cost is what the operator saw and within the limit (validate.ts:469,
\* editor.ts:80, graph.ts:47).
DocumentsCanBeRun ==
  LET MayWrite(n, file) == \E p \in n.writes : PatternMatches(p, file)
  IN edit = Opened =>
       /\ Started(draft) = NodeIds(draft)
       /\ \A n \in draft.nodes :
            {e.target.port : e \in IncomingEdges(draft, n.id)} = DOMAIN n.inputs
            /\ Cardinality(IncomingEdges(draft, n.id)) = Cardinality(DOMAIN n.inputs)
       /\ \A n, m \in draft.nodes :
            n # m /\ (\E file \in Files : MayWrite(n, file) /\ MayWrite(m, file)) =>
              n.id \in Above(draft, m.id) \/ m.id \in Above(draft, n.id)
       /\ draft.limit # NoLimit => GraphCost(draft) <= draft.limit

\* What the operator is told of an edit accounts for it: there is a change
\* exactly when the candidate differs, or contracts that name one thing twice are
\* reported; and every change is of something the edit names or, for a node that
\* is removed, of an edge at that node (semantic-diff.ts:86, editor.ts:93).
ChangesAccountForEdits ==
  LET changes == SemanticDiff(previous, draft)
      Only(types) == \A type \in DOMAIN changes \ types : changes[type] = {}
      ambiguous == {"DUPLICATE_ARTIFACT_SCHEMA", "DUPLICATE_VERIFIER_DEFINITION"}
  IN /\ previous = draft => Only({})
     /\ Only({}) => \/ previous = draft
                    \/ ambiguous \cap (ValidateWorkflow(previous) \cup ValidateWorkflow(draft)) # {}
     /\ edit.kind = "upsert_node" =>
          Only({"node"}) /\ \A c \in changes.node : c.id = edit.value.id
     /\ edit.kind = "remove_node" =>
          /\ Only({"node", "edge"})
          /\ \A c \in changes.node : c.id = edit.value
          /\ \A c \in changes.edge : edit.value \in {c.id[1].node, c.id[2].node} /\ c.kind = "removed"
     /\ edit.kind = "upsert_edge" =>
          Only({"edge"}) /\ \A c \in changes.edge : c.id = EdgeId(edit.value)
     /\ edit.kind = "remove_edge" =>
          Only({"edge"}) /\ \A c \in changes.edge : c.id = edit.value /\ c.kind = "removed"
     /\ edit.kind = "replace_contracts" => Only({"artifact_schema", "verifier", "contract"})
=============================================================================
