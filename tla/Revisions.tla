----------------------------- MODULE Revisions -----------------------------
(***************************************************************************)
(* The state of a revision branch, what a patch may do to it, and what     *)
(* diffRevisionStates calls changed.                                       *)
(*                                                                         *)
(* Content stands for its digest: a definition, a type, a hash or a        *)
(* profile is one of Versions.  Only edges into nodes are kept, without    *)
(* the ports they join, since an edge into a workflow output is a reason   *)
(* of no node; a contract without declared consumers has the empty set.    *)
(***************************************************************************)
EXTENDS Naturals, FiniteSets

CONSTANTS
  NodeIds,
  Ports,      \* workflow inputs
  Contracts,
  Schemas,    \* artifact schemas
  Versions,
  Links,      \* bound: the edges that a patch adds or removes
  Refs,       \* the schemas that a definition's ports refer to
  None        \* what is not there

ASSUME LinksAssumption == Links \subseteq (NodeIds \cup Ports) \X NodeIds
ASSUME RefsAssumption == Refs \in [Versions -> SUBSET Schemas]
ASSUME NoneAssumption == None \notin Versions
ASSUME KindsAssumption == NodeIds \cap Ports = {}

Revision ==
  [nodes : SUBSET NodeIds,
   definition : [NodeIds -> Versions],
   edges : SUBSET Links,
   types : [Ports -> Versions \cup {None}],
   hashes : [Ports -> Versions \cup {None}],
   contracts : [Contracts -> Versions \cup {None}],
   consumers : [Contracts -> SUBSET NodeIds],
   schemas : [Schemas -> Versions \cup {None}],
   profiles : [NodeIds -> Versions \cup {None}],
   envelope : Versions]   \* identity, version, scope policy, verifiers, release policy

\* The edges of a compiled workflow end at nodes it has.
Connected(r) == \A e \in r.edges : e[1] \in r.nodes \cup Ports /\ e[2] \in r.nodes

EdgesAt(n) == {e \in Links : n \in {e[1], e[2]}}

\* One change of the workflow, which a patch replaces as a whole.
WorkflowPatched(r, s) ==
  \/ \E n \in NodeIds : s = [r EXCEPT !.nodes = @ \cup {n}]
  \/ \E n \in NodeIds :
       s = [r EXCEPT !.nodes = @ \ {n}, !.edges = @ \ EdgesAt(n)]
  \/ \E n \in r.nodes, v \in Versions : s = [r EXCEPT !.definition[n] = v]
  \/ \E e \in Links : s = [r EXCEPT !.edges = @ \cup {e}]
  \/ \E e \in Links : s = [r EXCEPT !.edges = @ \ {e}]
  \/ \E p \in Ports, v \in Versions \cup {None} : s = [r EXCEPT !.types[p] = v]
  \/ \E t \in Schemas, v \in Versions \cup {None} : s = [r EXCEPT !.schemas[t] = v]
  \/ \E v \in Versions : s = [r EXCEPT !.envelope = v]

\* patchMap: an entry is set or, by null, deleted.
MapPatched(r, s) ==
  \/ \E p \in Ports, v \in Versions \cup {None} : s = [r EXCEPT !.hashes[p] = v]
  \/ \E c \in Contracts, v \in Versions \cup {None} : s = [r EXCEPT !.contracts[c] = v]
  \/ \E c \in Contracts, ns \in SUBSET NodeIds : s = [r EXCEPT !.consumers[c] = ns]
  \/ \E n \in NodeIds, v \in Versions \cup {None} : s = [r EXCEPT !.profiles[n] = v]

-----------------------------------------------------------------------------
(* diffRevisionStates: the nodes with a reason of each kind.               *)

InputConsumers(r, p) == {n \in NodeIds : <<p, n>> \in r.edges}

InputArtifactChanged(parent, candidate) ==
  UNION {InputConsumers(parent, p) \cup InputConsumers(candidate, p) :
           p \in {p \in Ports : parent.hashes[p] # candidate.hashes[p]}}

\* A contract that somebody has a digest of, with another digest or other consumers.
ChangedContracts(parent, candidate) ==
  {c \in Contracts :
     /\ ~(parent.contracts[c] = None /\ candidate.contracts[c] = None)
     /\ \/ parent.contracts[c] # candidate.contracts[c]
        \/ parent.consumers[c] # candidate.consumers[c]}

MappedConsumers(parent, candidate, c) ==
  (parent.consumers[c] \cup candidate.consumers[c]) \cap candidate.nodes

\* A contract with no consumer among the nodes concerns them all.
ContractChanged(parent, candidate) ==
  UNION {IF MappedConsumers(parent, candidate, c) = {}
         THEN candidate.nodes ELSE MappedConsumers(parent, candidate, c) :
           c \in ChangedContracts(parent, candidate)}

NodeChanged(parent, candidate) ==
  {n \in candidate.nodes :
     n \notin parent.nodes \/ parent.definition[n] # candidate.definition[n]}

\* Variant: edges that the candidate no longer has are not compared.
EdgeAdded(parent, candidate) == {e[2] : e \in candidate.edges \ parent.edges}

EdgeChanged(parent, candidate) ==
  {e[2] : e \in (candidate.edges \ parent.edges) \cup (parent.edges \ candidate.edges)}

WorkflowChanged(parent, candidate) ==
  {n \in candidate.nodes : parent.envelope # candidate.envelope}

\* Artifact schemas and the types of workflow inputs.
SchemaChanged(parent, candidate) ==
  {n \in candidate.nodes :
     \/ \E s \in Refs[candidate.definition[n]] : parent.schemas[s] # candidate.schemas[s]
     \/ \E p \in Ports : n \in InputConsumers(candidate, p)
                           /\ parent.types[p] # candidate.types[p]}

ProfileChanged(parent, candidate) ==
  {n \in NodeIds : parent.profiles[n] # candidate.profiles[n]}

Roots(parent, candidate) ==
  candidate.nodes \cap
    (InputArtifactChanged(parent, candidate) \cup ContractChanged(parent, candidate)
       \cup NodeChanged(parent, candidate) \cup EdgeChanged(parent, candidate)
       \cup WorkflowChanged(parent, candidate) \cup SchemaChanged(parent, candidate)
       \cup ProfileChanged(parent, candidate))

-----------------------------------------------------------------------------
(* What a node's output depends on, to compare the code with.              *)

\* The node and what it reads, directly or not: the least set closed under edges.
Ancestry(r, n) ==
  {m \in NodeIds :
     \A S \in SUBSET NodeIds :
       n \in S /\ (\A e \in r.edges : e[2] \in S /\ e[1] \in NodeIds => e[1] \in S) => m \in S}

\* All that a revision says about one node.
Influences(r, n) ==
  [present |-> n \in r.nodes,
   definition |-> r.definition[n],
   profile |-> r.profiles[n],
   envelope |-> r.envelope,
   edges |-> {e \in r.edges : e[2] = n},
   inputs |-> {<<p, r.hashes[p], r.types[p]>> : p \in {p \in Ports : <<p, n>> \in r.edges}},
   contracts |-> {<<c, r.contracts[c]>> :
                    c \in {c \in Contracts : n \in r.consumers[c] /\ r.contracts[c] # None}},
   schemas |-> {<<s, r.schemas[s]>> : s \in Refs[r.definition[n]]}]
=============================================================================
