---------------------------- MODULE Specs_proofs ----------------------------
(***************************************************************************)
(* Proofs about what a run makes of a Spec: what is run again when it      *)
(* changed (Impact), what a repair of it asks and loses (SpecRevision),    *)
(* and what is delivered from it (DemoDelivery).                           *)
(*                                                                         *)
(* What computeImpact and buildCachePlan reuse is the same in both         *)
(* revisions, and what is run again is the closure of what changed: for    *)
(* any graph, patch, report and fingerprint.  Ancestry is a least closed   *)
(* set, and the walks keep its complement closed: what was reached is      *)
(* closed under the edges but for the queue (ReachedIsClosed), so what was *)
(* not reached at the end has nothing that was reached upstream.           *)
(*                                                                         *)
(* The operations of a patch are folded over the document.  A fold is      *)
(* followed through the documents in between, by induction on a set of     *)
(* numbers (SetInduction): what each operation keeps, the whole patch      *)
(* keeps (OperationsStayWithin).                                           *)
(***************************************************************************)
EXTENDS Impact, SpecRevision, DemoDelivery, WellFoundedInduction, FiniteSetTheorems, TLAPS

-----------------------------------------------------------------------------
\* Impact: what is run again and what is reused.

\* Nodes with a reason that one of the two walks gave.
Reached == {r.node : r \in {r \in reasons : r.code # "BROAD_REGRESSION"}}

Concerned == Roots(parent, candidate) \cup observed

WalksAreOver ==
  /\ phase = "patch" => reasons = {} /\ mandatory = {} /\ queue = {} /\ visited = {}
  /\ phase = "planned" => queue = {}
  /\ phase \in {"patch", "roots"} => mandatory = {}
  /\ queue # {} => source \in NodeIds

ReachedIsClosed ==
  /\ visited \subseteq Reached /\ Reached \subseteq candidate.nodes
  /\ \A e \in candidate.edges : e[1] \in Reached \ queue => e[2] \in Reached

RootsAreReached ==
  /\ phase = "roots" => todo \subseteq Roots(parent, candidate)
  /\ phase = "roots" => Roots(parent, candidate) \subseteq Reached \cup todo
  /\ phase \in {"observed", "planned"} => Roots(parent, candidate) \subseteq Reached

\* A walk reaches nothing that nothing concerned is upstream of.
ReachedIsConcerned ==
  /\ phase = "observed" => todo \subseteq observed
  /\ \A n \in Reached : \/ ~(observed \subseteq candidate.nodes)
                        \/ Ancestry(candidate, n) \cap Concerned # {}

ObservedAreMandatory ==
  /\ phase = "observed" =>
       /\ queue # {} => visited \subseteq mandatory
       /\ \A e \in candidate.edges : e[1] \in mandatory \ queue => e[2] \in mandatory
       /\ mandatory \subseteq Reached
       /\ observed \cap candidate.nodes \subseteq mandatory \cup todo
       /\ observed \subseteq candidate.nodes \cup todo \/ candidate.nodes \subseteq mandatory
  /\ phase = "planned" =>
       /\ \A n \in candidate.nodes : Ancestry(candidate, n) \cap observed # {} => n \in mandatory
       /\ observed \cap candidate.nodes \subseteq Reached
       /\ observed \subseteq candidate.nodes \/ candidate.nodes \subseteq Reached
       /\ broad \cap candidate.nodes \subseteq mandatory

\* The last step adds the regression nodes, or all.
BroadIsAdded ==
  /\ phase # "planned" => \A r \in reasons : r.code # "BROAD_REGRESSION"
  /\ phase = "planned" =>
       \A n \in candidate.nodes :
         Rerun(n) <=> n \in Reached \/ n \in broad \/ ~(broad \subseteq candidate.nodes)

IInv ==
  /\ TypeOK /\ WalksAreOver /\ ReachedIsClosed /\ RootsAreReached
  /\ ReachedIsConcerned /\ ObservedAreMandatory /\ BroadIsAdded

-----------------------------------------------------------------------------
(* Least closed sets.                                                      *)

\* An ancestry holds its node and what the members read.
LEMMA AncestryIsClosed ==
  ASSUME NEW r, NEW n \in NodeIds
  PROVE  /\ n \in Ancestry(r, n) /\ Ancestry(r, n) \subseteq NodeIds
         /\ \A e \in r.edges :
              e[2] \in Ancestry(r, n) /\ e[1] \in NodeIds => e[1] \in Ancestry(r, n)
BY DEF Ancestry

\* It lies in every closed set that holds its node.
LEMMA AncestryIsLeast ==
  ASSUME NEW r, NEW n \in NodeIds, NEW S \in SUBSET NodeIds, n \in S,
         \A e \in r.edges : e[2] \in S /\ e[1] \in NodeIds => e[1] \in S
  PROVE  Ancestry(r, n) \subseteq S
BY DEF Ancestry

\* What is upstream of a node is upstream of its consumers.
LEMMA AncestryGrows ==
  ASSUME NEW r, NEW n \in NodeIds, NEW t \in NodeIds, <<n, t>> \in r.edges
  PROVE  Ancestry(r, n) \subseteq Ancestry(r, t)
<1>1. /\ t \in Ancestry(r, t) /\ Ancestry(r, t) \in SUBSET NodeIds
      /\ \A e \in r.edges :
           e[2] \in Ancestry(r, t) /\ e[1] \in NodeIds => e[1] \in Ancestry(r, t)
  BY AncestryIsClosed
<1>2. n \in Ancestry(r, t)
  BY <1>1
<1> QED
  BY <1>1, <1>2, AncestryIsLeast

\* What is upstream of a node is in the workflow.
LEMMA AncestryIsThere ==
  ASSUME NEW r \in Revision, Connected(r), NEW n \in r.nodes
  PROVE  Ancestry(r, n) \subseteq r.nodes
<1>1. n \in NodeIds /\ r.nodes \in SUBSET NodeIds
  BY DEF Revision
<1>2. \A e \in r.edges : e[2] \in r.nodes /\ e[1] \in NodeIds => e[1] \in r.nodes
  BY KindsAssumption DEF Connected
<1> QED
  BY <1>1, <1>2, AncestryIsLeast

\* If nothing in a set feeds what is outside, no member is upstream of what is outside.
LEMMA NothingReachedUpstream ==
  ASSUME NEW r, NEW n \in NodeIds, NEW S, n \notin S,
         \A e \in r.edges : e[1] \in S => e[2] \in S
  PROVE  Ancestry(r, n) \cap S = {}
<1>1. n \in NodeIds \ S /\ NodeIds \ S \in SUBSET NodeIds
  OBVIOUS
<1>2. \A e \in r.edges : e[2] \in NodeIds \ S /\ e[1] \in NodeIds => e[1] \in NodeIds \ S
  OBVIOUS
<1>3. Ancestry(r, n) \subseteq NodeIds \ S
  BY <1>1, <1>2, AncestryIsLeast
<1> QED
  BY <1>3

-----------------------------------------------------------------------------
(* What is no root is the same in both revisions.                          *)

LEMMA NoRootIsUnchanged ==
  ASSUME NEW p \in Revision, NEW c \in Revision, NEW n \in c.nodes, n \notin Roots(p, c)
  PROVE  Influences(p, n) = Influences(c, n)
<1> USE DEF Roots
<1>1. n \in NodeIds
  BY DEF Revision
<1>2. (n \in p.nodes) = (n \in c.nodes) /\ p.definition[n] = c.definition[n]
  BY DEF NodeChanged
<1>3. p.profiles[n] = c.profiles[n]
  BY <1>1 DEF ProfileChanged
<1>4. p.envelope = c.envelope
  BY DEF WorkflowChanged
<1>5. \A e : e[2] = n => (e \in p.edges <=> e \in c.edges)
  BY DEF EdgeChanged
<1>6. {e \in p.edges : e[2] = n} = {e \in c.edges : e[2] = n}
  BY <1>5
<1>7. \A q \in Ports : <<q, n>> \in p.edges <=> <<q, n>> \in c.edges
  BY <1>5
<1>8. \A q \in Ports : <<q, n>> \in c.edges => p.hashes[q] = c.hashes[q] /\ p.types[q] = c.types[q]
  <2> SUFFICES ASSUME NEW q \in Ports, <<q, n>> \in c.edges
               PROVE  p.hashes[q] = c.hashes[q] /\ p.types[q] = c.types[q]
    OBVIOUS
  <2>1. n \in InputConsumers(c, q)
    BY <1>1 DEF InputConsumers
  <2>2. p.hashes[q] = c.hashes[q]
    BY <2>1 DEF InputArtifactChanged
  <2>3. p.types[q] = c.types[q]
    BY <2>1 DEF SchemaChanged
  <2> QED BY <2>2, <2>3
<1>9. {<<q, p.hashes[q], p.types[q]>> : q \in {q \in Ports : <<q, n>> \in p.edges}}
        = {<<q, c.hashes[q], c.types[q]>> : q \in {q \in Ports : <<q, n>> \in c.edges}}
  BY <1>7, <1>8
<1>10. \A k \in Contracts :
         n \in p.consumers[k] \cup c.consumers[k] =>
           \/ p.contracts[k] = None /\ c.contracts[k] = None
           \/ p.contracts[k] = c.contracts[k] /\ p.consumers[k] = c.consumers[k]
  <2> SUFFICES ASSUME NEW k \in Contracts, n \in p.consumers[k] \cup c.consumers[k],
                      k \in ChangedContracts(p, c)
               PROVE  FALSE
    BY DEF ChangedContracts
  <2>1. n \in MappedConsumers(p, c, k)
    BY DEF MappedConsumers
  <2>2. n \in ContractChanged(p, c)
    BY <2>1 DEF ContractChanged
  <2> QED BY <2>2
<1>11. {<<k, p.contracts[k]>> : k \in {k \in Contracts : n \in p.consumers[k] /\ p.contracts[k] # None}}
         = {<<k, c.contracts[k]>> : k \in {k \in Contracts : n \in c.consumers[k] /\ c.contracts[k] # None}}
  BY <1>10
<1>12. \A s \in Refs[c.definition[n]] : p.schemas[s] = c.schemas[s]
  BY DEF SchemaChanged
<1>13. {<<s, p.schemas[s]>> : s \in Refs[p.definition[n]]}
         = {<<s, c.schemas[s]>> : s \in Refs[c.definition[n]]}
  BY <1>2, <1>12
<1> QED
  BY <1>2, <1>3, <1>4, <1>6, <1>9, <1>11, <1>13 DEF Influences

\* If the ancestry of a node in the candidate holds no root, the parent has the same.
LEMMA SameAncestry ==
  ASSUME NEW p \in Revision, NEW c \in Revision, Connected(c), NEW n \in c.nodes,
         Ancestry(c, n) \cap Roots(p, c) = {}
  PROVE  /\ Ancestry(p, n) = Ancestry(c, n)
         /\ \A m \in Ancestry(c, n) : Influences(p, m) = Influences(c, m)
<1>1. n \in NodeIds /\ Ancestry(c, n) \subseteq c.nodes
  BY AncestryIsThere DEF Revision
<1>2. \A m \in Ancestry(c, n) : Influences(p, m) = Influences(c, m)
  BY <1>1, NoRootIsUnchanged
<1>3. \A e : e[2] \in Ancestry(c, n) => (e \in p.edges <=> e \in c.edges)
  BY <1>1 DEF Roots, EdgeChanged
<1>4. Ancestry(p, n) \subseteq Ancestry(c, n)
  BY <1>1, <1>3, AncestryIsClosed, AncestryIsLeast
<1>5. Ancestry(c, n) \subseteq Ancestry(p, n)
  <2>1. \A e \in c.edges :
          e[2] \in Ancestry(p, n) /\ e[1] \in NodeIds => e[1] \in Ancestry(p, n)
    BY <1>1, <1>3, <1>4, AncestryIsClosed
  <2> QED
    BY <1>1, <2>1, AncestryIsClosed, AncestryIsLeast
<1> QED
  BY <1>2, <1>4, <1>5

-----------------------------------------------------------------------------
(* The invariant.                                                          *)

LEMMA PatchesAreRevisions ==
  ASSUME NEW r \in Revision, NEW s, WorkflowPatched(r, s) \/ MapPatched(r, s)
  PROVE  s \in Revision
<1>1. CASE WorkflowPatched(r, s)
  <2>1. ASSUME NEW n \in NodeIds
        PROVE  /\ [r EXCEPT !.nodes = @ \cup {n}] \in Revision
               /\ [r EXCEPT !.nodes = @ \ {n}, !.edges = @ \ EdgesAt(n)] \in Revision
    BY <2>1 DEF Revision
  <2>2. ASSUME NEW n \in r.nodes, NEW v \in Versions
        PROVE  [r EXCEPT !.definition[n] = v] \in Revision
    BY <2>2 DEF Revision
  <2>3. ASSUME NEW e \in Links
        PROVE  [r EXCEPT !.edges = @ \cup {e}] \in Revision /\ [r EXCEPT !.edges = @ \ {e}] \in Revision
    BY <2>3 DEF Revision
  <2>4. ASSUME NEW v \in Versions \cup {None}
        PROVE  /\ \A p \in Ports : [r EXCEPT !.types[p] = v] \in Revision
               /\ \A t \in Schemas : [r EXCEPT !.schemas[t] = v] \in Revision
               /\ v \in Versions => [r EXCEPT !.envelope = v] \in Revision
    BY <2>4 DEF Revision
  <2> QED
    <3>1. CASE \E n \in NodeIds : \/ s = [r EXCEPT !.nodes = @ \cup {n}]
                                 \/ s = [r EXCEPT !.nodes = @ \ {n}, !.edges = @ \ EdgesAt(n)]
      BY <2>1, <3>1, Zenon
    <3>2. CASE \E n \in r.nodes, v \in Versions : s = [r EXCEPT !.definition[n] = v]
      BY <2>2, <3>2, Zenon
    <3>3. CASE \E e \in Links : \/ s = [r EXCEPT !.edges = @ \cup {e}]
                               \/ s = [r EXCEPT !.edges = @ \ {e}]
      BY <2>3, <3>3, Zenon
    <3>4. CASE \E v \in Versions \cup {None} :
                 \/ \E p \in Ports : s = [r EXCEPT !.types[p] = v]
                 \/ \E t \in Schemas : s = [r EXCEPT !.schemas[t] = v]
                 \/ v \in Versions /\ s = [r EXCEPT !.envelope = v]
      BY <2>4, <3>4, Zenon
    <3> HIDE DEF Revision
    <3> QED
      BY <1>1, <3>1, <3>2, <3>3, <3>4, Zenon DEF WorkflowPatched
<1>2. CASE MapPatched(r, s)
  BY <1>2 DEF MapPatched, Revision
<1> QED
  BY <1>1, <1>2

LEMMA InitIInv == Init => IInv
<1> SUFFICES ASSUME Init PROVE IInv
  OBVIOUS
<1>1. TypeOK
  BY ParentsAssumption, BoundsAssumption DEF Init, TypeOK
<1>2. Reached = {}
  BY DEF Init, Reached
<1> QED
  BY <1>1, <1>2
     DEF Init, IInv, WalksAreOver, ReachedIsClosed, RootsAreReached, ReachedIsConcerned,
         ObservedAreMandatory, BroadIsAdded

\* What reasons of a walk add to what it reached.
LEMMA MoreReached ==
  ASSUME NEW ns, NEW code, NEW from, code # "BROAD_REGRESSION",
         reasons' = reasons \cup {ReasonFor(n, code, from) : n \in ns}
  PROVE  Reached' = Reached \cup ns
<1>1. \A n \in ns : ReasonFor(n, code, from).node = n /\ ReasonFor(n, code, from).code = code
  BY DEF ReasonFor
<1>2. Reached' \subseteq Reached \cup ns
  BY <1>1 DEF Reached
<1>3. Reached \subseteq Reached'
  BY DEF Reached
<1>4. ns \subseteq Reached'
  <2> SUFFICES ASSUME NEW n \in ns PROVE n \in Reached'
    OBVIOUS
  <2>1. ReasonFor(n, code, from) \in reasons'
    OBVIOUS
  <2> QED
    BY <1>1, <2>1 DEF Reached
<1> QED
  BY <1>2, <1>3, <1>4

LEMMA OneMoreReached ==
  ASSUME NEW n, NEW code, NEW from, code # "BROAD_REGRESSION",
         reasons' = reasons \cup {ReasonFor(n, code, from)}
  PROVE  Reached' = Reached \cup {n}
<1>1. ReasonFor(n, code, from).node = n /\ ReasonFor(n, code, from).code = code
  BY DEF ReasonFor
<1> QED
  BY <1>1 DEF Reached

LEMMA TypeStep == TypeOK /\ WalksAreOver /\ ReachedIsClosed /\ [Next]_vars => TypeOK'
<1> SUFFICES ASSUME TypeOK, WalksAreOver, ReachedIsClosed, [Next]_vars PROVE TypeOK'
  OBVIOUS
<1> USE BoundsAssumption
<1>1. candidate.nodes \in SUBSET NodeIds
  BY DEF TypeOK, Revision
<1>2. CASE Revise
  <2>1. candidate' \in Revision /\ Connected(candidate') /\ mandatory = {}
    BY <1>2, PatchesAreRevisions DEF TypeOK, Revise, WalksAreOver
  <2> QED
    BY <1>2, <2>1 DEF TypeOK, Revise, walk
<1>3. CASE Diff
  <2>1. Roots(parent, candidate) \subseteq NodeIds
    BY <1>1 DEF Roots
  <2> QED
    BY <1>3, <2>1 DEF TypeOK, Diff
<1>4. ASSUME NEW n \in NodeIds, TakeRoot(n) PROVE TypeOK'
  BY <1>4 DEF TypeOK, TakeRoot, IsNext, WalkFrom, Reason, ReasonFor
<1>5. ASSUME NEW n \in NodeIds, Visit(n) PROVE TypeOK'
  <2> DEFINE new == Adjacent(n) \ visited
  <2>1. source \in NodeIds /\ new \subseteq candidate.nodes
    BY <1>5 DEF TypeOK, Visit, Adjacent, Connected, WalksAreOver
  <2>2. {ReasonFor(t, "UPSTREAM_INVALIDATED", source) : t \in new} \subseteq Reason
    BY <1>1, <2>1 DEF Reason, ReasonFor
  <2> QED
    BY <1>1, <1>5, <2>1, <2>2 DEF TypeOK, Visit
<1>6. CASE RootsDone
  BY <1>6 DEF TypeOK, RootsDone
<1>7. ASSUME NEW n \in NodeIds, TakeObserved(n) PROVE TypeOK'
  <2>1. ForcedBy(n, "UNDECLARED_READ") \subseteq Reason
    BY <1>1 DEF ForcedBy, Reason, ReasonFor
  <2> QED
    BY <1>7, <2>1 DEF TypeOK, TakeObserved, IsNext, WalkFrom, Reason, ReasonFor
<1>8. CASE Broad
  <2>1. \A n \in broad : ForcedBy(n, "BROAD_REGRESSION") \subseteq Reason
    BY <1>1 DEF TypeOK, ForcedBy, Reason, ReasonFor
  <2>2. {ReasonFor(n, "BROAD_REGRESSION", n) : n \in broad} \subseteq Reason
    BY DEF TypeOK, Reason, ReasonFor
  <2>3. reasons' \subseteq Reason
    BY <1>8, <2>1, <2>2 DEF Broad, TypeOK
  <2> QED
    BY <1>8, <2>3 DEF TypeOK, Broad, walk
<1>9. CASE UNCHANGED vars
  BY <1>9 DEF TypeOK, vars, walk
<1> QED
  BY <1>2, <1>3, <1>4, <1>5, <1>6, <1>7, <1>8, <1>9 DEF Next

Walks ==
  /\ WalksAreOver /\ ReachedIsClosed /\ RootsAreReached
  /\ ReachedIsConcerned /\ ObservedAreMandatory /\ BroadIsAdded

\* A node is taken from the roots, and its walk starts.
LEMMA TakeRootStep == \A n \in NodeIds : IInv /\ TakeRoot(n) => Walks'
<1> SUFFICES ASSUME NEW n \in NodeIds, IInv, TakeRoot(n) PROVE Walks'
  OBVIOUS
<1> USE DEF TakeRoot, WalkFrom, IInv, TypeOK
<1>1. Reached' = Reached \cup {n}
  BY OneMoreReached
<1>2. n \in Roots(parent, candidate) /\ n \in candidate.nodes
  BY DEF IsNext, RootsAreReached, Roots
<1>3. WalksAreOver'
  BY DEF WalksAreOver
<1>4. ReachedIsClosed'
  BY <1>1, <1>2 DEF ReachedIsClosed
<1>5. RootsAreReached'
  BY <1>1, <1>2 DEF RootsAreReached
<1>6. ReachedIsConcerned'
  <2>1. n \in Ancestry(candidate, n)
    BY AncestryIsClosed
  <2> QED
    BY <1>1, <1>2, <2>1 DEF ReachedIsConcerned, Concerned
<1>7. ObservedAreMandatory'
  BY DEF ObservedAreMandatory
<1>8. BroadIsAdded'
  BY DEF BroadIsAdded, ReasonFor
<1> QED
  BY <1>3, <1>4, <1>5, <1>6, <1>7, <1>8 DEF Walks

\* A node of the queue reaches its consumers.
LEMMA VisitStep == \A n \in NodeIds : IInv /\ Visit(n) => Walks'
<1> SUFFICES ASSUME NEW n \in NodeIds, IInv, Visit(n) PROVE Walks'
  OBVIOUS
<1> DEFINE new == Adjacent(n) \ visited
<1> USE DEF IInv
<1>1. /\ phase \in {"roots", "observed"} /\ n \in queue /\ n \in visited /\ n \in Reached
      /\ source \in NodeIds
  BY DEF TypeOK, Visit, WalksAreOver, ReachedIsClosed
<1>2. /\ queue' = (queue \ {n}) \cup new /\ visited' = visited \cup new
      /\ reasons' = reasons \cup {ReasonFor(t, "UPSTREAM_INVALIDATED", source) : t \in new}
      /\ mandatory' = IF phase = "observed" THEN mandatory \cup new ELSE mandatory
      /\ UNCHANGED <<parent, candidate, edits, phase, observed, broad, todo, source>>
  BY DEF Visit
<1> HIDE DEF new
<1>3. Reached' = Reached \cup new
  BY <1>2, MoreReached
<1>4. /\ new \subseteq candidate.nodes /\ candidate.nodes \subseteq NodeIds
      /\ \A t \in new : <<n, t>> \in candidate.edges
  BY DEF new, Adjacent, TypeOK, Connected, Revision
<1>5. \A e \in candidate.edges : e[1] = n => e[2] \in visited \cup new
  <2> SUFFICES ASSUME NEW e \in candidate.edges, e[1] = n PROVE e[2] \in Adjacent(n)
    BY DEF new
  <2>1. e = <<e[1], e[2]>> /\ e[2] \in NodeIds
    BY LinksAssumption DEF TypeOK, Revision
  <2> QED
    BY <2>1 DEF Adjacent
<1>6. WalksAreOver'
  BY <1>1, <1>2 DEF WalksAreOver
<1>7. ReachedIsClosed'
  BY <1>1, <1>2, <1>3, <1>4, <1>5 DEF ReachedIsClosed
<1>8. RootsAreReached'
  BY <1>1, <1>2, <1>3 DEF RootsAreReached
<1>9. ReachedIsConcerned'
  <2>1. \A t \in new : Ancestry(candidate, n) \subseteq Ancestry(candidate, t)
    BY <1>4, AncestryGrows
  <2>2. Concerned' = Concerned
    BY <1>2 DEF Concerned
  <2>3. \A t \in Reached \cup new :
          ~(observed \subseteq candidate.nodes) \/ Ancestry(candidate, t) \cap Concerned # {}
    BY <1>1, <2>1 DEF ReachedIsConcerned
  <2> QED
    BY <1>2, <1>3, <2>2, <2>3 DEF ReachedIsConcerned
<1>10. ObservedAreMandatory'
  <2>1. CASE phase = "roots"
    BY <1>2, <2>1 DEF ObservedAreMandatory
  <2>2. CASE phase = "observed"
    <3>1. mandatory' = mandatory \cup new /\ visited \subseteq mandatory
      BY <1>1, <1>2, <2>2 DEF ObservedAreMandatory
    <3>2. \A e \in candidate.edges : e[1] \in mandatory' \ queue' => e[2] \in mandatory'
      BY <1>1, <1>2, <1>5, <2>2, <3>1 DEF ObservedAreMandatory
    <3> QED
      BY <1>1, <1>2, <1>3, <2>2, <3>1, <3>2 DEF ObservedAreMandatory
  <2> QED
    BY <1>1, <2>1, <2>2
<1>11. BroadIsAdded'
  BY <1>1, <1>2 DEF BroadIsAdded, ReasonFor
<1> QED
  BY <1>6, <1>7, <1>8, <1>9, <1>10, <1>11 DEF Walks

\* A node with an undeclared read is taken: its walk starts, or all nodes are forced.
LEMMA TakeObservedStep == \A n \in NodeIds : IInv /\ TakeObserved(n) => Walks'
<1> SUFFICES ASSUME NEW n \in NodeIds, IInv, TakeObserved(n) PROVE Walks'
  OBVIOUS
<1> USE DEF IInv
<1>1. /\ phase = "observed" /\ phase' = "observed" /\ queue = {} /\ n \in todo
      /\ todo' = todo \ {n} /\ n \in observed
      /\ UNCHANGED <<parent, candidate, observed, broad>>
  BY DEF TakeObserved, IsNext, ReachedIsConcerned
<1>2. Concerned' = Concerned /\ n \in Concerned
  BY <1>1 DEF Concerned
<1>3. CASE n \in candidate.nodes
  <2>1. /\ mandatory' = mandatory \cup {n} /\ queue' = {n} /\ visited' = {n} /\ source' = n
        /\ reasons' = reasons \cup {ReasonFor(n, "UNDECLARED_READ", n)}
    BY <1>3 DEF TakeObserved, WalkFrom
  <2>2. Reached' = Reached \cup {n}
    BY <2>1, OneMoreReached
  <2>3. WalksAreOver' /\ BroadIsAdded'
    BY <1>1, <2>1 DEF WalksAreOver, BroadIsAdded, ReasonFor
  <2>4. ReachedIsClosed' /\ RootsAreReached'
    BY <1>1, <1>3, <2>1, <2>2 DEF ReachedIsClosed, RootsAreReached
  <2>5. ReachedIsConcerned'
    <3>1. n \in Ancestry(candidate, n)
      BY AncestryIsClosed
    <3> QED
      BY <1>1, <1>2, <2>2, <3>1 DEF ReachedIsConcerned
  <2>6. ObservedAreMandatory'
    BY <1>1, <1>3, <2>1, <2>2 DEF ObservedAreMandatory
  <2> QED
    BY <2>3, <2>4, <2>5, <2>6 DEF Walks
<1>4. CASE n \notin candidate.nodes
  <2>1. /\ mandatory' = candidate.nodes
        /\ reasons' = reasons \cup {ReasonFor(m, "UNDECLARED_READ", n) : m \in candidate.nodes}
        /\ UNCHANGED <<source, queue, visited>>
    BY <1>4 DEF TakeObserved, ForcedBy
  <2>2. Reached' = candidate.nodes
    <3>1. Reached' = Reached \cup candidate.nodes
      BY <2>1, MoreReached
    <3> QED
      BY <3>1 DEF ReachedIsClosed
  <2>3. \A e \in candidate.edges : e[2] \in candidate.nodes
    BY DEF TypeOK, Connected
  <2>4. WalksAreOver' /\ BroadIsAdded'
    BY <1>1, <2>1 DEF WalksAreOver, BroadIsAdded, ReasonFor
  <2>5. ReachedIsClosed' /\ RootsAreReached'
    BY <1>1, <2>1, <2>2, <2>3 DEF ReachedIsClosed, RootsAreReached, Roots
  <2>6. ReachedIsConcerned'
    BY <1>1, <1>4 DEF ReachedIsConcerned
  <2>7. ObservedAreMandatory'
    BY <1>1, <2>1, <2>2, <2>3 DEF ObservedAreMandatory
  <2> QED
    BY <2>4, <2>5, <2>6, <2>7 DEF Walks
<1> QED
  BY <1>3, <1>4

\* The other steps, the last of which adds the regression nodes.
LEMMA PhaseStep == IInv /\ (Revise \/ Diff \/ RootsDone \/ Broad) => Walks'
<1> SUFFICES ASSUME IInv, Revise \/ Diff \/ RootsDone \/ Broad PROVE Walks'
  OBVIOUS
<1> USE DEF IInv
<1>1. CASE Revise \/ Diff
  <2>1. /\ reasons = {} /\ mandatory = {} /\ queue = {} /\ visited = {}
        /\ UNCHANGED <<reasons, mandatory, queue, visited, source>>
        /\ \/ phase' = "patch"
           \/ phase' = "roots" /\ todo' = Roots(parent, candidate)'
    <3>1. CASE Revise
      <4>1. phase = "patch" /\ UNCHANGED <<phase, reasons, mandatory, queue, visited, source>>
        BY <3>1 DEF Revise, walk
      <4> QED
        BY <4>1 DEF WalksAreOver
    <3>2. CASE Diff
      <4>1. /\ phase = "patch" /\ phase' = "roots" /\ todo' = Roots(parent, candidate)
            /\ UNCHANGED <<parent, candidate, reasons, mandatory, queue, visited, source>>
        BY <3>2 DEF Diff
      <4>2. Roots(parent, candidate)' = Roots(parent, candidate)
        BY <4>1 DEF Roots, InputArtifactChanged, ContractChanged, NodeChanged, EdgeChanged,
                    WorkflowChanged, SchemaChanged, ProfileChanged, ChangedContracts,
                    MappedConsumers, InputConsumers
      <4> QED
        BY <4>1, <4>2 DEF WalksAreOver
    <3> QED
      BY <1>1, <3>1, <3>2
  <2>2. Reached' = {}
    BY <2>1 DEF Reached
  <2> QED
    BY <2>1, <2>2 DEF Walks, WalksAreOver, ReachedIsClosed, RootsAreReached, ReachedIsConcerned,
                      ObservedAreMandatory, BroadIsAdded
<1>2. CASE RootsDone
  <2>1. Reached' = Reached
    BY <1>2 DEF RootsDone, Reached
  <2> QED
    BY <1>2, <2>1 DEF RootsDone, Walks, WalksAreOver, ReachedIsClosed, RootsAreReached,
                      ReachedIsConcerned, Concerned, ObservedAreMandatory, BroadIsAdded
<1>3. CASE Broad
  <2>1. /\ phase = "observed" /\ phase' = "planned" /\ queue = {} /\ todo = {}
        /\ UNCHANGED <<parent, candidate, observed, broad, queue, visited, source>>
    BY <1>3 DEF Broad, walk
  <2>2. /\ reasons \subseteq reasons'
        /\ \A r \in reasons' \ reasons : r.code = "BROAD_REGRESSION"
        /\ \A n \in candidate.nodes :
             (\E r \in reasons' : r.node = n)
               <=> Rerun(n) \/ n \in broad \/ ~(broad \subseteq candidate.nodes)
    <3> DEFINE Own == {ReasonFor(n, "BROAD_REGRESSION", n) : n \in broad \cap candidate.nodes}
               Forced == UNION {ForcedBy(n, "BROAD_REGRESSION") : n \in broad \ candidate.nodes}
    <3>1. reasons' = reasons \cup Own \cup Forced
      BY <1>3 DEF Broad
    <3>2. \A r \in Own \cup Forced : r.code = "BROAD_REGRESSION"
      BY DEF ForcedBy, ReasonFor
    <3>3. \A n : (\E r \in Own : r.node = n) <=> n \in broad \cap candidate.nodes
      <4>1. \A n : ReasonFor(n, "BROAD_REGRESSION", n).node = n
        BY DEF ReasonFor
      <4>2. \A n \in broad \cap candidate.nodes : ReasonFor(n, "BROAD_REGRESSION", n) \in Own
        OBVIOUS
      <4>3. \A r \in Own : r.node \in broad \cap candidate.nodes
        BY <4>1
      <4> HIDE DEF Own
      <4> QED
        BY <4>1, <4>2, <4>3
    <3>4. ASSUME NEW n \in candidate.nodes, ~(broad \subseteq candidate.nodes)
          PROVE  \E r \in Forced : r.node = n
      <4>1. PICK b \in broad \ candidate.nodes : TRUE
        BY <3>4
      <4>2. ReasonFor(n, "BROAD_REGRESSION", b) \in Forced
        BY <4>1 DEF ForcedBy
      <4> QED
        BY <4>2 DEF ReasonFor
    <3>5. broad \subseteq candidate.nodes => Forced = {}
      OBVIOUS
    <3> HIDE DEF Own, Forced
    <3> QED
      BY <3>1, <3>2, <3>3, <3>4, <3>5 DEF Rerun
  <2>3. Reached' = Reached
    BY <2>2 DEF Reached
  <2>4. \A n : Rerun(n) <=> n \in Reached
    <3>1. \A r \in reasons : r.code # "BROAD_REGRESSION"
      BY <2>1 DEF BroadIsAdded
    <3> QED
      BY <3>1 DEF Rerun, Reached
  <2>5. WalksAreOver' /\ ReachedIsClosed' /\ RootsAreReached' /\ ReachedIsConcerned'
    BY <2>1, <2>3 DEF WalksAreOver, ReachedIsClosed, RootsAreReached, ReachedIsConcerned, Concerned
  <2>6. BroadIsAdded'
    BY <2>1, <2>2, <2>3, <2>4 DEF BroadIsAdded, Rerun
  <2>7. ASSUME NEW n \in candidate.nodes, Ancestry(candidate, n) \cap observed # {}
        PROVE  n \in mandatory
    <3>1. n \in NodeIds /\ Ancestry(candidate, n) \subseteq candidate.nodes
      BY AncestryIsThere DEF TypeOK, Revision
    <3>2. observed \cap candidate.nodes \subseteq mandatory
      BY <2>1 DEF ObservedAreMandatory
    <3>3. \A e \in candidate.edges : e[1] \in mandatory => e[2] \in mandatory
      BY <2>1 DEF ObservedAreMandatory
    <3> QED
      BY <2>7, <3>1, <3>2, <3>3, NothingReachedUpstream
  <2>8. ObservedAreMandatory'
    <3>1. mandatory \subseteq mandatory' /\ broad \cap candidate.nodes \subseteq mandatory'
      BY <1>3 DEF Broad, TypeOK
    <3> QED
      BY <2>1, <2>3, <2>7, <3>1 DEF ObservedAreMandatory
  <2> QED
    BY <2>5, <2>6, <2>8 DEF Walks
<1> QED
  BY <1>1, <1>2, <1>3

LEMMA NextIInv == IInv /\ [Next]_vars => IInv'
<1> SUFFICES ASSUME IInv, [Next]_vars PROVE IInv'
  OBVIOUS
<1>1. TypeOK'
  BY TypeStep DEF IInv
<1>2. Walks'
  <2>1. CASE UNCHANGED vars
    BY <2>1 DEF vars, walk, IInv, Walks, WalksAreOver, ReachedIsClosed, RootsAreReached,
                ReachedIsConcerned, ObservedAreMandatory, BroadIsAdded, Reached, Concerned, Rerun
  <2> QED
    BY <2>1, TakeRootStep, VisitStep, TakeObservedStep, PhaseStep DEF Next
<1> QED
  BY <1>1, <1>2 DEF IInv, Walks

LEMMA Invariance == Spec => []IInv
BY InitIInv, NextIInv, PTL DEF Spec

-----------------------------------------------------------------------------
\* The state has its type, for any parent and patch.
THEOREM TypeCorrect == Spec => []TypeOK
<1>1. IInv => TypeOK
  BY DEF IInv
<1> QED
  BY <1>1, Invariance, PTL

\* computeImpact runs again exactly what is downstream of a change or of an undeclared
\* read, and the regression nodes.
THEOREM ClosureIsExact == Spec => []InvalidationIsTheClosure
<1>1. ASSUME IInv PROVE InvalidationIsTheClosure
  <2> SUFFICES ASSUME phase = "planned", NEW n \in candidate.nodes
               PROVE  Rerun(n) <=> \/ ~(observed \cup broad \subseteq candidate.nodes)
                                   \/ n \in broad
                                   \/ Ancestry(candidate, n) \cap Concerned # {}
    BY DEF InvalidationIsTheClosure, Concerned
  <2> USE <1>1 DEF IInv
  <2>1. n \in NodeIds /\ Ancestry(candidate, n) \subseteq candidate.nodes
    BY AncestryIsThere DEF TypeOK, Revision
  <2>2. n \in Reached \/ Ancestry(candidate, n) \cap Reached = {}
    BY <2>1, NothingReachedUpstream DEF ReachedIsClosed, WalksAreOver
  <2>3. Concerned \cap candidate.nodes \subseteq Reached
    BY DEF Concerned, RootsAreReached, ObservedAreMandatory
  <2>4. Ancestry(candidate, n) \cap Concerned # {} => n \in Reached
    BY <2>1, <2>2, <2>3
  <2>5. ~(observed \subseteq candidate.nodes) => n \in Reached
    BY DEF ObservedAreMandatory
  <2>6. n \in Reached => \/ ~(observed \subseteq candidate.nodes)
                         \/ Ancestry(candidate, n) \cap Concerned # {}
    BY DEF ReachedIsConcerned
  <2> QED
    BY <2>4, <2>5, <2>6 DEF BroadIsAdded
<1> QED
  BY <1>1, Invariance, PTL

\* buildCachePlan reuses only what nothing upstream of, in any field of the revisions,
\* has changed, whatever fingerprints it is given.
THEOREM SoundReuse == Spec => []ReuseIsSound
<1>1. ASSUME IInv PROVE ReuseIsSound
  <2> SUFFICES ASSUME phase = "planned", NEW n \in candidate.nodes, NEW e \in Evidence
               PROVE
      /\ ReusesParent(n, e) =>
           /\ Ancestry(parent, n) = Ancestry(candidate, n)
           /\ \A m \in Ancestry(candidate, n) : Influences(parent, m) = Influences(candidate, m)
           /\ \A c \in Contracts : parent.contracts[c] # candidate.contracts[c] =>
                (parent.consumers[c] \cup candidate.consumers[c]) \cap candidate.nodes # {}
      /\ ReusesParent(n, e) \/ ReusesCache(n, e) =>
           n \notin broad /\ Ancestry(candidate, n) \cap observed = {}
    BY DEF ReuseIsSound
  <2> USE <1>1 DEF IInv
  <2>1. ASSUME ReusesParent(n, e)
        PROVE  Ancestry(candidate, n) \cap Roots(parent, candidate) = {}
    <3>1. ~Rerun(n)
      BY <2>1 DEF ReusesParent
    <3>2. n \notin Reached
      BY <3>1 DEF BroadIsAdded
    <3>3. n \in NodeIds
      BY DEF TypeOK, Revision
    <3> QED
      BY <3>2, <3>3, NothingReachedUpstream DEF ReachedIsClosed, WalksAreOver, RootsAreReached
  <2>2. ASSUME ReusesParent(n, e)
        PROVE  /\ Ancestry(parent, n) = Ancestry(candidate, n)
               /\ \A m \in Ancestry(candidate, n) :
                    Influences(parent, m) = Influences(candidate, m)
    BY <2>1, <2>2, SameAncestry DEF TypeOK
  <2>3. ASSUME ReusesParent(n, e), NEW c \in Contracts,
               parent.contracts[c] # candidate.contracts[c]
        PROVE  (parent.consumers[c] \cup candidate.consumers[c]) \cap candidate.nodes # {}
    <3> SUFFICES ASSUME MappedConsumers(parent, candidate, c) = {} PROVE FALSE
      BY DEF MappedConsumers
    <3>1. c \in ChangedContracts(parent, candidate)
      BY <2>3 DEF ChangedContracts
    <3>2. n \in Roots(parent, candidate)
      BY <3>1 DEF ContractChanged, Roots
    <3>3. n \in Ancestry(candidate, n)
      BY AncestryIsClosed DEF TypeOK, Revision
    <3> QED
      BY <2>1, <2>3, <3>2, <3>3
  <2>4. ASSUME ReusesParent(n, e) \/ ReusesCache(n, e)
        PROVE  n \notin broad /\ Ancestry(candidate, n) \cap observed = {}
    <3>1. n \notin mandatory
      BY <2>4 DEF ReusesParent, ReusesCache
    <3> QED
      BY <3>1 DEF ObservedAreMandatory
  <2> QED
    BY <2>2, <2>3, <2>4
<1> QED
  BY <1>1, Invariance, PTL

-----------------------------------------------------------------------------
\* The reports of spec-feedback-to-spec.

Made(r) ==
  \E from, base, made, c, target : r = Reports(from, base, made, c, target) /\ target \in {"S1", "S2"}

\* A report is about a candidate, of which the envelope may hold another by now.
ReportsAreMade ==
  /\ \A r \in AllReports : Made(r)
  /\ \A r \in repairs :
       r = [run |-> r.run, request |-> r.request, candidate |-> r.candidate, report |-> r.report, altered |-> r.altered]

RequestTargets == request.target \in {"S1", "S2"}

LEMMA ReportsInit == SpecInit => ReportsAreMade /\ RequestTargets
BY DEF SpecInit, ReportsAreMade, AllReports, ToSet, RequestTargets, NoRequest

LEMMA KnownReports ==
  ASSUME ReportsAreMade, RequestTargets, UNCHANGED <<request, repairs>>, report' = report \/ report' = <<>>
  PROVE  ReportsAreMade' /\ RequestTargets'
<1>1. AllReports' \subseteq AllReports
  BY DEF AllReports, ToSet
<1> QED BY <1>1 DEF ReportsAreMade, RequestTargets, Made

\* A repair whose envelope is rewritten is as it was otherwise.
LEMMA RewrittenRepairs ==
  ASSUME NEW r, NEW e, NEW q,
         r = [run |-> r.run, request |-> r.request, candidate |-> r.candidate, report |-> r.report, altered |-> r.altered],
         q = [r EXCEPT !.candidate = e, !.altered = @ \cup {"envelope"}]
  PROVE  /\ q = [run |-> q.run, request |-> q.request, candidate |-> q.candidate, report |-> q.report, altered |-> q.altered]
         /\ q.request = r.request /\ q.report = r.report /\ q.candidate = e
         /\ q.altered = r.altered \cup {"envelope"}
<1>1. PICK n, asked, made, told, changed :
        r = [run |-> n, request |-> asked, candidate |-> made, report |-> told, altered |-> changed]
  OBVIOUS
<1>2. q = [run |-> n, request |-> asked, candidate |-> e, report |-> told, altered |-> changed \cup {"envelope"}]
  <2>1. PICK f : f = [r EXCEPT !.candidate = e]
    OBVIOUS
  <2>2. f = [run |-> n, request |-> asked, candidate |-> e, report |-> told, altered |-> changed]
    BY <1>1, <2>1
  <2>3. q = [f EXCEPT !.altered = @ \cup {"envelope"}]
    BY <2>1
  <2> QED BY <2>2, <2>3
<1> QED BY <1>1, <1>2

LEMMA ReportsStep == ReportsAreMade /\ RequestTargets /\ [SpecNext]_specVars => ReportsAreMade' /\ RequestTargets'
<1> SUFFICES ASSUME ReportsAreMade, RequestTargets, [SpecNext]_specVars
             PROVE  ReportsAreMade' /\ RequestTargets'
  OBVIOUS
<1>1. ASSUME NEW from, NEW origin, NEW feedback, NEW target \in {"S1", "S2"}, NEW onLastRun,
             PrepareRequest(from, origin, feedback, target, onLastRun)
      PROVE  ReportsAreMade' /\ RequestTargets'
  <2>1. report' = <<>> /\ repairs' = repairs /\ request'.target = target
    BY <1>1 DEF PrepareRequest
  <2>2. AllReports' \subseteq AllReports
    BY <2>1 DEF AllReports, ToSet
  <2> QED BY <2>1, <2>2 DEF ReportsAreMade, RequestTargets, Made
<1>2. CASE CompileFeedback
  BY <1>2, KnownReports DEF CompileFeedback, Fail
<1>3. ASSUME NEW operations, ProposePatch(operations) PROVE ReportsAreMade' /\ RequestTargets'
  BY <1>3, KnownReports DEF ProposePatch
<1>4. CASE MaterializeRevision
  BY <1>4, KnownReports DEF MaterializeRevision, Fail
<1>5. CASE VerifyRevision
  <2>1. CASE report' = report
    BY <1>5, <2>1, KnownReports DEF VerifyRevision, Fail
  <2>2. CASE report' # report
    <3>1. PICK r : r = Reports(pinned.source, pinned.source, envelope[1], contract[1], request.target)
      OBVIOUS
    <3>2. report' = <<r>> /\ UNCHANGED <<request, repairs>>
      BY <1>5, <2>2, <3>1 DEF VerifyRevision, Fail
    <3>3. AllReports' \subseteq AllReports \cup {r}
      BY <3>2 DEF AllReports, ToSet
    <3>4. Made(r)
      BY <3>1 DEF Made, RequestTargets
    <3> QED BY <3>2, <3>3, <3>4 DEF ReportsAreMade, RequestTargets, Made
  <2> QED BY <2>1, <2>2
<1>6. CASE ApproveRevision
  BY <1>6, KnownReports DEF ApproveRevision
<1>7. CASE FinalizeRepair
  <2>1. PICK n, made, c, changed, r, q :
          /\ r = Reports(child[1], pinned.source, made, c, "S1")
          /\ q = [run |-> n, request |-> request, candidate |-> made, report |-> r, altered |-> changed]
          /\ repairs' = repairs \cup {q}
    BY <1>7 DEF FinalizeRepair
  <2>2. UNCHANGED <<request, report>>
    BY <1>7 DEF FinalizeRepair, runVars
  <2>3. /\ q.report = r
        /\ q = [run |-> q.run, request |-> q.request, candidate |-> q.candidate, report |-> q.report, altered |-> q.altered]
    BY <2>1
  <2>4. AllReports' \subseteq AllReports \cup {r}
    BY <2>1, <2>2, <2>3 DEF AllReports
  <2>5. Made(r)
    BY <2>1 DEF Made
  <2> QED BY <2>1, <2>2, <2>3, <2>4, <2>5 DEF ReportsAreMade, RequestTargets, Made
<1>8. ASSUME NEW r, ApproveRepair(r) PROVE ReportsAreMade' /\ RequestTargets'
  BY <1>8, KnownReports DEF ApproveRepair, runVars
<1>9. CASE Rewrite
  <2>1. UNCHANGED <<request, report>>
    BY <1>9 DEF Rewrite
  <2>2. CASE repairs' = repairs
    BY <2>1, <2>2, KnownReports
  <2>3. CASE repairs' # repairs
    <3>1. PICK doc : RewriteRepair(doc)
      BY <1>9, <2>3 DEF Rewrite, RewriteSource, RewriteChild, RewriteEnvelope
    <3>2. PICK r, e, q :
            /\ r \in repairs
            /\ q = [r EXCEPT !.candidate = e, !.altered = @ \cup {"envelope"}]
            /\ repairs' = (repairs \ {r}) \cup {q}
      <4>1. PICK r \in repairs : \E e \in Altered(r.candidate, doc) :
              repairs' = (repairs \ {r}) \cup {[r EXCEPT !.candidate = e, !.altered = @ \cup {"envelope"}]}
        BY <3>1 DEF RewriteRepair
      <4> QED BY <4>1
    <3>3. /\ q.report = r.report
          /\ q = [run |-> q.run, request |-> q.request, candidate |-> q.candidate, report |-> q.report, altered |-> q.altered]
      <4>1. r = [run |-> r.run, request |-> r.request, candidate |-> r.candidate, report |-> r.report,
                 altered |-> r.altered]
        BY <3>2 DEF ReportsAreMade
      <4> QED BY ONLY <3>2, <4>1, RewrittenRepairs
    <3>4. AllReports' \subseteq AllReports
      BY <2>1, <3>2, <3>3 DEF AllReports
    <3> QED BY <2>1, <3>2, <3>3, <3>4 DEF ReportsAreMade, RequestTargets, Made
  <2> QED BY <2>2, <2>3
<1>10. CASE UNCHANGED specVars
  BY <1>10, KnownReports DEF specVars, runVars
<1> QED BY <1>1, <1>2, <1>3, <1>4, <1>5, <1>6, <1>7, <1>8, <1>9, <1>10 DEF SpecNext

LEMMA ReportsHold == RevisionSpec => [](ReportsAreMade /\ RequestTargets)
BY ReportsInit, ReportsStep, PTL DEF RevisionSpec

-----------------------------------------------------------------------------
\* Every finding has an owner, and each owner reads one contract or both.
LEMMA BlockersAreRouted ==
  ASSUME NEW blockers
  PROVE  RoutedTo(blockers, {"data", "authority", "product-decision"})
           \cup RoutedTo(blockers, {"api", "authority", "environment", "product-decision"}) = blockers
<1> DEFINE all == {"data", "api", "authority", "environment", "product-decision"}
<1>1. ASSUME NEW b \in blockers PROVE \E owner \in all : owner \in BlockerOwners(b)
  <2>1. Mentions(b) \subseteq OwnersOfWords
    BY DEF Mentions, OwnersOfWords
  <2>2. CASE Mentions(b) = {}
    BY <2>2 DEF BlockerOwners
  <2>3. CASE Mentions(b) # {}
    BY <2>1, <2>3 DEF BlockerOwners, OwnersOfWords
  <2> QED BY <2>2, <2>3
<1>2. RoutedTo(blockers, {"data", "authority", "product-decision"})
        \cup RoutedTo(blockers, {"api", "authority", "environment", "product-decision"})
      = {b \in blockers : \E owner \in all : owner \in BlockerOwners(b)}
  BY DEF RoutedTo, ByOwner
<1> QED BY <1>1, <1>2

\* verify-revision loses no blocker: each that a report has for the stage is in the
\* contract of somebody who can remove it, and the preview contracts are ready exactly
\* when the stage passed, for any document, target and rewriting of files.
THEOREM BlockersReachSomebody == RevisionSpec => []NoBlockerIsLost
<1>1. ASSUME ReportsAreMade, NEW r \in AllReports
      PROVE  /\ StageBlockers("S2", r.gaps) = r.preview.data.blockers \cup r.preview.api.blockers
             /\ r.preview.status = "ready" <=> r.stages["S2"] = "passed"
  <2>1. PICK from, base, made, c, target :
          /\ r = Reports(from, base, made, c, target)
          /\ target \in {"S1", "S2"}
    BY <1>1 DEF ReportsAreMade, Made
  <2>2. PICK gaps, blockers : /\ gaps = SemanticFindings(made.document)
                              /\ blockers = StageBlockers("S2", gaps)
    OBVIOUS
  <2>3. /\ r.gaps = gaps
        /\ r.preview = CompilePreviewContracts(made.document, made.digest, blockers)
        /\ r.stages = [stage \in MaturityStages |-> StageVerdict(stage, gaps, target)]
    BY <2>1, <2>2 DEF Reports
  <2>4. r.stages["S2"] = StageVerdict("S2", gaps, target)
    BY <2>3 DEF MaturityStages
  <2>5. /\ r.preview.data.blockers = RoutedTo(blockers, {"data", "authority", "product-decision"})
        /\ r.preview.api.blockers = RoutedTo(blockers, {"api", "authority", "environment", "product-decision"})
        /\ r.preview.status = IF blockers = {} THEN "ready" ELSE "blocked"
    BY <2>3 DEF CompilePreviewContracts
  <2>6. r.stages["S2"] = IF blockers = {} THEN "passed" ELSE "blocked"
    BY <2>1, <2>2, <2>4 DEF StageVerdict
  <2> QED BY <2>2, <2>3, <2>5, <2>6, BlockersAreRouted
<1>2. ReportsAreMade => NoBlockerIsLost
  BY <1>1 DEF NoBlockerIsLost
<1> QED BY <1>2, ReportsHold, PTL

-----------------------------------------------------------------------------
\* The findings of the acceptance keep a document from its demo, and there is
\* always one: if nothing else, that no browser has shown it yet.

AcceptanceCodes ==
  {"ACCEPTANCE_BROWSER_EVIDENCE_MISSING", "ACCEPTANCE_BROWSER_EVIDENCE_INVALID",
   "ACCEPTANCE_ACTION_VISIBILITY_CONTRADICTED"}

LEMMA ScenarioFindingsBlock ==
  ASSUME NEW doc, NEW f \in ScenarioFindings(doc)
  PROVE  f.blocker = "DEMO" /\ f.code \in AcceptanceCodes
<1>1. \E code, pointer : code \in AcceptanceCodes /\ f = BaseFinding(code, "DEMO", pointer)
  <2>1. CASE f \in {BaseFinding("ACCEPTANCE_ACTION_VISIBILITY_CONTRADICTED", "DEMO", <<"acceptance">> \o sign) :
                      sign \in Contradicted(doc)}
    BY <2>1 DEF AcceptanceCodes
  <2>2. CASE \E i \in DOMAIN Scenarios(doc) :
               LET s == Scenarios(doc)[i]
               IN f \in When(s.checks = <<>>, BaseFinding("ACCEPTANCE_BROWSER_EVIDENCE_MISSING", "DEMO",
                                                         <<"acceptance", Digits[i]>>))
    BY <2>2 DEF When, AcceptanceCodes
  <2>3. CASE \E i \in DOMAIN Scenarios(doc) :
               LET s == Scenarios(doc)[i]
               IN f \in {BaseFinding("ACCEPTANCE_BROWSER_EVIDENCE_INVALID", "DEMO",
                                     Append(<<"acceptance", Digits[i]>>, Digits[j])) :
                           j \in {k \in DOMAIN s.checks : ~ValidCheck(doc, s.checks[k])}}
    BY <2>3 DEF AcceptanceCodes
  <2> QED BY <2>1, <2>2, <2>3 DEF ScenarioFindings, ForEach
<1> QED BY <1>1 DEF BaseFinding

LEMMA AcceptanceIsInTheGaps ==
  ASSUME NEW doc
  PROVE  ValidateExecutableAcceptance(doc) \subseteq SemanticFindings(doc)
BY DEF SemanticFindings

LEMMA NoDocumentIsMature ==
  ASSUME NEW doc
  PROVE  \E f \in SemanticFindings(doc) : f.blocker = "DEMO"
<1>1. CASE Scenarios(doc) = <<>>
  <2>1. BaseFinding("ACCEPTANCE_SCENARIOS_MISSING", "DEMO", <<"acceptance">>) \in ValidateExecutableAcceptance(doc)
    BY <1>1 DEF ValidateExecutableAcceptance
  <2>2. BaseFinding("ACCEPTANCE_SCENARIOS_MISSING", "DEMO", <<"acceptance">>).blocker = "DEMO"
    BY DEF BaseFinding
  <2> QED BY <2>1, <2>2, AcceptanceIsInTheGaps
<1>2. CASE Scenarios(doc) # <<>> /\ ScenarioFindings(doc) = {}
  <2>1. BaseFinding("DEMO_EVIDENCE_PENDING", "DEMO", <<"acceptance">>) \in ValidateExecutableAcceptance(doc)
    BY <1>2 DEF ValidateExecutableAcceptance, When
  <2>2. BaseFinding("DEMO_EVIDENCE_PENDING", "DEMO", <<"acceptance">>).blocker = "DEMO"
    BY DEF BaseFinding
  <2> QED BY <2>1, <2>2, AcceptanceIsInTheGaps
<1>3. CASE Scenarios(doc) # <<>> /\ ScenarioFindings(doc) # {}
  <2>1. PICK f : f \in ScenarioFindings(doc)
    BY <1>3
  <2>2. f \in ValidateExecutableAcceptance(doc)
    BY <1>3, <2>1 DEF ValidateExecutableAcceptance
  <2> QED BY <2>1, <2>2, AcceptanceIsInTheGaps, ScenarioFindingsBlock
<1> QED BY <1>1, <1>2, <1>3

\* What a document without a blocker has: valid checks that ask for nothing
\* opposite, on screens it shows.
LEMMA CleanAcceptance ==
  ASSUME NEW doc, RevisionFindings(SemanticFindings(doc)) = {}
  PROVE  /\ Contradicted(doc) = {}
         /\ \A c \in Checks(doc) : ValidCheck(doc, c)
<1>1. \A f \in SemanticFindings(doc) : f.blocker = "DEMO" => f.code = "DEMO_EVIDENCE_PENDING"
  BY DEF RevisionFindings
<1>2. Scenarios(doc) # <<>>
  <2> SUFFICES ASSUME Scenarios(doc) = <<>> PROVE FALSE
    OBVIOUS
  <2>1. PICK f : f = BaseFinding("ACCEPTANCE_SCENARIOS_MISSING", "DEMO", <<"acceptance">>)
    OBVIOUS
  <2>2. f \in ValidateExecutableAcceptance(doc)
    BY <2>1 DEF ValidateExecutableAcceptance
  <2>3. f.blocker = "DEMO" /\ f.code = "ACCEPTANCE_SCENARIOS_MISSING"
    BY <2>1 DEF BaseFinding
  <2> QED BY <1>1, <2>2, <2>3, AcceptanceIsInTheGaps
<1>3. ScenarioFindings(doc) = {}
  <2> SUFFICES ASSUME NEW f \in ScenarioFindings(doc) PROVE FALSE
    OBVIOUS
  <2>1. f \in SemanticFindings(doc)
    BY <1>2, AcceptanceIsInTheGaps DEF ValidateExecutableAcceptance
  <2> QED BY <1>1, <2>1, ScenarioFindingsBlock DEF AcceptanceCodes
<1>4. Contradicted(doc) = {}
  BY <1>3 DEF ScenarioFindings
<1>5. ASSUME NEW c \in Checks(doc), ~ValidCheck(doc, c) PROVE FALSE
  <2>1. PICK scenarios : scenarios = Scenarios(doc)
    OBVIOUS
  <2>2. PICK i, j : i \in DOMAIN scenarios /\ j \in DOMAIN scenarios[i].checks /\ c = scenarios[i].checks[j]
    BY <2>1 DEF Checks, ToSet
  <2>3. PICK f : f = BaseFinding("ACCEPTANCE_BROWSER_EVIDENCE_INVALID", "DEMO",
                                 Append(<<"acceptance", Digits[i]>>, Digits[j]))
    OBVIOUS
  <2>4. f \in ScenarioFindings(doc)
    BY <1>5, <2>1, <2>2, <2>3 DEF ScenarioFindings, ForEach
  <2> QED BY <1>3, <2>4
<1> QED BY <1>4, <1>5

LEMMA CleanProjection ==
  ASSUME NEW doc, RevisionFindings(SemanticFindings(doc)) = {}
  PROVE  LET deprecated == Field(doc, "scope", "deprecatedCompatibilityScreens", {})
             entry == Field(doc, "scope", "entryScreenId", "")
         IN /\ \A c \in Checks(doc) : c.screen \notin deprecated
            /\ Field(doc, "scope", "selectedScreensForS1Evidence", {}) # {} =>
                 entry \in Ids(Records(doc, "screens")) \ deprecated
<1>1. \A f \in ValidateDemoProjection(doc) : f.blocker = "DEMO" => f.code = "DEMO_EVIDENCE_PENDING"
  BY DEF RevisionFindings, SemanticFindings
<1> DEFINE deprecated == Field(doc, "scope", "deprecatedCompatibilityScreens", {})
           selected == Field(doc, "scope", "selectedScreensForS1Evidence", {})
           entry == Field(doc, "scope", "entryScreenId", "")
<1>2. ASSUME NEW c \in Checks(doc), c.screen \in deprecated PROVE FALSE
  <2>1. PICK f : f = BaseFinding("ACCEPTANCE_USES_DEPRECATED_SCREEN", "DEMO", <<"acceptance", c.id>>)
    OBVIOUS
  <2>2. f \in ValidateDemoProjection(doc)
    BY <1>2, <2>1 DEF ValidateDemoProjection
  <2>3. f.blocker = "DEMO" /\ f.code = "ACCEPTANCE_USES_DEPRECATED_SCREEN"
    BY <2>1 DEF BaseFinding
  <2> QED BY <1>1, <2>2, <2>3
<1>3. ASSUME selected # {}, entry = "" PROVE FALSE
  <2>1. PICK f : f = BaseFinding("DEMO_ENTRY_SCREEN_MISSING", "DEMO", <<"scope">>)
    OBVIOUS
  <2>2. f \in ValidateDemoProjection(doc)
    BY <1>3, <2>1 DEF ValidateDemoProjection, When
  <2>3. f.blocker = "DEMO" /\ f.code = "DEMO_ENTRY_SCREEN_MISSING"
    BY <2>1 DEF BaseFinding
  <2> QED BY <1>1, <2>2, <2>3
<1>4. ASSUME entry # "", entry \notin Ids(Records(doc, "screens")) \ deprecated PROVE FALSE
  <2>1. PICK f : f = BaseFinding("DEMO_ENTRY_SCREEN_INVALID", "DEMO", <<"scope">>)
    OBVIOUS
  <2>2. f \in ValidateDemoProjection(doc)
    BY <1>4, <2>1 DEF ValidateDemoProjection, When
  <2>3. f.blocker = "DEMO" /\ f.code = "DEMO_ENTRY_SCREEN_INVALID"
    BY <2>1 DEF BaseFinding
  <2> QED BY <1>1, <2>2, <2>3
<1> QED BY <1>2, <1>3, <1>4

LEMMA ValidChecksAreOnScreens ==
  ASSUME NEW doc, NEW c, ValidCheck(doc, c)
  PROVE  c.screen \in Ids(Records(doc, "screens"))
<1>1. ScreenById(doc, c.screen) # <<>>
  BY DEF ValidCheck
<1>2. PICK screens : screens = Records(doc, "screens")
  OBVIOUS
<1>3. PICK i : i \in DOMAIN screens /\ c.screen # "" /\ screens[i].id = c.screen
  BY <1>1, <1>2 DEF ScreenById
<1> QED BY <1>2, <1>3 DEF Ids, ToSet

\* Showing each actor what some check needs of it hides all that a check wants hidden.
LEMMA CleanDocumentsCanBeShown ==
  ASSUME NEW doc, RevisionFindings(SemanticFindings(doc)) = {}
  PROVE  CanBeShown(doc)
<1> DEFINE named == {c \in Checks(doc) : "" \notin {c.screen, c.actor, c.action}}
           shown == {Signature(c) : c \in {d \in named : Needs(d)}}
<1>1. shown \in SUBSET {Signature(c) : c \in named}
  OBVIOUS
<1>2. ASSUME NEW c \in named, Hides(c) PROVE Signature(c) \notin shown
  <2> SUFFICES ASSUME NEW e \in named, Needs(e), Signature(e) = Signature(c) PROVE FALSE
    OBVIOUS
  <2>1. Signature(c) \in Contradicted(doc)
    BY <1>2 DEF Contradicted
  <2> QED BY <2>1, CleanAcceptance
<1>3. ASSUME NEW c \in named, Needs(c) PROVE Signature(c) \in shown
  BY <1>3
<1> HIDE DEF shown
<1>4. \E made \in SUBSET {Signature(c) : c \in named} :
        \A c \in named : (Hides(c) => Signature(c) \notin made) /\ (Needs(c) => Signature(c) \in made)
  BY <1>1, <1>2, <1>3
<1>5. \A c \in Checks(doc) : c.screen \in Ids(Records(doc, "screens"))
  BY CleanAcceptance, ValidChecksAreOnScreens
<1> QED BY <1>4, <1>5, CleanProjection DEF CanBeShown

\* A document in which validateSpecSemantics finds nothing against a demo can be shown to
\* its actors as its checks want, and it never calls a document mature by itself: for
\* any document, whatever its sections hold.
THEOREM CleanSpecsShow == RevisionSpec => []CleanSpecsCanBeShown
<1>1. ASSUME ReportsAreMade, NEW r \in AllReports
      PROVE  /\ r.stages["S1"] = "blocked"
             /\ RevisionFindings(r.gaps) = {} => CanBeShown(r.candidate.document)
  <2>1. PICK from, base, made, c, target :
          /\ r = Reports(from, base, made, c, target)
          /\ target \in {"S1", "S2"}
    BY <1>1 DEF ReportsAreMade, Made
  <2> PICK doc : doc = made.document
    OBVIOUS
  <2> PICK gaps : gaps = SemanticFindings(doc)
    OBVIOUS
  <2>2. /\ r.candidate = made /\ r.gaps = gaps
        /\ r.stages = [stage \in MaturityStages |-> StageVerdict(stage, gaps, target)]
    BY <2>1 DEF Reports
  <2>3. r.stages["S1"] = "blocked"
    <3>1. r.stages["S1"] = StageVerdict("S1", gaps, target)
      BY <2>2 DEF MaturityStages
    <3>2. PICK f \in gaps : f.blocker = "DEMO"
      BY NoDocumentIsMature
    <3>3. f \in StageBlockers("S1", gaps)
      BY <3>2 DEF StageBlockers, MaturityStagesFor
    <3> QED BY <3>1, <3>3 DEF StageVerdict
  <2>4. RevisionFindings(gaps) = {} => CanBeShown(doc)
    BY CleanDocumentsCanBeShown
  <2>5. r.candidate.document = doc /\ r.gaps = gaps
    BY <2>2
  <2> QED BY <2>3, <2>4, <2>5
<1>2. ASSUME ReportsAreMade PROVE CleanSpecsCanBeShown
  <2>1. \A r \in AllReports : /\ r.stages["S1"] = "blocked"
                              /\ RevisionFindings(r.gaps) = {} => CanBeShown(r.candidate.document)
    BY <1>1, <1>2
  <2> QED BY ONLY <2>1, Zenon DEF CleanSpecsCanBeShown, CanBeShown
<1> QED BY <1>2, ReportsHold, PTL

-----------------------------------------------------------------------------
\* Induction, and folds followed one step at a time.

LEMMA LeastNumber ==
  ASSUME NEW S \in SUBSET Nat, S # {}
  PROVE  \E n \in S : \A m \in S : n <= m
<1>1. PICK R : R = OpToRel(<, Nat)
  OBVIOUS
<1>2. IsWellFoundedOn(R, Nat)
  BY <1>1, NatLessThanWellFounded
<1>3. PICK n \in S : \A m \in S : <<m, n>> \notin R
  BY <1>2, WFMin
<1>4. \A m \in Nat : m < n => <<m, n>> \in R
  BY <1>1 DEF OpToRel
<1>5. ASSUME NEW m \in S PROVE n <= m
  <2>1. ~(m < n) /\ m \in Nat /\ n \in Nat
    BY <1>3, <1>4
  <2> QED BY ONLY <2>1
<1> QED BY <1>5

LEMMA SetInduction ==
  ASSUME NEW S, 0 \in S, \A n \in Nat : n \in S => n + 1 \in S
  PROVE  Nat \subseteq S
<1> SUFFICES ASSUME Nat \ S # {} PROVE FALSE
  OBVIOUS
<1>1. PICK n \in Nat \ S : \A m \in Nat \ S : n <= m
  BY LeastNumber
<1>2. n # 0 /\ n - 1 \in Nat
  BY <1>1
<1>3. n - 1 \notin S
  BY <1>2
<1> QED BY <1>1, <1>2, <1>3

LEMMA GreatestIndex ==
  ASSUME NEW n \in Nat, NEW S \in SUBSET (1 .. n), S # {}
  PROVE  Max(S) \in S /\ \A i \in S : i <= Max(S)
<1> DEFINE bounds == {k \in Nat : \A i \in S : i <= k}
<1>1. n \in bounds
  OBVIOUS
<1>2. PICK k \in bounds : \A m \in bounds : k <= m
  BY <1>1, LeastNumber
<1>3. k \in S
  <2> SUFFICES ASSUME k \notin S PROVE FALSE
    OBVIOUS
  <2>1. PICK i \in S : i \in 1 .. n /\ i <= k
    BY <1>2
  <2>2. k - 1 \in Nat
    BY <1>2, <2>1
  <2>3. \A j \in S : j <= k - 1
    BY <1>2
  <2> QED BY <1>2, <2>2, <2>3
<1>4. \E x \in S : \A y \in S : x >= y
  BY <1>2, <1>3
<1>5. Max(S) \in S /\ \A y \in S : Max(S) >= y
  BY <1>4 DEF Max
<1> QED BY <1>5

LEMMA LastIndex ==
  ASSUME NEW n \in Nat, NEW S \in SUBSET (1 .. (n + 1)), n + 1 \in S
  PROVE  Max(S) = n + 1 /\ S \ {n + 1} \in SUBSET (1 .. n)
<1>1. PICK m : m = n + 1 /\ m \in Nat
  OBVIOUS
<1>2. Max(S) \in S /\ m <= Max(S)
  BY <1>1, GreatestIndex
<1>3. Max(S) \in 1 .. m
  BY <1>1, <1>2
<1>4. 1 .. (n + 1) = (1 .. n) \cup {n + 1}
  OBVIOUS
<1> QED BY <1>1, <1>2, <1>3, <1>4

-----------------------------------------------------------------------------
ApplyTo(d, op) == IF d = <<>> THEN <<>> ELSE ApplyOperation(d[1], op)

\* fold gives for every set of indexes up to n what these operations make of doc.
IsFold(fold, doc, s, n) ==
  fold = [S \in SUBSET (1 .. n) |-> IF S = {} THEN <<doc>> ELSE ApplyTo(fold[S \ {Max(S)}], s[Max(S)])]

LEMMA NothingFolds ==
  ASSUME NEW doc, NEW s
  PROVE  \E fold : IsFold(fold, doc, s, 0)
<1> DEFINE fold == [S \in {{}} |-> <<doc>>]
<1>1. SUBSET (1 .. 0) = {{}}
  OBVIOUS
<1>2. IsFold(fold, doc, s, 0)
  BY <1>1 DEF IsFold
<1> QED BY <1>2

LEMMA OneMoreFolds ==
  ASSUME NEW doc, NEW s, NEW n \in Nat, NEW fold, IsFold(fold, doc, s, n)
  PROVE  \E longer : IsFold(longer, doc, s, n + 1)
<1> DEFINE longer == [S \in SUBSET (1 .. (n + 1)) |->
                        IF n + 1 \in S THEN ApplyTo(fold[S \ {n + 1}], s[n + 1]) ELSE fold[S]]
<1>1. /\ \A S \in SUBSET (1 .. (n + 1)) : n + 1 \in S => longer[S] = ApplyTo(fold[S \ {n + 1}], s[n + 1])
      /\ \A S \in SUBSET (1 .. (n + 1)) : n + 1 \notin S => longer[S] = fold[S]
      /\ longer = [S \in SUBSET (1 .. (n + 1)) |-> longer[S]]
  OBVIOUS
<1>2. /\ fold[{}] = <<doc>>
      /\ \A S \in SUBSET (1 .. n) : S # {} => fold[S] = ApplyTo(fold[S \ {Max(S)}], s[Max(S)])
  BY DEF IsFold
<1> HIDE DEF longer
<1>3. ASSUME NEW S \in SUBSET (1 .. (n + 1))
      PROVE  longer[S] = IF S = {} THEN <<doc>> ELSE ApplyTo(longer[S \ {Max(S)}], s[Max(S)])
  <2>1. CASE n + 1 \in S
    <3>1. S # {} /\ Max(S) = n + 1
      BY <2>1, LastIndex
    <3>2. S \ {n + 1} \in SUBSET (1 .. (n + 1)) /\ n + 1 \notin S \ {n + 1}
      OBVIOUS
    <3>3. longer[S \ {n + 1}] = fold[S \ {n + 1}]
      BY <1>1, <3>2
    <3> QED BY <1>1, <2>1, <3>1, <3>3
  <2>2. CASE n + 1 \notin S /\ S # {}
    <3>0. 1 .. (n + 1) = (1 .. n) \cup {n + 1}
      OBVIOUS
    <3>1. S \in SUBSET (1 .. n)
      BY <2>2, <3>0
    <3>3. S \ {Max(S)} \in SUBSET (1 .. (n + 1)) /\ n + 1 \notin S \ {Max(S)}
      BY <2>2
    <3>4. longer[S \ {Max(S)}] = fold[S \ {Max(S)}] /\ longer[S] = fold[S]
      BY <1>1, <2>2, <3>3
    <3> QED BY <1>2, <2>2, <3>1, <3>4
  <2>3. CASE S = {}
    <3>1. n + 1 \notin S /\ longer[S] = fold[S]
      BY <1>1, <2>3
    <3> QED BY <1>2, <2>3, <3>1
  <2> QED BY <2>1, <2>2, <2>3
<1>4. longer = [S \in SUBSET (1 .. (n + 1)) |-> IF S = {} THEN <<doc>> ELSE ApplyTo(longer[S \ {Max(S)}], s[Max(S)])]
  BY <1>1, <1>3
<1>5. IsFold(longer, doc, s, n + 1)
  BY <1>4 DEF IsFold
<1> QED BY <1>5

\* What a document is after each of the operations.
LEMMA DocumentsInBetween ==
  ASSUME NEW doc, NEW X, NEW s \in Seq(X)
  PROVE  \E after : /\ after[0] = <<doc>>
                    /\ \A k \in Nat : k < Len(s) => after[k + 1] = ApplyTo(after[k], s[k + 1])
                    /\ ApplyAll(doc, s) = after[Len(s)]
<1> DEFINE foldable == {n \in Nat : \E fold : IsFold(fold, doc, s, n)}
<1>1. Nat \subseteq foldable
  <2>1. 0 \in foldable
    BY NothingFolds
  <2>2. ASSUME NEW n \in Nat, n \in foldable PROVE n + 1 \in foldable
    <3>1. PICK fold : IsFold(fold, doc, s, n)
      BY <2>2
    <3> QED BY <3>1, OneMoreFolds
  <2> HIDE DEF foldable
  <2> QED BY <2>1, <2>2, SetInduction
<1>2. PICK n \in Nat : n = Len(s) /\ DOMAIN s = 1 .. n
  OBVIOUS
<1> DEFINE fold == CHOOSE f : IsFold(f, doc, s, n)
<1>3. IsFold(fold, doc, s, n)
  BY <1>1
<1>4. ApplyAll(doc, s) = fold[1 .. n]
  BY <1>2 DEF ApplyAll, FoldLeft, MapThenFoldSet, IsFold, ApplyTo
<1> HIDE DEF fold
<1> DEFINE after == [k \in 0 .. n |-> fold[1 .. k]]
<1>5. after[0] = <<doc>>
  <2>1. 1 .. 0 = {} /\ {} \in SUBSET (1 .. n)
    OBVIOUS
  <2>2. fold[{}] = <<doc>>
    BY <1>3, <2>1 DEF IsFold
  <2> QED BY <2>1, <2>2
<1>6. ASSUME NEW k \in Nat, k < n PROVE after[k + 1] = ApplyTo(after[k], s[k + 1])
  <2>1. PICK S : S = 1 .. (k + 1)
    OBVIOUS
  <2>2. S \in SUBSET (1 .. n) /\ S # {} /\ k + 1 \in S /\ S \ {k + 1} = 1 .. k
    BY <1>6, <2>1
  <2>3. Max(S) = k + 1
    BY <2>1, <2>2, LastIndex
  <2>4. fold[S] = ApplyTo(fold[S \ {Max(S)}], s[Max(S)])
    BY <1>3, <2>2 DEF IsFold
  <2>5. after[k + 1] = fold[S] /\ after[k] = fold[1 .. k]
    BY <1>6, <2>1
  <2> QED BY <2>2, <2>3, <2>4, <2>5
<1>7. ApplyAll(doc, s) = after[n]
  BY <1>4
<1> HIDE DEF after
<1> QED BY <1>2, <1>5, <1>6, <1>7

-----------------------------------------------------------------------------
\* What an operation leaves alone.

Finite(value) == value.array => IsFiniteSet(DOMAIN value.at)
FiniteScreens(doc) == "screens" \in DOMAIN doc => Finite(doc["screens"])

\* e is d but for one root.
SameBut(e, d, root) ==
  \A r : r # root => /\ r \in DOMAIN e <=> r \in DOMAIN d
                     /\ r \in DOMAIN d => e[r] = d[r]

LEMMA EntriesAreASequence ==
  ASSUME NEW value, Finite(value)
  PROVE  /\ Entries(value) \in Seq(ToSet(Entries(value)))
         /\ Len(Entries(value)) \in Nat
<1>1. CASE value.array
  <2>1. PICK n : n = Cardinality(DOMAIN value.at)
    OBVIOUS
  <2>2. n \in Nat
    BY <1>1, <2>1, FS_CardinalityType DEF Finite
  <2>3. PICK s : s = Entries(value)
    OBVIOUS
  <2>4. s = [i \in 1 .. n |-> value.at[Digits[i]]]
    BY <1>1, <2>1, <2>3 DEF Entries
  <2>5. DOMAIN s = 1 .. n /\ \A i \in 1 .. n : s[i] \in ToSet(s)
    BY <2>4 DEF ToSet
  <2>6. s \in [1 .. n -> ToSet(s)]
    BY <2>4, <2>5
  <2>7. s \in Seq(ToSet(s))
    BY <2>2, <2>6
  <2> QED BY <2>3, <2>7
<1>2. CASE ~value.array
  BY <1>2 DEF Entries
<1> QED BY <1>1, <1>2

LEMMA ArraysAreFinite ==
  ASSUME NEW X, NEW items \in Seq(X)
  PROVE  Finite(Array(items))
<1>1. PICK n \in Nat : n = Len(items)
  OBVIOUS
<1> DEFINE f == [i \in 1 .. n |-> Digits[i]]
<1>2. IsFiniteSet(1 .. n)
  BY FS_Interval
<1>3. f \in Surjection(1 .. n, Keys(n))
  BY DEF Surjection, Keys
<1>4. IsFiniteSet(Keys(n))
  BY <1>2, <1>3, FS_Surjection
<1>5. DOMAIN Array(items).at = Keys(n)
  BY <1>1 DEF Array
<1> QED BY <1>4, <1>5 DEF Finite

LEMMA ChangedArrays ==
  ASSUME NEW X, NEW items \in Seq(X), NEW op
  PROVE  \/ ApplyToArray(items, op) = <<>>
         \/ \E value : ApplyToArray(items, op) = <<value>> /\ Finite(value)
<1>1. PICK n \in Nat : n = Len(items)
  OBVIOUS
<1>2. PICK index : index = ArrayIndex(op.path[2], Len(items), op.operation = "add")
  OBVIOUS
<1>3. CASE index = {}
  BY <1>2, <1>3 DEF ApplyToArray
<1>4. CASE index # {}
  <2>1. index \subseteq 1 .. (n + 1)
    BY <1>1, <1>2 DEF ArrayIndex
  <2>2. PICK i : i = CHOOSE j \in index : TRUE
    OBVIOUS
  <2>3. i \in 1 .. (n + 1)
    BY <1>4, <2>1, <2>2
  <2>4. PICK v : v = op.value
    OBVIOUS
  <2> DEFINE Y == X \cup {v}
  <2>5. items \in Seq(Y) /\ <<v>> \in Seq(Y)
    OBVIOUS
  <2>6. /\ SubSeq(items, 1, i - 1) \in Seq(Y) /\ SubSeq(items, i, Len(items)) \in Seq(Y)
        /\ SubSeq(items, i + 1, Len(items)) \in Seq(Y)
    BY <1>1, <2>3, <2>5
  <2>7. InsertAt(items, i, v) \in Seq(Y)
    BY <2>5, <2>6 DEF InsertAt
  <2>8. ReplaceAt(items, i, v) \in Seq(Y)
    <3>1. PICK m : m = ReplaceAt(items, i, v)
      OBVIOUS
    <3>2. items \in [1 .. n -> Y] /\ v \in Y
      BY <1>1
    <3>3. m = [items EXCEPT ![i] = v]
      BY <3>1 DEF ReplaceAt
    <3>4. m \in [1 .. n -> Y]
      BY <3>2, <3>3
    <3>5. m \in Seq(Y)
      BY <3>4
    <3> QED BY <3>1, <3>5
  <2>9. RemoveAt(items, i) \in Seq(Y)
    BY <2>6 DEF RemoveAt
  <2> HIDE DEF Y
  <2>10. PICK changed \in Seq(Y) : ApplyToArray(items, op) = <<Array(changed)>>
    <3>1. ApplyToArray(items, op) =
            <<Array(IF op.operation = "add" THEN InsertAt(items, i, v)
                    ELSE IF op.operation = "replace" THEN ReplaceAt(items, i, v)
                    ELSE RemoveAt(items, i))>>
      BY <1>2, <1>4, <2>2, <2>4 DEF ApplyToArray
    <3> QED BY <2>7, <2>8, <2>9, <3>1
  <2> QED BY <2>10, ArraysAreFinite
<1> QED BY <1>3, <1>4

LEMMA ChangedObjects ==
  ASSUME NEW value, NEW op
  PROVE  \/ ApplyToObject(value, op) = <<>>
         \/ \E changed : ApplyToObject(value, op) = <<changed>> /\ Finite(changed)
<1>1. \A fields : Finite(Object(fields))
  BY DEF Finite, Object
<1> QED BY <1>1 DEF ApplyToObject

LEMMA OneOperation ==
  ASSUME NEW doc, NEW op, FiniteScreens(doc),
         Len(op.path) = 1 /\ op.path[1] = "screens" => Finite(op.value)
  PROVE  \/ ApplyOperation(doc, op) = <<>>
         \/ \E e : /\ ApplyOperation(doc, op) = <<e>>
                   /\ SameBut(e, doc, op.path[1]) /\ FiniteScreens(e)
<1> PICK root : root = op.path[1]
  OBVIOUS
<1>1. CASE Len(op.path) = 1
  <2>1. CASE op.operation # "add" /\ root \notin DOMAIN doc
    BY <1>1, <2>1 DEF ApplyOperation, ApplyToRoot
  <2>2. CASE ~(op.operation # "add" /\ root \notin DOMAIN doc)
    <3>1. PICK e : e = With(doc, root, op.value)
      OBVIOUS
    <3>2. ApplyOperation(doc, op) = <<e>>
      BY <1>1, <2>2, <3>1 DEF ApplyOperation, ApplyToRoot
    <3>3. /\ DOMAIN e = {root} \cup DOMAIN doc /\ e[root] = op.value
          /\ \A r \in DOMAIN doc : r # root => e[r] = doc[r]
      BY <3>1 DEF With
    <3>4. SameBut(e, doc, root)
      BY <3>3 DEF SameBut
    <3>5. FiniteScreens(e)
      BY <1>1, <3>3 DEF FiniteScreens
    <3> QED BY <3>2, <3>4, <3>5
  <2> QED BY <2>1, <2>2
<1>2. CASE Len(op.path) # 1 /\ root \notin DOMAIN doc
  BY <1>2 DEF ApplyOperation
<1>3. CASE Len(op.path) # 1 /\ root \in DOMAIN doc
  <2>1. PICK changed : changed = IF doc[root].array THEN ApplyToArray(Entries(doc[root]), op)
                                 ELSE ApplyToObject(doc[root], op)
    OBVIOUS
  <2>2. ApplyOperation(doc, op) = IF changed = <<>> THEN <<>> ELSE <<[doc EXCEPT ![root] = changed[1]]>>
    BY <1>3, <2>1 DEF ApplyOperation
  <2>3. CASE changed = <<>>
    BY <2>2, <2>3
  <2>4. CASE changed # <<>>
    <3>1. PICK e : e = [doc EXCEPT ![root] = changed[1]]
      OBVIOUS
    <3>2. /\ DOMAIN e = DOMAIN doc /\ e[root] = changed[1]
          /\ \A r \in DOMAIN doc : r # root => e[r] = doc[r]
      BY <1>3, <3>1
    <3>3. SameBut(e, doc, root)
      BY <1>3, <3>2 DEF SameBut
    <3>4. root = "screens" => Finite(changed[1])
      <4>1. CASE doc[root].array /\ root = "screens"
        <5>1. Entries(doc[root]) \in Seq(ToSet(Entries(doc[root])))
          BY <1>3, <4>1, EntriesAreASequence DEF FiniteScreens
        <5>2. \/ changed = <<>>
              \/ \E value : changed = <<value>> /\ Finite(value)
          BY <2>1, <4>1, <5>1, ChangedArrays
        <5> QED BY <2>4, <5>2
      <4>2. CASE ~doc[root].array
        <5>1. \/ changed = <<>>
              \/ \E value : changed = <<value>> /\ Finite(value)
          BY <2>1, <4>2, ChangedObjects
        <5> QED BY <2>4, <5>1
      <4> QED BY <4>1, <4>2
    <3>5. FiniteScreens(e)
      BY <3>2, <3>4 DEF FiniteScreens
    <3> QED BY <2>2, <2>4, <3>1, <3>3, <3>5
  <2> QED BY <2>3, <2>4
<1> QED BY <1>1, <1>2, <1>3

LEMMA OperationsStayWithin ==
  ASSUME NEW doc, NEW X, NEW s \in Seq(X), NEW authority, FiniteScreens(doc),
         \A i \in DOMAIN s : /\ s[i].path[1] \in authority
                             /\ Len(s[i].path) = 1 /\ s[i].path[1] = "screens" => Finite(s[i].value)
  PROVE  \/ ApplyAll(doc, s) = <<>>
         \/ \E d : ApplyAll(doc, s) = <<d>> /\ Untouched(d, doc, authority) /\ FiniteScreens(d)
<1>1. PICK n \in Nat : n = Len(s) /\ DOMAIN s = 1 .. n
  OBVIOUS
<1>2. PICK after : /\ after[0] = <<doc>>
                   /\ \A k \in Nat : k < n => after[k + 1] = ApplyTo(after[k], s[k + 1])
                   /\ ApplyAll(doc, s) = after[n]
  BY <1>1, DocumentsInBetween
<1> DEFINE Within(x) == \/ x = <<>>
                        \/ \E d : x = <<d>> /\ Untouched(d, doc, authority) /\ FiniteScreens(d)
           good == {k \in Nat : k <= n => Within(after[k])}
<1>3. Untouched(doc, doc, authority)
  BY DEF Untouched
<1>4. Within(after[0])
  BY <1>2, <1>3
<1>5. ASSUME NEW k \in Nat, k < n, Within(after[k]) PROVE Within(after[k + 1])
  <2>1. PICK op : op = s[k + 1]
    OBVIOUS
  <2>2. /\ op.path[1] \in authority
        /\ Len(op.path) = 1 /\ op.path[1] = "screens" => Finite(op.value)
    BY <1>1, <1>5, <2>1
  <2>3. after[k + 1] = ApplyTo(after[k], op)
    BY <1>2, <1>5, <2>1
  <2>4. CASE after[k] = <<>>
    BY <2>3, <2>4 DEF ApplyTo
  <2>5. ASSUME NEW d, after[k] = <<d>>, Untouched(d, doc, authority), FiniteScreens(d)
        PROVE  Within(after[k + 1])
    <3>1. after[k + 1] = ApplyOperation(d, op)
      BY <2>3, <2>5 DEF ApplyTo
    <3>2. CASE ApplyOperation(d, op) = <<>>
      BY <3>1, <3>2
    <3>3. ASSUME NEW e, ApplyOperation(d, op) = <<e>>, SameBut(e, d, op.path[1]), FiniteScreens(e)
          PROVE  Within(after[k + 1])
      <4>1. Untouched(e, doc, authority)
        BY <2>2, <2>5, <3>3 DEF Untouched, SameBut
      <4> QED BY <3>1, <3>3, <4>1
    <3> QED BY <2>2, <2>5, <3>2, <3>3, OneOperation
  <2> QED BY <1>5, <2>4, <2>5
<1> HIDE DEF Within
<1>6. 0 \in good
  BY <1>4
<1>7. ASSUME NEW k \in Nat, k \in good PROVE k + 1 \in good
  BY <1>5, <1>7
<1> HIDE DEF good
<1>8. n \in good
  BY <1>6, <1>7, SetInduction
<1>9. Within(after[n])
  BY <1>8 DEF good
<1> QED BY <1>2, <1>9 DEF Within

-----------------------------------------------------------------------------
\* The revisions of spec-feedback-to-spec.

AsAsked(from, feedback, operations, authority, doc) ==
  /\ ApplyAll(from, operations) = <<doc>>
  /\ \A op \in ToSet(operations) : op.feedback \in ToSet(FeedbackIds(feedback))
  /\ Untouched(doc, from, authority)

FiniteOperations(operations) ==
  /\ operations \in Seq(ToSet(operations))
  /\ \A i \in DOMAIN operations :
       /\ "path" \in DOMAIN operations[i]
       /\ Len(operations[i].path) = 1 /\ operations[i].path[1] = "screens" => Finite(operations[i].value)

FiniteCandidate(e) ==
  \E before, c, operations, doc, digest, id :
    /\ e = [parent |-> before, contract |-> c, operations |-> operations,
            document |-> doc, digest |-> digest, id |-> id]
    /\ FiniteOperations(operations) /\ FiniteScreens(doc)

FilesAreFinite ==
  /\ FiniteScreens(pinned.source) /\ FiniteScreens(request.source)
  /\ FiniteOperations(proposal)
  /\ envelope = <<>> \/ \E e : envelope = <<e>> /\ FiniteCandidate(e)
  /\ child = <<>> \/ \E d : child = <<d>> /\ FiniteScreens(d)
  /\ \A r \in repairs : FiniteCandidate(r.candidate)

FilesAreRecords ==
  /\ pinned = [source |-> pinned.source, feedback |-> pinned.feedback]
  /\ report = <<>> \/ \E r : report = <<r>>
  /\ \A r \in repairs :
       r = [run |-> r.run, request |-> r.request, candidate |-> r.candidate, report |-> r.report, altered |-> r.altered]

\* The files of the run are what was requested, as far as nobody rewrote them.
ContractIsOfRequest ==
  /\ contract # <<>> => /\ contract[1].source = request.source /\ contract[1].feedback = request.feedback
                        /\ contract[1].authority = AllowedPathPrefixes
  /\ step \in {"propose", "materialize", "verify"} \/ child # <<>> => contract # <<>>
  /\ step \in {"compile", "propose", "materialize", "verify"} => report = <<>>
  /\ step = "verify" => envelope # <<>>
  /\ step = "approve" => envelope # <<>> /\ report # <<>>
  /\ Keeps(request.origin, request.source)
  /\ "source" \notin altered => pinned.source = request.source
  /\ child # <<>> /\ "child" \notin altered => Untouched(child[1], request.source, AllowedPathPrefixes)

\* What a passed verdict says of its candidate v.
AsRequested(v, asked, changed, repaired) ==
  /\ ApplyAll(v.contract.source, v.operations) = <<v.document>>
  /\ \A op \in ToSet(v.operations) : op.feedback \in ToSet(FeedbackIds(asked.feedback))
  /\ Untouched(v.document, v.contract.source, v.contract.authority)
  /\ repaired \/ v.contract.source = asked.source
  /\ "child" \notin changed => Untouched(v.document, asked.source, AllowedPathPrefixes)

KeptFor(v, baseline, asked, changed, repaired) ==
  /\ (repaired => "source" \notin changed) => baseline = asked.source
  /\ Keeps(baseline, v.document)
  /\ baseline = asked.source => Keeps(asked.origin, v.document)

SoundVerdict(r, asked, changed, repaired) ==
  Passed(r) => /\ AsRequested(r.candidate, asked, changed, repaired)
               /\ KeptFor(r.candidate, r.baseline, asked, changed, repaired)

VerdictsAreSound ==
  /\ \A r \in ToSet(report) : SoundVerdict(r, request, altered, FALSE)
  /\ \A r \in repairs : SoundVerdict(r.report, r.request, r.altered, TRUE)

\* An envelope holds what its verdict is about, if nobody rewrote it.
EnvelopesAreVerified ==
  /\ \A r \in ToSet(report) : "envelope" \notin altered => envelope = <<r.candidate>>
  /\ \A r \in repairs : "envelope" \notin r.altered => r.candidate = r.report.candidate

ApprovedAreSound ==
  \A a \in approved :
    /\ AsRequested(a.verified, a.request, a.altered, a.repaired)
    /\ KeptFor(a.verified, a.baseline, a.request, a.altered, a.repaired)
    /\ "envelope" \notin a.altered => a.candidate = a.verified
    /\ FiniteCandidate(a.candidate)

RevisionInv ==
  FilesAreFinite /\ FilesAreRecords /\ ContractIsOfRequest /\ VerdictsAreSound /\ EnvelopesAreVerified
  /\ ApprovedAreSound

-----------------------------------------------------------------------------
LEMMA Materialising ==
  ASSUME NEW from, NEW c, NEW operations, NEW made,
         FiniteOperations(operations), FiniteScreens(from),
         MaterializeCandidate(from, c, operations) = <<made>>
  PROVE  /\ FiniteCandidate(made)
         /\ made.contract = c /\ made.operations = operations
         /\ from = c.source
         /\ AsAsked(from, c.feedback, operations, c.authority, made.document)
         /\ FiniteScreens(made.document)
<1>1. PICK revised : revised = ApplyAll(from, operations)
  OBVIOUS
<1>2. /\ ValidProposal(operations, c) /\ from = c.source /\ revised # <<>>
      /\ made = [parent |-> c.source, contract |-> c, operations |-> operations,
                 document |-> revised[1], digest |-> revised[1], id |-> <<c, operations, revised[1]>>]
  BY <1>1 DEF MaterializeCandidate
<1>3. /\ operations \in Seq(ToSet(operations))
      /\ \A i \in DOMAIN operations : operations[i] \in ToSet(operations)
  BY DEF FiniteOperations, ToSet
<1>4. \A i \in DOMAIN operations :
        /\ operations[i].path[1] \in c.authority
        /\ Len(operations[i].path) = 1 /\ operations[i].path[1] = "screens" => Finite(operations[i].value)
  BY <1>2, <1>3 DEF ValidProposal, FiniteOperations
<1>5. PICK doc : revised = <<doc>> /\ Untouched(doc, from, c.authority) /\ FiniteScreens(doc)
  BY <1>1, <1>2, <1>3, <1>4, OperationsStayWithin
<1>6. made.document = doc /\ made.contract = c /\ made.operations = operations
  BY <1>2, <1>5
<1>8. FiniteCandidate(made)
  <2>1. PICK id : id = <<c, operations, revised[1]>>
    OBVIOUS
  <2>2. made = [parent |-> c.source, contract |-> c, operations |-> operations,
                document |-> doc, digest |-> doc, id |-> id]
    BY <1>2, <1>5, <2>1
  <2> QED BY <1>5, <2>2 DEF FiniteCandidate
<1>7. \A op \in ToSet(operations) : op.feedback \in ToSet(FeedbackIds(c.feedback))
  BY <1>2 DEF ValidProposal
<1> QED BY <1>1, <1>2, <1>5, <1>6, <1>7, <1>8 DEF AsAsked

\* What a passed report says.
LEMMA PassedReports ==
  ASSUME NEW from, NEW base, NEW made, NEW c, NEW target, Passed(Reports(from, base, made, c, target))
  PROVE  /\ MaterializeCandidate(from, c, made.operations) = <<made>>
         /\ Keeps(base, made.document)
<1>1. PICK found : found = StructuralFindings(base, made.document)
                            \cup RevisionFindings(SemanticFindings(made.document))
  OBVIOUS
<1>2. VerifySpecRevision(from, made, c, found) = {}
  BY <1>1 DEF Passed, Reports
<1>3. /\ MaterializeCandidate(from, c, made.operations) = <<made>>
      /\ found = {}
  BY <1>2 DEF VerifySpecRevision
<1>4. ValidateBaselinePreservation(base, made.document) = {}
  BY <1>1, <1>3 DEF StructuralFindings
<1>5. Keeps(base, made.document)
  BY <1>4 DEF ValidateBaselinePreservation, Keeps, Code
<1> QED BY <1>3, <1>5

LEMMA SourcesAreFinite == \A doc \in Sources : FiniteScreens(doc)
BY DocumentAssumption DEF FiniteScreens, Finite

LEMMA ProposalsAreFinite == \A operations \in Proposals : FiniteOperations(operations)
<1> SUFFICES ASSUME NEW operations \in Proposals PROVE FiniteOperations(operations)
  OBVIOUS
<1>1. \A i \in DOMAIN operations : operations[i] \in ToSet(operations)
  BY DEF ToSet
<1> QED BY <1>1, DocumentAssumption DEF FiniteOperations, Finite

\* A sequence is one of its own members.
LEMMA OwnMembers ==
  ASSUME NEW n \in Nat, NEW s, DOMAIN s = 1 .. n, s = [i \in 1 .. n |-> s[i]]
  PROVE  s \in Seq(ToSet(s))
<1>1. \A i \in 1 .. n : s[i] \in ToSet(s)
  BY DEF ToSet
<1>2. s \in [1 .. n -> ToSet(s)]
  BY <1>1
<1> QED BY <1>2

LEMMA StampsAreFinite ==
  ASSUME NEW operations, NEW doc, FiniteOperations(operations)
  PROVE  FiniteOperations(Stamped(operations, doc))
<1>1. PICK n \in Nat : n = Len(operations) /\ DOMAIN operations = 1 .. n
  BY DEF FiniteOperations
<1>2. PICK s : s = Stamped(operations, doc)
  OBVIOUS
<1>3. /\ DOMAIN s = 1 .. n /\ s = [i \in 1 .. n |-> s[i]]
      /\ \A i \in 1 .. n :
           s[i] = IF operations[i].path = <<"meta", "revision">>
                  THEN [operations[i] EXCEPT !.value = [doc["meta"].at["revision"] EXCEPT !.lineage = requests]]
                  ELSE operations[i]
  BY <1>1, <1>2 DEF Stamped
<1>4. s \in Seq(ToSet(s))
  BY <1>3, OwnMembers
<1>5. ASSUME NEW i \in DOMAIN s
      PROVE  /\ "path" \in DOMAIN s[i]
             /\ Len(s[i].path) = 1 /\ s[i].path[1] = "screens" => Finite(s[i].value)
  <2>0. PICK op : op = operations[i] /\ "path" \in DOMAIN op
    BY <1>1, <1>3 DEF FiniteOperations
  <2>1. CASE op.path = <<"meta", "revision">>
    <3>1. PICK v : s[i] = [op EXCEPT !.value = v]
      BY <1>3, <2>0, <2>1
    <3>2. "path" \in DOMAIN s[i] /\ s[i].path = op.path
      BY <2>0, <3>1
    <3>3. Len(<<"meta", "revision">>) = 2
      OBVIOUS
    <3> QED BY <2>1, <3>2, <3>3
  <2>2. CASE op.path # <<"meta", "revision">>
    BY <1>1, <1>3, <2>0, <2>2 DEF FiniteOperations
  <2> QED BY <2>1, <2>2
<1> QED BY <1>2, <1>4, <1>5 DEF FiniteOperations

LEMMA SetsAsSequences ==
  ASSUME NEW S, IsFiniteSet(S)
  PROVE  SetToSeq(S) \in Seq(S)
<1>1. PICK n \in Nat : n = Cardinality(S) /\ ExistsBijection(1 .. n, S)
  BY FS_CardinalityType
<1>2. PICK f \in Bijection(1 .. n, S) : TRUE
  BY <1>1 DEF ExistsBijection
<1>3. f \in [1 .. n -> S] /\ IsInjective(f)
  BY <1>2 DEF Bijection, Injection, IsInjective
<1>4. SetToSeq(S) \in [1 .. n -> S]
  BY <1>1, <1>3 DEF SetToSeq
<1> QED BY <1>4

LEMMA RepairsAreFinite ==
  ASSUME NEW doc, NEW base, NEW id, FiniteScreens(doc)
  PROVE  FiniteOperations(RepairOperations(doc, base, id))
<1>1. PICK screens : screens = Records(doc, "screens")
  OBVIOUS
<1>2. Len(screens) \in Nat /\ screens \in Seq(ToSet(screens))
  <2>1. CASE "screens" \in DOMAIN doc
    BY <1>1, <2>1, EntriesAreASequence DEF Records, FiniteScreens
  <2>2. CASE "screens" \notin DOMAIN doc
    BY <1>1, <2>2 DEF Records
  <2> QED BY <2>1, <2>2
<1>3. PICK n \in Nat : n = Len(screens) /\ DOMAIN screens = 1 .. n
  BY <1>2
<1>4. PICK S, revision, requirements, assumptions, flows, nav :
        /\ S = {Replace(<<"screens", Digits[i]>>, RepairedScreen(doc, base, i), id) :
                  i \in {j \in 1 .. n : screens[j].id \in ChangedScreens}}
        /\ RepairOperations(doc, base, id) =
             <<Replace(<<"meta", "revision">>, revision, id), Replace(<<"requirements">>, requirements, id),
               Replace(<<"assumptions">>, assumptions, id), Replace(<<"flows">>, flows, id),
               Replace(<<"navModel">>, nav, id)>> \o SetToSeq(S)
  BY <1>1, <1>3 DEF RepairOperations
<1>5. IsFiniteSet(S)
  <2> DEFINE I == {j \in 1 .. n : screens[j].id \in ChangedScreens}
             f == [i \in I |-> Replace(<<"screens", Digits[i]>>, RepairedScreen(doc, base, i), id)]
  <2>1. IsFiniteSet(I)
    <3>1. PICK T : T = 1 .. n
      OBVIOUS
    <3>2. IsFiniteSet(T)
      BY <3>1, FS_Interval
    <3>3. I \in SUBSET T
      BY <3>1
    <3> QED BY <3>2, <3>3, FS_Subset
  <2>2. f \in Surjection(I, S)
    BY <1>4 DEF Surjection
  <2> QED BY <2>1, <2>2, FS_Surjection
<1>6. PICK rest \in Seq(S) : rest = SetToSeq(S)
  BY <1>5, SetsAsSequences
<1>7. PICK first : first = <<Replace(<<"meta", "revision">>, revision, id), Replace(<<"requirements">>, requirements, id),
                             Replace(<<"assumptions">>, assumptions, id), Replace(<<"flows">>, flows, id),
                             Replace(<<"navModel">>, nav, id)>>
  OBVIOUS
<1> DEFINE Harmless(op) == "path" \in DOMAIN op /\ (Len(op.path) = 1 => op.path[1] # "screens")
           heads == {first[1], first[2], first[3], first[4], first[5]}
<1>8. first \in Seq(heads) /\ \A op \in heads : Harmless(op)
  <2>1. /\ first[1] = Replace(<<"meta", "revision">>, revision, id)
        /\ first[2] = Replace(<<"requirements">>, requirements, id)
        /\ first[3] = Replace(<<"assumptions">>, assumptions, id)
        /\ first[4] = Replace(<<"flows">>, flows, id)
        /\ first[5] = Replace(<<"navModel">>, nav, id)
    BY <1>7
  <2>2. first \in Seq(heads)
    BY <1>7, <2>1
  <2>3. \A path, value : Replace(path, value, id).path = path /\ "path" \in DOMAIN Replace(path, value, id)
    BY DEF Replace
  <2>4. Harmless(first[1]) /\ Harmless(first[2]) /\ Harmless(first[3]) /\ Harmless(first[4]) /\ Harmless(first[5])
    BY <2>1, <2>3
  <2> QED BY <2>2, <2>4
<1>9. \A op \in S : Harmless(op)
  <2> SUFFICES ASSUME NEW op \in S PROVE Harmless(op)
    OBVIOUS
  <2>1. PICK i : op = Replace(<<"screens", Digits[i]>>, RepairedScreen(doc, base, i), id)
    BY <1>4
  <2>2. "path" \in DOMAIN op /\ op.path = <<"screens", Digits[i]>>
    BY <2>1 DEF Replace
  <2> QED BY <2>2
<1> HIDE DEF Harmless, heads
<1>10. PICK s : s = first \o rest
  OBVIOUS
<1>11. s \in Seq(heads \cup S)
  <2>1. first \in Seq(heads \cup S) /\ rest \in Seq(heads \cup S)
    BY <1>6, <1>8
  <2> QED BY <1>10, <2>1
<1>12. \A i \in DOMAIN s : Harmless(s[i])
  BY <1>8, <1>9, <1>11
<1>13. s \in Seq(ToSet(s))
  <2>1. PICK m \in Nat : DOMAIN s = 1 .. m /\ s = [i \in 1 .. m |-> s[i]]
    BY <1>11
  <2> QED BY <2>1, OwnMembers
<1>14. RepairOperations(doc, base, id) = s
  BY <1>4, <1>6, <1>7, <1>10
<1> QED BY <1>12, <1>13, <1>14 DEF FiniteOperations, Harmless

\* What an envelope may be rewritten to.
LEMMA AlteredAreFinite ==
  ASSUME NEW e, NEW doc, FiniteCandidate(e), FiniteScreens(doc), NEW a \in Altered(e, doc)
  PROVE  FiniteCandidate(a)
<1>1. PICK before, c, operations, old, digest, id :
        /\ e = [parent |-> before, contract |-> c, operations |-> operations,
                document |-> old, digest |-> digest, id |-> id]
        /\ FiniteOperations(operations) /\ FiniteScreens(old)
  BY DEF FiniteCandidate
<1>2. PICK d \in {doc, old}, ops \in {operations} \cup Alterations, stale \in BOOLEAN, kept \in BOOLEAN :
        a = [e EXCEPT !.document = d, !.operations = ops,
                      !.digest = IF stale THEN @ ELSE d, !.id = IF kept THEN @ ELSE <<c, ops, d>>]
  <2>1. PICK d \in {doc, e.document}, ops \in {e.operations} \cup Alterations, stale \in BOOLEAN, kept \in BOOLEAN :
          a = AlteredTo(e, d, ops, stale, kept)
    BY DEF Altered
  <2>2. e.document = old /\ e.operations = operations /\ e.contract = c
    BY <1>1
  <2>3. d \in {doc, old} /\ ops \in {operations} \cup Alterations
    BY <2>1, <2>2
  <2>4. a = [e EXCEPT !.document = d, !.operations = ops,
                      !.digest = IF stale THEN @ ELSE d, !.id = IF kept THEN @ ELSE <<c, ops, d>>]
    BY <2>1, <2>2 DEF AlteredTo
  <2> QED BY <2>1, <2>3, <2>4, Zenon
<1>3. PICK g, i : /\ g = IF stale THEN digest ELSE d
                  /\ i = IF kept THEN id ELSE <<c, ops, d>>
  OBVIOUS
<1>4. a = [parent |-> before, contract |-> c, operations |-> ops, document |-> d, digest |-> g, id |-> i]
  <2>1. PICK f : f = [e EXCEPT !.document = d]
    OBVIOUS
  <2>2. f = [parent |-> before, contract |-> c, operations |-> operations, document |-> d, digest |-> digest, id |-> id]
    BY <1>1, <2>1
  <2>3. PICK h : h = [f EXCEPT !.operations = ops]
    OBVIOUS
  <2>4. h = [parent |-> before, contract |-> c, operations |-> ops, document |-> d, digest |-> digest, id |-> id]
    BY <2>2, <2>3
  <2>5. PICK k : k = [h EXCEPT !.digest = IF stale THEN @ ELSE d]
    OBVIOUS
  <2>6. k = [parent |-> before, contract |-> c, operations |-> ops, document |-> d, digest |-> g, id |-> id]
    BY <1>3, <2>4, <2>5
  <2>7. a = [k EXCEPT !.id = IF kept THEN @ ELSE <<c, ops, d>>]
    BY <1>2, <2>1, <2>3, <2>5
  <2> QED BY <1>3, <2>6, <2>7
<1>5. FiniteScreens(d) /\ FiniteOperations(ops)
  BY <1>1, <1>2, ProposalsAreFinite, DocumentAssumption
<1> QED BY <1>4, <1>5 DEF FiniteCandidate

-----------------------------------------------------------------------------
LEMMA KeepsItself == \A doc : Keeps(doc, doc)
BY DEF Keeps

LEMMA RevisionInit == SpecInit => RevisionInv
<1> SUFFICES ASSUME SpecInit PROVE RevisionInv
  OBVIOUS
<1>1. FiniteScreens(<<>>) /\ FiniteOperations(<<>>) /\ ToSet(<<>>) = {}
  BY DEF FiniteScreens, FiniteOperations, ToSet
<1>2. FilesAreFinite /\ FilesAreRecords
  BY <1>1 DEF SpecInit, FilesAreFinite, FilesAreRecords, NoRequest
<1>3. ContractIsOfRequest
  BY <1>1, KeepsItself DEF SpecInit, ContractIsOfRequest, NoRequest
<1>4. VerdictsAreSound /\ EnvelopesAreVerified /\ ApprovedAreSound
  BY <1>1 DEF SpecInit, VerdictsAreSound, EnvelopesAreVerified, ApprovedAreSound
<1> QED BY <1>2, <1>3, <1>4 DEF RevisionInv

LEMMA NoReports == ToSet(<<>>) = {}
BY DEF ToSet

LEMMA OneReport == \A r : ToSet(<<r>>) = {r}
BY DEF ToSet

LEMMA OriginsAreKept ==
  ASSUME ApprovedAreSound, NEW s \in Origins
  PROVE  FiniteScreens(s.source) /\ Keeps(s.origin, s.source)
<1>1. CASE s \in {[source |-> d, origin |-> d] : d \in Sources}
  BY <1>1, SourcesAreFinite, KeepsItself
<1>2. ASSUME NEW a \in approved, s = [source |-> a.candidate.document, origin |-> OriginOf(a)]
      PROVE  FiniteScreens(s.source) /\ Keeps(s.origin, s.source)
  <2>1. FiniteCandidate(a.candidate)
    BY DEF ApprovedAreSound
  <2>2. FiniteScreens(a.candidate.document)
    BY <2>1 DEF FiniteCandidate
  <2>3. s.source = a.candidate.document /\ s.origin = OriginOf(a)
    BY <1>2
  <2>4. CASE a.candidate = a.verified /\ a.baseline = a.request.source
    BY <2>2, <2>3, <2>4 DEF OriginOf, ApprovedAreSound, KeptFor
  <2>5. CASE ~(a.candidate = a.verified /\ a.baseline = a.request.source)
    BY <2>2, <2>3, <2>5, KeepsItself DEF OriginOf
  <2> QED BY <2>4, <2>5
<1> QED BY <1>1, <1>2 DEF Origins

LEMMA PrepareStep ==
  ASSUME RevisionInv, NEW s \in Origins, NEW feedback, NEW target, NEW onLastRun,
         PrepareRequest(s.source, s.origin, feedback, target, onLastRun)
  PROVE  RevisionInv'
<1>1. FiniteScreens(s.source) /\ Keeps(s.origin, s.source) /\ FiniteOperations(<<>>)
  BY OriginsAreKept DEF RevisionInv, FiniteOperations
<1>2. PICK p, q : /\ p = [source |-> s.source, feedback |-> feedback]
                  /\ q = [source |-> s.source, feedback |-> feedback, target |-> target, origin |-> s.origin]
  OBVIOUS
<1>3. /\ pinned' = p /\ request' = q /\ altered' = {}
      /\ step' = "compile" /\ contract' = <<>> /\ proposal' = <<>> /\ envelope' = <<>> /\ child' = <<>>
      /\ report' = <<>>
      /\ UNCHANGED <<approved, repairs>>
  BY <1>2 DEF PrepareRequest
<1>4. /\ p.source = s.source /\ q.source = s.source /\ q.origin = s.origin
      /\ p = [source |-> p.source, feedback |-> p.feedback]
  BY <1>2
<1>5. FilesAreFinite'
  BY <1>1, <1>3, <1>4 DEF FilesAreFinite, RevisionInv
<1>6. FilesAreRecords'
  BY <1>3, <1>4 DEF FilesAreRecords, RevisionInv
<1>7. ContractIsOfRequest'
  BY <1>1, <1>3, <1>4 DEF ContractIsOfRequest
<1>8. VerdictsAreSound' /\ EnvelopesAreVerified'
  BY <1>3, NoReports DEF VerdictsAreSound, EnvelopesAreVerified, RevisionInv
<1>9. ApprovedAreSound'
  BY <1>3 DEF ApprovedAreSound, RevisionInv
<1> QED BY <1>5, <1>6, <1>7, <1>8, <1>9 DEF RevisionInv

\* A step of the run that changes neither what was verified nor what was approved.
LEMMA QuietStep ==
  ASSUME RevisionInv, UNCHANGED <<pinned, request, envelope, child, report, altered, repairs, approved>>,
         FiniteOperations(proposal)', ContractIsOfRequest'
  PROVE  RevisionInv'
<1>1. FilesAreFinite' /\ FilesAreRecords'
  BY DEF RevisionInv, FilesAreFinite, FilesAreRecords
<1>2. VerdictsAreSound' /\ EnvelopesAreVerified' /\ ApprovedAreSound'
  BY DEF RevisionInv, VerdictsAreSound, EnvelopesAreVerified, ApprovedAreSound
<1> QED BY <1>1, <1>2 DEF RevisionInv

LEMMA FailStep ==
  ASSUME RevisionInv, Fail, UNCHANGED <<repairs, approved>>
  PROVE  RevisionInv'
<1>1. /\ step' = "failed"
      /\ UNCHANGED <<pinned, request, contract, proposal, envelope, child, report, altered, repairs, approved>>
  BY DEF Fail
<1>2. ContractIsOfRequest'
  BY <1>1 DEF RevisionInv, ContractIsOfRequest
<1>3. FiniteOperations(proposal)'
  BY <1>1 DEF RevisionInv, FilesAreFinite
<1> QED BY <1>1, <1>2, <1>3, QuietStep

LEMMA CompileStep ==
  ASSUME RevisionInv, CompileFeedback
  PROVE  RevisionInv'
<1>1. CASE Fail
  BY <1>1, FailStep DEF CompileFeedback
<1>2. CASE ~Fail
  <2>1. /\ step = "compile" /\ step' = "propose"
        /\ pinned.source = request.source /\ pinned.feedback = request.feedback
        /\ contract' = <<SpecFeedbackContract(pinned.source, pinned.feedback, AllowedPathPrefixes)>>
        /\ UNCHANGED <<pinned, request, proposal, envelope, child, report, altered, repairs, approved>>
    BY <1>2 DEF CompileFeedback
  <2>2. PICK c : c = SpecFeedbackContract(pinned.source, pinned.feedback, AllowedPathPrefixes)
    OBVIOUS
  <2>3. c.source = request.source /\ c.feedback = request.feedback /\ c.authority = AllowedPathPrefixes
    BY <2>1, <2>2 DEF SpecFeedbackContract
  <2>4. contract' # <<>> /\ contract'[1] = c
    BY <2>1, <2>2
  <2>5. ContractIsOfRequest'
    BY <2>1, <2>3, <2>4 DEF ContractIsOfRequest, RevisionInv
  <2>6. FiniteOperations(proposal)'
    BY <2>1 DEF RevisionInv, FilesAreFinite
  <2> QED BY <2>1, <2>5, <2>6, QuietStep
<1> QED BY <1>1, <1>2

LEMMA ProposeStep ==
  ASSUME RevisionInv, NEW operations \in Proposals, ProposePatch(operations)
  PROVE  RevisionInv'
<1>1. /\ step = "propose" /\ step' = "materialize" /\ proposal' = operations
      /\ UNCHANGED <<pinned, request, contract, envelope, child, report, altered, repairs, approved>>
  BY DEF ProposePatch
<1>2. FiniteOperations(proposal)'
  BY <1>1, ProposalsAreFinite
<1>3. ContractIsOfRequest'
  BY <1>1 DEF RevisionInv, ContractIsOfRequest
<1> QED BY <1>1, <1>2, <1>3, QuietStep

LEMMA MaterializeStep ==
  ASSUME RevisionInv, MaterializeRevision
  PROVE  RevisionInv'
<1>1. CASE Fail
  BY <1>1, FailStep DEF MaterializeRevision
<1>2. CASE ~Fail
  <2>1. PICK first : first = MaterializeCandidate(pinned.source, contract[1], proposal)
    OBVIOUS
  <2>2. PICK operations : operations = Stamped(proposal, first[1].document)
    OBVIOUS
  <2>3. PICK made : made = MaterializeCandidate(pinned.source, contract[1], operations)
    OBVIOUS
  <2>4. /\ step = "materialize" /\ made # <<>>
        /\ envelope' = made /\ child' = <<made[1].document>> /\ step' = "verify"
        /\ UNCHANGED <<pinned, request, contract, proposal, report, altered, repairs, approved>>
    BY <1>2, <2>1, <2>2, <2>3 DEF MaterializeRevision
  <2>5. FiniteOperations(operations) /\ FiniteScreens(pinned.source)
    BY <2>2, StampsAreFinite DEF RevisionInv, FilesAreFinite
  <2>6. PICK cand : made = <<cand>>
    BY <2>3, <2>4 DEF MaterializeCandidate
  <2>7. /\ FiniteCandidate(cand) /\ FiniteScreens(cand.document)
        /\ pinned.source = contract[1].source
        /\ Untouched(cand.document, pinned.source, contract[1].authority)
    <3>1. MaterializeCandidate(pinned.source, contract[1], operations) = <<cand>>
      BY <2>3, <2>6
    <3>2. PICK c : c = contract[1]
      OBVIOUS
    <3> QED BY <2>5, <3>1, <3>2, Materialising DEF AsAsked
  <2>8. envelope' = <<cand>> /\ child' = <<cand.document>>
    BY <2>4, <2>6
  <2>9. FilesAreFinite' /\ FilesAreRecords'
    BY <2>4, <2>7, <2>8 DEF FilesAreFinite, FilesAreRecords, RevisionInv
  <2>10. contract # <<>> /\ report = <<>>
    BY <2>4 DEF RevisionInv, ContractIsOfRequest
  <2>11. Untouched(cand.document, request.source, AllowedPathPrefixes)
    BY <2>7, <2>10 DEF RevisionInv, ContractIsOfRequest
  <2>12. ContractIsOfRequest'
    BY <2>4, <2>8, <2>10, <2>11 DEF ContractIsOfRequest, RevisionInv
  <2>13. VerdictsAreSound' /\ EnvelopesAreVerified' /\ ApprovedAreSound'
    BY <2>4, <2>10, NoReports DEF VerdictsAreSound, EnvelopesAreVerified, ApprovedAreSound, RevisionInv
  <2> QED BY <2>9, <2>12, <2>13 DEF RevisionInv
<1> QED BY <1>1, <1>2

\* A passed verdict is about the source with operations within the contract.
LEMMA PassedAreAsked ==
  ASSUME NEW from, NEW base, NEW made, NEW c, NEW target,
         Passed(Reports(from, base, made, c, target)), FiniteCandidate(made), FiniteScreens(from)
  PROVE  /\ made.contract = c /\ from = c.source
         /\ AsAsked(c.source, c.feedback, made.operations, c.authority, made.document)
         /\ Keeps(base, made.document)
<1>1. /\ MaterializeCandidate(from, c, made.operations) = <<made>>
      /\ Keeps(base, made.document)
  BY PassedReports
<1>2. PICK operations : operations = made.operations /\ FiniteOperations(operations)
  BY DEF FiniteCandidate
<1>3. MaterializeCandidate(from, c, operations) = <<made>>
  BY <1>1, <1>2
<1>4. /\ made.contract = c /\ from = c.source
      /\ AsAsked(from, c.feedback, operations, c.authority, made.document)
  BY <1>2, <1>3, Materialising
<1> QED BY <1>1, <1>2, <1>4

LEMMA KeepsOn ==
  ASSUME NEW x, NEW y, NEW z, Keeps(x, y), Keeps(y, z)
  PROVE  Keeps(x, z)
BY DEF Keeps

LEMMA VerifyStep ==
  ASSUME RevisionInv, VerifyRevision
  PROVE  RevisionInv'
<1>1. CASE Fail
  BY <1>1, FailStep DEF VerifyRevision
<1>2. CASE ~Fail
  <2>1. PICK r : r = Reports(pinned.source, pinned.source, envelope[1], contract[1], request.target)
    OBVIOUS
  <2>2. /\ step = "verify" /\ pinned.source = contract[1].source
        /\ report' = <<r>>
        /\ step' = IF Passed(r) THEN "approve" ELSE "failed"
        /\ UNCHANGED <<pinned, request, contract, proposal, envelope, child, altered, repairs, approved>>
    BY <1>2, <2>1 DEF VerifyRevision
  <2>3. /\ contract # <<>> /\ envelope # <<>>
        /\ Keeps(request.origin, request.source)
        /\ contract[1].source = request.source /\ contract[1].feedback = request.feedback
        /\ contract[1].authority = AllowedPathPrefixes
    BY <2>2 DEF RevisionInv, ContractIsOfRequest
  <2>4. PICK v : envelope = <<v>> /\ FiniteCandidate(v)
    BY <2>3 DEF RevisionInv, FilesAreFinite
  <2>5. r.candidate = v /\ r.baseline = request.source
    BY <2>1, <2>2, <2>3, <2>4 DEF Reports
  <2>6. ASSUME Passed(r)
        PROVE  AsRequested(v, request, altered, FALSE) /\ KeptFor(v, r.baseline, request, altered, FALSE)
    <3>1. PICK c : c = contract[1]
      OBVIOUS
    <3>2. r = Reports(pinned.source, pinned.source, v, c, request.target)
      BY <2>1, <2>4, <3>1
    <3>3. FiniteScreens(pinned.source)
      BY DEF RevisionInv, FilesAreFinite
    <3>4. /\ v.contract = c
          /\ AsAsked(c.source, c.feedback, v.operations, c.authority, v.document)
          /\ Keeps(pinned.source, v.document)
      BY <2>4, <2>6, <3>2, <3>3, PassedAreAsked
    <3>5. AsRequested(v, request, altered, FALSE)
      BY <2>3, <3>1, <3>4 DEF AsAsked, AsRequested
    <3>6. Keeps(request.source, v.document)
      BY <2>2, <2>3, <3>4
    <3>7. Keeps(request.origin, v.document)
      BY <2>3, <3>6, KeepsOn
    <3> QED BY <2>5, <3>5, <3>6, <3>7 DEF KeptFor
  <2>7. SoundVerdict(r, request, altered, FALSE)
    BY <2>5, <2>6 DEF SoundVerdict
  <2>8. VerdictsAreSound'
    BY <2>2, <2>7, OneReport DEF VerdictsAreSound, RevisionInv
  <2>9. EnvelopesAreVerified'
    BY <2>2, <2>4, <2>5, OneReport DEF EnvelopesAreVerified, RevisionInv
  <2>10. ContractIsOfRequest'
    BY <2>2, <2>3 DEF ContractIsOfRequest, RevisionInv
  <2>11. FilesAreFinite' /\ FilesAreRecords' /\ ApprovedAreSound'
    BY <2>2 DEF FilesAreFinite, FilesAreRecords, ApprovedAreSound, RevisionInv
  <2> QED BY <2>8, <2>9, <2>10, <2>11 DEF RevisionInv
<1> QED BY <1>1, <1>2

LEMMA ApprovalsAreSound ==
  ASSUME NEW e, NEW r, NEW asked, NEW changed, NEW repaired, NEW a,
         a = Approval(e, r, asked, changed, repaired),
         Approvable(e, r), SoundVerdict(r, asked, changed, repaired), FiniteCandidate(e),
         "envelope" \notin changed => e = r.candidate
  PROVE  /\ AsRequested(a.verified, a.request, a.altered, a.repaired)
         /\ KeptFor(a.verified, a.baseline, a.request, a.altered, a.repaired)
         /\ "envelope" \notin a.altered => a.candidate = a.verified
         /\ FiniteCandidate(a.candidate)
<1>1. /\ a.candidate = e /\ a.verified = r.candidate /\ a.baseline = r.baseline
      /\ a.request = asked /\ a.altered = changed /\ a.repaired = repaired
  BY DEF Approval
<1> QED BY <1>1 DEF Approvable, SoundVerdict

LEMMA ApproveStep ==
  ASSUME RevisionInv, ApproveRevision
  PROVE  RevisionInv'
<1>1. /\ step = "approve" /\ step' = "done"
      /\ UNCHANGED <<pinned, request, contract, proposal, envelope, child, report, altered, repairs>>
  BY DEF ApproveRevision
<1>2. PICK r, e : report = <<r>> /\ envelope = <<e>> /\ FiniteCandidate(e)
  BY <1>1 DEF RevisionInv, ContractIsOfRequest, FilesAreRecords, FilesAreFinite
<1>3. PICK a : a = Approval(e, r, request, altered, FALSE)
  OBVIOUS
<1>4. \/ approved' = approved
      \/ Approvable(e, r) /\ approved' = approved \cup {a}
  BY <1>2, <1>3 DEF ApproveRevision
<1>5. SoundVerdict(r, request, altered, FALSE) /\ ("envelope" \notin altered => e = r.candidate)
  BY <1>2, OneReport DEF RevisionInv, VerdictsAreSound, EnvelopesAreVerified
<1>6. ApprovedAreSound'
  BY <1>2, <1>3, <1>4, <1>5, ApprovalsAreSound DEF ApprovedAreSound, RevisionInv
<1>7. FilesAreFinite' /\ FilesAreRecords' /\ ContractIsOfRequest'
  BY <1>1 DEF RevisionInv, FilesAreFinite, FilesAreRecords, ContractIsOfRequest
<1>8. VerdictsAreSound' /\ EnvelopesAreVerified'
  BY <1>1 DEF RevisionInv, VerdictsAreSound, EnvelopesAreVerified
<1> QED BY <1>6, <1>7, <1>8 DEF RevisionInv

LEMMA ApproveRepairStep ==
  ASSUME RevisionInv, NEW r \in repairs, ApproveRepair(r)
  PROVE  RevisionInv'
<1>1. PICK a : a = Approval(r.candidate, r.report, r.request, r.altered, TRUE)
  OBVIOUS
<1>2. /\ Approvable(r.candidate, r.report) /\ approved' = approved \cup {a}
      /\ UNCHANGED <<pinned, request, step, contract, proposal, envelope, child, report, altered, repairs>>
  BY <1>1 DEF ApproveRepair, runVars
<1>3. /\ SoundVerdict(r.report, r.request, r.altered, TRUE) /\ FiniteCandidate(r.candidate)
      /\ "envelope" \notin r.altered => r.candidate = r.report.candidate
  BY DEF RevisionInv, VerdictsAreSound, EnvelopesAreVerified, FilesAreFinite
<1>4. ApprovedAreSound'
  BY <1>1, <1>2, <1>3, ApprovalsAreSound DEF ApprovedAreSound, RevisionInv
<1>5. FilesAreFinite' /\ FilesAreRecords' /\ ContractIsOfRequest'
  BY <1>2 DEF RevisionInv, FilesAreFinite, FilesAreRecords, ContractIsOfRequest
<1>6. VerdictsAreSound' /\ EnvelopesAreVerified'
  BY <1>2 DEF RevisionInv, VerdictsAreSound, EnvelopesAreVerified
<1> QED BY <1>4, <1>5, <1>6 DEF RevisionInv

LEMMA UntouchedOn ==
  ASSUME NEW x, NEW y, NEW z, NEW S, NEW T, S \subseteq T, Untouched(x, y, S), Untouched(y, z, T)
  PROVE  Untouched(x, z, T)
BY DEF Untouched

LEMMA RepairsAreWithin == RepairAuthority \subseteq AllowedPathPrefixes
BY DEF RepairAuthority, AllowedPathPrefixes, RequiredPointers

LEMMA RepairStep ==
  ASSUME RevisionInv, FinalizeRepair
  PROVE  RevisionInv'
<1>1. PICK from, base : from = child[1] /\ base = pinned.source
  OBVIOUS
<1>2. PICK c : c = SpecFeedbackContract(from, contract[1].feedback, RepairAuthority)
  OBVIOUS
<1>3. PICK operations : operations = RepairOperations(from, base, FeedbackIds(c.feedback)[1])
  OBVIOUS
<1>4. PICK made : made = MaterializeCandidate(from, c, operations)
  OBVIOUS
<1>5. PICK changed : changed = altered \ {"envelope"}
  OBVIOUS
<1>6. PICK r, q : /\ r = Reports(from, base, made[1], c, "S1")
                  /\ q = [run |-> requests, request |-> request, candidate |-> made[1], report |-> r, altered |-> changed]
  OBVIOUS
<1>7. /\ child # <<>> /\ made # <<>>
      /\ repairs' = repairs \cup {q}
      /\ UNCHANGED <<pinned, request, step, contract, proposal, envelope, child, report, altered, approved>>
  BY <1>1, <1>2, <1>3, <1>4, <1>5, <1>6 DEF FinalizeRepair, runVars
<1>8. /\ FiniteScreens(from) /\ FiniteScreens(base) /\ contract # <<>>
      /\ contract[1].feedback = request.feedback
      /\ Keeps(request.origin, request.source)
      /\ "source" \notin altered => base = request.source
      /\ "child" \notin altered => Untouched(from, request.source, AllowedPathPrefixes)
  BY <1>1, <1>7 DEF RevisionInv, ContractIsOfRequest, FilesAreFinite
<1>9. c.source = from /\ c.feedback = request.feedback /\ c.authority = RepairAuthority
  BY <1>2, <1>8 DEF SpecFeedbackContract
<1>10. FiniteOperations(operations)
  BY <1>3, <1>8, RepairsAreFinite
<1>11. PICK v : made = <<v>>
  BY <1>4, <1>7 DEF MaterializeCandidate
<1>12. FiniteCandidate(v)
  <2>1. MaterializeCandidate(from, c, operations) = <<v>>
    BY <1>4, <1>11, Zenon
  <2>2. FiniteScreens(from)
    BY <1>8
  <2> QED BY ONLY <2>1, <2>2, <1>10, Materialising
<1>13. /\ r = Reports(from, base, v, c, "S1") /\ r.candidate = v /\ r.baseline = base
       /\ q = [run |-> requests, request |-> request, candidate |-> v, report |-> r, altered |-> changed]
  BY <1>6, <1>11 DEF Reports
<1>14. ASSUME Passed(r)
       PROVE  AsRequested(v, request, changed, TRUE) /\ KeptFor(v, base, request, changed, TRUE)
  <2>1. /\ v.contract = c
        /\ AsAsked(c.source, c.feedback, v.operations, c.authority, v.document)
        /\ Keeps(base, v.document)
    BY <1>8, <1>12, <1>13, <1>14, PassedAreAsked
  <2>2. Untouched(v.document, from, RepairAuthority)
    BY <1>9, <2>1 DEF AsAsked
  <2>3. "child" \notin altered => Untouched(v.document, request.source, AllowedPathPrefixes)
    BY <1>8, <2>2, UntouchedOn, RepairsAreWithin
  <2>4. AsRequested(v, request, changed, TRUE)
    BY <1>5, <1>9, <2>1, <2>3 DEF AsAsked, AsRequested
  <2>5. base = request.source => Keeps(request.origin, v.document)
    BY <1>8, <2>1, KeepsOn
  <2> QED BY <1>5, <1>8, <2>1, <2>4, <2>5 DEF KeptFor
<1>15. /\ q = [run |-> q.run, request |-> q.request, candidate |-> q.candidate, report |-> q.report, altered |-> q.altered]
       /\ q.request = request /\ q.candidate = v /\ q.report = r /\ q.altered = changed
  BY <1>13
<1>16. SoundVerdict(q.report, q.request, q.altered, TRUE) /\ q.candidate = q.report.candidate
  BY <1>13, <1>14, <1>15 DEF SoundVerdict
<1>17. FilesAreFinite' /\ FilesAreRecords'
  BY <1>7, <1>12, <1>15 DEF RevisionInv, FilesAreFinite, FilesAreRecords
<1>18. ContractIsOfRequest' /\ ApprovedAreSound'
  BY <1>7 DEF RevisionInv, ContractIsOfRequest, ApprovedAreSound
<1>19. VerdictsAreSound' /\ EnvelopesAreVerified'
  BY <1>7, <1>16 DEF RevisionInv, VerdictsAreSound, EnvelopesAreVerified
<1> QED BY <1>17, <1>18, <1>19 DEF RevisionInv

-----------------------------------------------------------------------------
LEMMA VerdictsStandRewriting ==
  ASSUME NEW r, NEW asked, NEW changed, NEW more, NEW repaired,
         SoundVerdict(r, asked, changed, repaired), changed \subseteq more
  PROVE  SoundVerdict(r, asked, more, repaired)
BY DEF SoundVerdict, AsRequested, KeptFor

LEMMA RewriteStep ==
  ASSUME RevisionInv, Rewrite
  PROVE  RevisionInv'
<1>1. PICK doc \in Sources : RewriteSource(doc) \/ RewriteChild(doc) \/ RewriteEnvelope(doc) \/ RewriteRepair(doc)
  BY DEF Rewrite
<1>2. UNCHANGED <<request, step, contract, proposal, report, approved>> /\ FiniteScreens(doc)
  BY SourcesAreFinite DEF Rewrite
<1>3. ApprovedAreSound'
  BY <1>2 DEF RevisionInv, ApprovedAreSound
<1>4. ASSUME repairs' = repairs, altered \subseteq altered' PROVE VerdictsAreSound'
  BY <1>2, <1>4, VerdictsStandRewriting DEF RevisionInv, VerdictsAreSound
<1>5. CASE RewriteSource(doc)
  <2>1. /\ pinned' = [pinned EXCEPT !.source = doc] /\ altered' = altered \cup {"source"}
        /\ UNCHANGED <<envelope, child, repairs>>
    BY <1>5 DEF RewriteSource
  <2>2. PICK p : p = pinned /\ p = [source |-> p.source, feedback |-> p.feedback]
    BY DEF RevisionInv, FilesAreRecords
  <2>3. pinned' = [source |-> doc, feedback |-> p.feedback]
    BY <2>1, <2>2
  <2>4. pinned'.source = doc /\ pinned' = [source |-> pinned'.source, feedback |-> pinned'.feedback]
    BY <2>3
  <2>5. FilesAreFinite' /\ FilesAreRecords'
    BY <1>2, <2>1, <2>4 DEF RevisionInv, FilesAreFinite, FilesAreRecords
  <2>6. ContractIsOfRequest'
    BY <1>2, <2>1 DEF RevisionInv, ContractIsOfRequest
  <2>7. EnvelopesAreVerified'
    BY <1>2, <2>1 DEF RevisionInv, EnvelopesAreVerified
  <2> QED BY <1>3, <1>4, <2>1, <2>5, <2>6, <2>7 DEF RevisionInv
<1>6. CASE RewriteChild(doc)
  <2>1. /\ child # <<>> /\ child' = <<doc>> /\ altered' = altered \cup {"child"}
        /\ UNCHANGED <<pinned, envelope, repairs>>
    BY <1>6 DEF RewriteChild
  <2>2. FilesAreFinite' /\ FilesAreRecords'
    BY <1>2, <2>1 DEF RevisionInv, FilesAreFinite, FilesAreRecords
  <2>3. ContractIsOfRequest'
    BY <1>2, <2>1 DEF RevisionInv, ContractIsOfRequest
  <2>4. EnvelopesAreVerified'
    BY <1>2, <2>1 DEF RevisionInv, EnvelopesAreVerified
  <2> QED BY <1>3, <1>4, <2>1, <2>2, <2>3, <2>4 DEF RevisionInv
<1>7. CASE RewriteEnvelope(doc)
  <2>1. PICK a \in Altered(envelope[1], doc) :
          /\ envelope # <<>> /\ envelope' = <<a>> /\ altered' = altered \cup {"envelope"}
          /\ UNCHANGED <<pinned, child, repairs>>
    BY <1>7 DEF RewriteEnvelope
  <2>2. PICK e : envelope = <<e>> /\ FiniteCandidate(e)
    BY <2>1 DEF RevisionInv, FilesAreFinite
  <2>3. FiniteCandidate(a)
    BY <1>2, <2>1, <2>2, AlteredAreFinite
  <2>4. FilesAreFinite' /\ FilesAreRecords'
    BY <1>2, <2>1, <2>3 DEF RevisionInv, FilesAreFinite, FilesAreRecords
  <2>5. ContractIsOfRequest'
    BY <1>2, <2>1 DEF RevisionInv, ContractIsOfRequest
  <2>6. EnvelopesAreVerified'
    BY <1>2, <2>1 DEF RevisionInv, EnvelopesAreVerified
  <2> QED BY <1>3, <1>4, <2>1, <2>4, <2>5, <2>6 DEF RevisionInv
<1>8. CASE RewriteRepair(doc)
  <2>1. PICK r, a, q :
          /\ r \in repairs
          /\ a \in Altered(r.candidate, doc)
          /\ q = [r EXCEPT !.candidate = a, !.altered = @ \cup {"envelope"}]
          /\ repairs' = (repairs \ {r}) \cup {q}
          /\ UNCHANGED <<pinned, child, envelope, altered>>
    BY <1>8 DEF RewriteRepair
  <2>2. /\ q = [run |-> q.run, request |-> q.request, candidate |-> q.candidate, report |-> q.report, altered |-> q.altered]
        /\ q.request = r.request /\ q.report = r.report /\ q.candidate = a
        /\ q.altered = r.altered \cup {"envelope"}
    BY <2>1, RewrittenRepairs DEF RevisionInv, FilesAreRecords
  <2>3. FiniteCandidate(r.candidate) /\ SoundVerdict(r.report, r.request, r.altered, TRUE)
    BY <2>1 DEF RevisionInv, FilesAreFinite, VerdictsAreSound
  <2>4. FiniteCandidate(q.candidate)
    BY <1>2, <2>1, <2>2, <2>3, AlteredAreFinite
  <2>5. SoundVerdict(q.report, q.request, q.altered, TRUE)
    BY <2>2, <2>3, VerdictsStandRewriting
  <2>6. FilesAreFinite' /\ FilesAreRecords'
    BY <1>2, <2>1, <2>2, <2>4 DEF RevisionInv, FilesAreFinite, FilesAreRecords
  <2>7. ContractIsOfRequest'
    BY <1>2, <2>1 DEF RevisionInv, ContractIsOfRequest
  <2>8. VerdictsAreSound'
    BY <1>2, <2>1, <2>5 DEF RevisionInv, VerdictsAreSound
  <2>9. EnvelopesAreVerified'
    BY <1>2, <2>1, <2>2 DEF RevisionInv, EnvelopesAreVerified
  <2> QED BY <1>3, <2>6, <2>7, <2>8, <2>9 DEF RevisionInv
<1> QED BY <1>1, <1>5, <1>6, <1>7, <1>8

LEMMA RevisionStep == RevisionInv /\ [SpecNext]_specVars => RevisionInv'
<1> SUFFICES ASSUME RevisionInv, [SpecNext]_specVars PROVE RevisionInv'
  OBVIOUS
<1>1. CASE UNCHANGED specVars
  <2>1. UNCHANGED <<pinned, request, step, contract, proposal, envelope, child, report, altered, repairs, approved>>
    BY <1>1 DEF specVars, runVars
  <2>2. FiniteOperations(proposal)' /\ ContractIsOfRequest'
    BY <2>1 DEF RevisionInv, FilesAreFinite, ContractIsOfRequest
  <2> QED BY <2>1, <2>2, QuietStep
<1> QED BY <1>1, PrepareStep, CompileStep, ProposeStep, MaterializeStep, VerifyStep, ApproveStep, RepairStep,
           ApproveRepairStep, RewriteStep DEF SpecNext

LEMMA RevisionsHold == RevisionSpec => []RevisionInv
BY RevisionInit, RevisionStep, PTL DEF RevisionSpec

\* What approveSpecRevision is shown a passed verdict of is the pinned Spec with operations
\* that its feedback asks for, within the contract's authority, or a repair of what that
\* led to; and it approves that and nothing else if nobody rewrote the envelope.  For
\* patches of any length, and whatever else is rewritten at any time.
THEOREM ApprovalsAreAsked == RevisionSpec => []ApprovedIsWhatWasAsked
<1>1. RevisionInv => ApprovedIsWhatWasAsked
  BY DEF RevisionInv, ApprovedAreSound, AsRequested, ApprovedIsWhatWasAsked
<1> QED BY <1>1, RevisionsHold, PTL

\* Whatever the operations, no named record of the document that a line of revisions
\* started from is missing in what the next approval of the line was verified for: a run
\* always measures by what was requested, a repair unless the pinned Spec was rewritten.
THEOREM RevisionsLoseNothing == RevisionSpec => []NothingIsLost
<1>1. RevisionInv => NothingIsLost
  BY DEF RevisionInv, ApprovedAreSound, KeptFor, NothingIsLost
<1> QED BY <1>1, RevisionsHold, PTL

-----------------------------------------------------------------------------
\* spec-to-demo: from a prepared demo to its delivery.

PreparedAreCompiled ==
  \A p \in prepared :
    /\ p.input \in Inputs /\ p.document \in Documents
    /\ PrepareSpecToDemo(p.input, p.document) = <<p>>

\* The files that the runtime made of p's brief are in w as they were.
RuntimeFilesOf(p, w) ==
  \A path \in DOMAIN p.scaffold :
    p.scaffold[path].owner = "runtime" => path \in DOMAIN w /\ w[path] = p.scaffold[path] /\ ~w[path].mutable

WorkspacesAreGenerated == \A w \in workspaces : \E p \in prepared : RuntimeFilesOf(p, w)

AreRecords(records) == \A r \in records : r = [key |-> r.key, status |-> r.status]
FixturesAreRecords == \A b \in fixtures : AreRecords(b.records)

EvidenceIsMade ==
  \A e \in evidence :
    /\ AreRecords(e.records)
    /\ \E p \in prepared :
         /\ e.verifier = p.hidden.verifier
         /\ e.outcome = "passed" =>
              \A o \in p.hidden.contract.obligations : RunnerPasses(o, e.records, e.product[App].content)

DeliveriesAreProven ==
  \A d \in deliveries :
    /\ d.prepared \in prepared /\ d.product \in workspaces /\ d.evidence \subseteq evidence
    /\ \A e \in d.evidence : AcceptsEvidence(d.prepared, d.product, d.place, e)
    /\ d.evidence # {}
    /\ d.passed = {r.id : r \in d.prepared.contract.requirements}

DeliveryInv ==
  /\ PreparedAreCompiled /\ WorkspacesAreGenerated /\ FixturesAreRecords /\ EvidenceIsMade /\ DeliveriesAreProven

-----------------------------------------------------------------------------
LEMMA WhatIsPrepared ==
  ASSUME NEW input, NEW doc, NEW p, PrepareSpecToDemo(input, doc) = <<p>>
  PROVE  \E scope, requirements :
           /\ CompileScopeContract(input, doc) = <<scope>>
           /\ requirements = CompileRequirementContract(doc, scope)
           /\ p.input = input /\ p.document = doc
           /\ p.contract = CompileAcceptanceContract(requirements, scope)
           /\ p.hidden = PackageHiddenVerifier(p.contract)
           /\ p.scaffold = CreateReactViteScaffold(CreatePublicBrief(requirements, scope))
           /\ p.plan = CreateVerificationPlan
           /\ CompileDemoBundleManifest(CompileSpecDemoBundle(doc, scope)) = <<p.manifest>>
<1>1. PICK compiled : compiled = CompileScopeContract(input, doc)
  OBVIOUS
<1>2. compiled # Without
  BY <1>1 DEF PrepareSpecToDemo, Without
<1>3. PICK scope : compiled = <<scope>>
  BY <1>1, <1>2 DEF CompileScopeContract, Only
<1>4. PICK requirements, manifest, accepted, brief :
        /\ requirements = CompileRequirementContract(doc, scope)
        /\ manifest = CompileDemoBundleManifest(CompileSpecDemoBundle(doc, scope))
        /\ accepted = CompileAcceptanceContract(requirements, scope)
        /\ brief = CreatePublicBrief(requirements, scope)
  OBVIOUS
<1>5. PrepareSpecToDemo(input, doc) =
        Only(manifest # Without,
             [input |-> input, document |-> doc, contract |-> accepted, brief |-> brief,
              hidden |-> PackageHiddenVerifier(accepted), scaffold |-> CreateReactViteScaffold(brief),
              plan |-> CreateVerificationPlan, manifest |-> manifest[1]])
  BY <1>1, <1>2, <1>3, <1>4 DEF PrepareSpecToDemo
<1>6. /\ manifest # Without
      /\ p = [input |-> input, document |-> doc, contract |-> accepted, brief |-> brief,
              hidden |-> PackageHiddenVerifier(accepted), scaffold |-> CreateReactViteScaffold(brief),
              plan |-> CreateVerificationPlan, manifest |-> manifest[1]]
  BY <1>5 DEF Only, Without
<1>7. PICK made : manifest = <<made>>
  BY <1>4, <1>6 DEF CompileDemoBundleManifest, Only
<1>8. manifest = <<manifest[1]>>
  BY <1>7
<1>9. /\ p.input = input /\ p.document = doc /\ p.contract = accepted
      /\ p.hidden = PackageHiddenVerifier(accepted) /\ p.scaffold = CreateReactViteScaffold(brief)
      /\ p.plan = CreateVerificationPlan /\ p.manifest = manifest[1]
  BY <1>6
<1> QED BY <1>1, <1>3, <1>4, <1>8, <1>9

\* The prepared demos and their scaffolds, one at a time.
LEMMA RuntimeFilesAreFixed ==
  ASSUME NEW input, NEW doc, NEW p, PrepareSpecToDemo(input, doc) = <<p>>
  PROVE  RuntimeFilesOf(p, p.scaffold)
<1>1. PICK brief : p.scaffold = CreateReactViteScaffold(brief)
  BY WhatIsPrepared
<1>2. ASSUME NEW path \in DOMAIN p.scaffold, p.scaffold[path].owner = "runtime"
      PROVE  ~p.scaffold[path].mutable
  <2>1. \/ p.scaffold[path] = [content |-> {}, owner |-> "builder", mutable |-> TRUE]
        \/ p.scaffold[path] = [content |-> {"generated"}, owner |-> "public_test", mutable |-> TRUE]
        \/ p.scaffold[path] = RuntimeFile(brief.requirements)
        \/ p.scaffold[path] = RuntimeFile({"generated"})
    BY <1>1 DEF CreateReactViteScaffold
  <2> QED BY <1>2, <2>1 DEF RuntimeFile
<1> QED BY <1>2 DEF RuntimeFilesOf

LEMMA DeliveryInitInv == DeliveryInit => DeliveryInv
BY DEF DeliveryInit, DeliveryInv, PreparedAreCompiled, WorkspacesAreGenerated, FixturesAreRecords, EvidenceIsMade,
       DeliveriesAreProven

\* What stays when more is prepared and made.
LEMMA MoreIsPrepared ==
  ASSUME DeliveryInv, prepared \subseteq prepared', workspaces \subseteq workspaces', evidence \subseteq evidence',
         deliveries' = deliveries
  PROVE  /\ \A w \in workspaces : \E p \in prepared' : RuntimeFilesOf(p, w)
         /\ DeliveriesAreProven'
BY DEF DeliveryInv, WorkspacesAreGenerated, DeliveriesAreProven

LEMMA PreparingStep ==
  ASSUME DeliveryInv, NEW input \in Inputs, NEW doc \in Documents, Prepare(input, doc)
  PROVE  DeliveryInv'
<1>1. PICK p \in ToSet(PrepareSpecToDemo(input, doc)) :
        /\ prepared' = prepared \cup {p}
        /\ workspaces' = workspaces \cup {p.scaffold}
  BY DEF Prepare
<1>2. UNCHANGED <<fixtures, evidence, deliveries>>
  BY DEF Prepare
<1>3. PrepareSpecToDemo(input, doc) = <<p>>
  <2>1. PICK all : all = PrepareSpecToDemo(input, doc)
    OBVIOUS
  <2>2. all = <<>> \/ \E q : all = <<q>>
    BY <2>1 DEF PrepareSpecToDemo, Only, Without
  <2>3. p \in ToSet(all)
    BY <1>1, <2>1
  <2> QED BY <2>1, <2>2, <2>3 DEF ToSet
<1>4. PreparedAreCompiled'
  BY <1>1, <1>3, WhatIsPrepared DEF PreparedAreCompiled, DeliveryInv
<1>5. WorkspacesAreGenerated'
  BY <1>1, <1>2, <1>3, MoreIsPrepared, RuntimeFilesAreFixed DEF WorkspacesAreGenerated
<1>6. EvidenceIsMade'
  BY <1>1, <1>2 DEF EvidenceIsMade, DeliveryInv
<1>7. FixturesAreRecords' /\ DeliveriesAreProven'
  BY <1>1, <1>2, MoreIsPrepared DEF FixturesAreRecords, DeliveryInv
<1> QED BY <1>4, <1>5, <1>6, <1>7 DEF DeliveryInv

LEMMA BuildingStep ==
  ASSUME DeliveryInv, NEW p \in prepared, NEW w \in workspaces, NEW patch, Build(p, w, patch)
  PROVE  DeliveryInv'
<1>1. PICK made \in ToSet(ApplyBuilderPatch(w, p.brief, patch)) : workspaces' = workspaces \cup {made}
  BY DEF Build
<1>2. UNCHANGED <<prepared, fixtures, evidence, deliveries>>
  BY DEF Build
<1>3. PICK written : written = {f.path : f \in ToSet(patch.files)}
  OBVIOUS
<1>4. /\ \A path \in written : path \in DOMAIN w => w[path].mutable
      /\ DOMAIN made = written \cup DOMAIN w
      /\ \A path \in DOMAIN w \ written : made[path] = w[path]
  <2>1. PICK all : all = ApplyBuilderPatch(w, p.brief, patch)
    OBVIOUS
  <2>0. PICK next : next = [path \in written \cup DOMAIN w |->
             IF path \in written
             THEN [content |-> (CHOOSE f \in ToSet(patch.files) : f.path = path).content,
                   owner |-> IF path[1] = "public-tests" THEN "public_test" ELSE "builder", mutable |-> TRUE]
             ELSE w[path]]
    OBVIOUS
  <2>2. all = <<>> \/ (all = <<next>> /\ \A path \in written : path \in DOMAIN w => w[path].mutable)
    BY <1>3, <2>0, <2>1 DEF ApplyBuilderPatch, Only, Without
  <2>3. made \in {all[i] : i \in DOMAIN all}
    BY <1>1, <2>1 DEF ToSet
  <2>4. all = <<next>> /\ \A path \in written : path \in DOMAIN w => w[path].mutable
    BY <2>2, <2>3
  <2>5. made = next
    BY <2>3, <2>4
  <2>6. DOMAIN next = written \cup DOMAIN w /\ \A path \in DOMAIN w \ written : next[path] = w[path]
    BY <2>0
  <2> QED BY <2>4, <2>5, <2>6
<1>5. PICK q \in prepared : RuntimeFilesOf(q, w)
  BY DEF DeliveryInv, WorkspacesAreGenerated
<1>6. RuntimeFilesOf(q, made)
  BY <1>4, <1>5 DEF RuntimeFilesOf
<1>7. WorkspacesAreGenerated'
  BY <1>1, <1>2, <1>5, <1>6 DEF WorkspacesAreGenerated, DeliveryInv
<1>8. DeliveriesAreProven'
  BY <1>1, <1>2, MoreIsPrepared
<1> QED BY <1>2, <1>7, <1>8 DEF DeliveryInv, PreparedAreCompiled, FixturesAreRecords, EvidenceIsMade

LEMMA BundlingStep ==
  ASSUME DeliveryInv, NEW p \in prepared, NEW records \in FixtureLists, BundleFixtures(p, records)
  PROVE  DeliveryInv'
<1>1. PICK b \in ToSet(CreateFixtureBundle(p.contract, records)) : fixtures' = fixtures \cup {b}
  BY DEF BundleFixtures
<1>2. UNCHANGED <<prepared, workspaces, evidence, deliveries>>
  BY DEF BundleFixtures
<1>3. b.records = ToSet(records)
  <2>1. PICK all : all = CreateFixtureBundle(p.contract, records)
    OBVIOUS
  <2>2. all = <<>> \/ all = <<[contract |-> p.contract, records |-> ToSet(records)]>>
    BY <2>1 DEF CreateFixtureBundle, Only, Without
  <2>3. b \in {all[i] : i \in DOMAIN all}
    BY <1>1, <2>1 DEF ToSet
  <2>4. b = [contract |-> p.contract, records |-> ToSet(records)]
    BY <2>2, <2>3
  <2> QED BY <2>4
<1>4. FixturesAreRecords'
  BY <1>1, <1>3, FixtureAssumption DEF FixturesAreRecords, AreRecords, DeliveryInv
<1> QED BY <1>2, <1>4 DEF DeliveryInv, PreparedAreCompiled, WorkspacesAreGenerated, EvidenceIsMade, DeliveriesAreProven

LEMMA VerifyingStep ==
  ASSUME DeliveryInv, NEW p \in prepared, NEW w \in workspaces, NEW place, NEW lost,
         NEW records \in {{}} \cup {b.records : b \in fixtures}, Verify(p, w, place, records, lost)
  PROVE  DeliveryInv'
<1>1. PICK passes : passes = \A o \in p.hidden.contract.obligations : RunnerPasses(o, records, w[App].content)
  OBVIOUS
<1>2. PICK e : e = [place |-> place, product |-> w, verifier |-> p.hidden.verifier,
                    outcome |-> IF passes THEN "passed" ELSE "failed",
                    reports |-> {c.evidence : c \in p.plan} \ lost, records |-> records]
  OBVIOUS
<1>3. evidence' = evidence \cup {e} /\ UNCHANGED <<prepared, workspaces, fixtures, deliveries>>
  BY <1>1, <1>2 DEF Verify
<1>4. AreRecords(records)
  BY DEF AreRecords, FixturesAreRecords, DeliveryInv
<1>5. /\ e.records = records /\ e.product = w /\ e.verifier = p.hidden.verifier
      /\ e.outcome = "passed" => passes
  BY <1>2
<1>6. EvidenceIsMade'
  BY <1>1, <1>3, <1>4, <1>5 DEF EvidenceIsMade, DeliveryInv
<1>7. DeliveriesAreProven'
  BY <1>3, MoreIsPrepared
<1> QED BY <1>3, <1>6, <1>7 DEF DeliveryInv, PreparedAreCompiled, WorkspacesAreGenerated, FixturesAreRecords

LEMMA DeliveringStep ==
  ASSUME DeliveryInv, NEW p \in prepared, NEW w \in workspaces, NEW place, NEW bundles \in SUBSET evidence,
         PackageDemoDelivery(p, w, place, bundles)
  PROVE  DeliveryInv'
<1>1. PICK d : d = [prepared |-> p, product |-> w, place |-> place, evidence |-> bundles,
                    passed |-> {r.id : r \in p.contract.requirements}]
  OBVIOUS
<1>2. /\ deliveries' = deliveries \cup {d} /\ bundles # {}
      /\ \A e \in bundles : AcceptsEvidence(p, w, place, e)
      /\ UNCHANGED <<prepared, workspaces, fixtures, evidence>>
  BY <1>1 DEF PackageDemoDelivery
<1>3. /\ d.prepared = p /\ d.product = w /\ d.place = place /\ d.evidence = bundles
      /\ d.passed = {r.id : r \in p.contract.requirements}
  BY <1>1
<1>4. DeliveriesAreProven'
  BY <1>2, <1>3 DEF DeliveriesAreProven, DeliveryInv
<1> QED BY <1>2, <1>4 DEF DeliveryInv, PreparedAreCompiled, WorkspacesAreGenerated, FixturesAreRecords, EvidenceIsMade

LEMMA DeliveryStep == DeliveryInv /\ [DeliveryNext]_deliveryVars => DeliveryInv'
<1> SUFFICES ASSUME DeliveryInv, [DeliveryNext]_deliveryVars PROVE DeliveryInv'
  OBVIOUS
<1>1. CASE UNCHANGED deliveryVars
  BY <1>1 DEF deliveryVars, DeliveryInv, PreparedAreCompiled, WorkspacesAreGenerated, FixturesAreRecords,
              EvidenceIsMade, DeliveriesAreProven
<1>2. CASE \E input \in Inputs, doc \in Documents : Prepare(input, doc)
  BY <1>2, PreparingStep
<1>3. CASE \E p \in prepared : \E w \in workspaces, patch \in Patches : Build(p, w, patch)
  BY <1>3, BuildingStep
<1>4. CASE \E p \in prepared : \E records \in FixtureLists : BundleFixtures(p, records)
  BY <1>4, BundlingStep
<1>5. CASE \E p \in prepared : \E w \in workspaces, place \in Places, lost \in {{}, {"a11y-report"}},
             records \in {{}} \cup {b.records : b \in fixtures} : Verify(p, w, place, records, lost)
  BY <1>5, VerifyingStep
<1>6. CASE \E p \in prepared : \E w \in workspaces, place \in Places, bundles \in SUBSET evidence :
             PackageDemoDelivery(p, w, place, bundles)
  BY <1>6, DeliveringStep
<1> QED BY <1>1, <1>2, <1>3, <1>4, <1>5, <1>6 DEF DeliveryNext

LEMMA DeliveriesHold == DeliverySpec => []DeliveryInv
BY DeliveryInitInv, DeliveryStep, PTL DEF DeliverySpec

-----------------------------------------------------------------------------
\* The scope of a document that is sound: what was asked for, and only that.

LEMMA SoundScope ==
  ASSUME NEW input \in Inputs, NEW doc, NEW scope, CompileScopeContract(input, doc) = <<scope>>
  PROVE  \E keys :
           /\ DocumentIsSound(doc)
           /\ keys = UNION {KeysFor(doc, s) : s \in Selectors(input, doc)}
           /\ scope.keys = keys
           /\ scope.included = {s.id : s \in {t \in ToSet(doc.screens) : KeysOf(t) \cap keys # {}}}
<1>1. PICK keys, included :
        /\ keys = UNION {KeysFor(doc, s) : s \in Selectors(input, doc)}
        /\ included = {s.id : s \in {t \in ToSet(doc.screens) : KeysOf(t) \cap keys # {}}}
  OBVIOUS
<1>2. /\ DocumentIsSound(doc)
      /\ scope = [document |-> doc.id, artifact |-> doc.artifact, included |-> included,
                  excluded |-> Names(doc.screens) \ included, keys |-> keys, groups |-> input.groups,
                  request |-> input.request]
  BY <1>1 DEF CompileScopeContract, Only, Without
<1> QED BY <1>1, <1>2

\* Screens go by one name each, and a key is of one screen.
LEMMA ScreensAreApart ==
  ASSUME NEW doc, DocumentIsSound(doc)
  PROVE  /\ \A s, t \in ToSet(doc.screens) : s.id = t.id => s = t
         /\ \A s, t \in ToSet(doc.screens) : KeysOf(s) \cap KeysOf(t) # {} => s = t
<1>1. PICK screens : screens = doc.screens
  OBVIOUS
<1>2. ASSUME NEW s \in ToSet(screens), NEW t \in ToSet(screens), s.id = t.id PROVE s = t
  <2>1. PICK i \in DOMAIN screens : s = screens[i]
    BY DEF ToSet
  <2>2. PICK j \in DOMAIN screens : t = screens[j]
    BY DEF ToSet
  <2> QED BY <1>1, <1>2, <2>1, <2>2 DEF DocumentIsSound, Distinct
<1>3. ASSUME NEW s \in ToSet(screens), NEW t \in ToSet(screens), KeysOf(s) \cap KeysOf(t) # {} PROVE s = t
  <2>1. PICK i \in DOMAIN screens : s = screens[i]
    BY DEF ToSet
  <2>2. PICK j \in DOMAIN screens : t = screens[j]
    BY DEF ToSet
  <2>3. PICK k \in DOMAIN s.requirements, l \in DOMAIN t.requirements :
          s.requirements[k].key = t.requirements[l].key
    BY <1>3 DEF KeysOf, ToSet
  <2>4. i = j
    BY <1>1, <2>1, <2>2, <2>3 DEF DocumentIsSound
  <2> QED BY <2>1, <2>2, <2>4
<1> QED BY <1>1, <1>2, <1>3

LEMMA SelectorsAreSequences ==
  ASSUME NEW input \in Inputs, NEW doc, NEW selector \in Selectors(input, doc)
  PROVE  (\E a : selector = <<a>>) \/ (\E a, b : selector = <<a, b>>)
<1>1. CASE selector \in input.selected
  <2>1. selector \in Seq(ToSet(selector)) /\ Len(selector) \in {1, 2}
    BY <1>1, SelectionAssumption
  <2>2. CASE Len(selector) = 1
    <3>1. selector = <<selector[1]>>
      BY <2>1, <2>2
    <3> QED BY <3>1
  <2>3. CASE Len(selector) = 2
    <3>1. selector = <<selector[1], selector[2]>>
      BY <2>1, <2>3
    <3> QED BY <3>1
  <2> QED BY <2>1, <2>2, <2>3
<1>2. CASE selector \notin input.selected
  BY <1>2 DEF Selectors
<1> QED BY <1>1, <1>2

LEMMA KeysAreAskedFor ==
  ASSUME NEW input \in Inputs, NEW doc, DocumentIsSound(doc),
         NEW s \in ToSet(doc.screens), NEW r \in ToSet(s.requirements)
  PROVE  r.key \in UNION {KeysFor(doc, q) : q \in Selectors(input, doc)} <=> AskedFor(input, doc, s, r)
<1> DEFINE keys == UNION {KeysFor(doc, q) : q \in Selectors(input, doc)}
<1>1. r.key \in KeysOf(s) /\ s.id \in Names(doc.screens) /\ r.key \in DocumentKeys(doc)
  BY DEF KeysOf, Names, DocumentKeys
<1>2. ASSUME NEW id \in Names(doc.screens)
      PROVE  /\ KeysFor(doc, <<id>>) = KeysOf(ScreenOf(doc, id))
             /\ ScreenOf(doc, id) \in ToSet(doc.screens) /\ ScreenOf(doc, id).id = id
  <2>1. \E t \in ToSet(doc.screens) : t.id = id
    BY <1>2 DEF Names
  <2>2. ScreenOf(doc, id) \in ToSet(doc.screens) /\ ScreenOf(doc, id).id = id
    BY <2>1 DEF ScreenOf
  <2>3. IsScreen(doc, <<id>>)
    BY <1>2 DEF IsScreen
  <2> QED BY <2>2, <2>3 DEF KeysFor
<1>3. ASSUME NEW id, id \notin Names(doc.screens)
      PROVE  KeysFor(doc, <<id>>) = DocumentKeys(doc) \cap {id}
  BY <1>3 DEF KeysFor, IsScreen
<1>4. ASSUME NEW id, NEW key
      PROVE  KeysFor(doc, <<id, key>>) = UNION {KeysOf(t) \cap {key} : t \in {u \in ToSet(doc.screens) : u.id = id}}
  BY DEF KeysFor, IsScreen
<1>5. ASSUME AskedFor(input, doc, s, r) PROVE r.key \in keys
  <2>1. CASE <<s.id>> \in Selectors(input, doc)
    <3>1. ScreenOf(doc, s.id) = s
      BY <1>1, <1>2, ScreensAreApart
    <3>2. r.key \in KeysFor(doc, <<s.id>>)
      BY <1>1, <1>2, <3>1
    <3> QED BY <2>1, <3>2
  <2>2. CASE <<r.key>> \in Selectors(input, doc) /\ r.key \notin Names(doc.screens)
    <3>1. r.key \in KeysFor(doc, <<r.key>>)
      BY <1>1, <1>3, <2>2
    <3> QED BY <2>2, <3>1
  <2>3. CASE <<s.id, r.key>> \in Selectors(input, doc)
    <3>1. r.key \in KeysFor(doc, <<s.id, r.key>>)
      BY <1>1, <1>4
    <3> QED BY <2>3, <3>1
  <2> QED BY <1>5, <2>1, <2>2, <2>3 DEF AskedFor
<1>6. ASSUME r.key \in keys PROVE AskedFor(input, doc, s, r)
  <2>1. PICK selector \in Selectors(input, doc) : r.key \in KeysFor(doc, selector)
    BY <1>6
  <2>2. ASSUME NEW id, selector = <<id>>, id \in Names(doc.screens) PROVE AskedFor(input, doc, s, r)
    <3>1. r.key \in KeysOf(ScreenOf(doc, id))
      BY <1>2, <2>1, <2>2
    <3>2. ScreenOf(doc, id) = s
      BY <1>1, <1>2, <2>2, <3>1, ScreensAreApart
    <3>3. id = s.id
      BY <1>2, <2>2, <3>2
    <3> QED BY <2>1, <2>2, <3>3 DEF AskedFor
  <2>3. ASSUME NEW id, selector = <<id>>, id \notin Names(doc.screens) PROVE AskedFor(input, doc, s, r)
    <3>1. r.key = id
      BY <1>3, <2>1, <2>3
    <3> QED BY <2>1, <2>3, <3>1 DEF AskedFor
  <2>4. ASSUME NEW id, NEW key, selector = <<id, key>> PROVE AskedFor(input, doc, s, r)
    <3>1. PICK t \in ToSet(doc.screens) : t.id = id /\ r.key \in KeysOf(t) /\ r.key = key
      BY <1>4, <2>1, <2>4
    <3>2. t = s
      BY <1>1, <3>1, ScreensAreApart
    <3> QED BY <2>1, <2>4, <3>1, <3>2 DEF AskedFor
  <2> QED BY <2>1, <2>2, <2>3, <2>4, SelectorsAreSequences
<1> QED BY <1>5, <1>6

-----------------------------------------------------------------------------
LEMMA CompiledRequirements ==
  ASSUME NEW doc, NEW keys, NEW s \in ToSet(doc.screens), NEW r \in {q \in ToSet(s.requirements) : q.key \in keys}
  PROVE  [id |-> <<doc.id, s.id, r.key>>, screen |-> s.id, route |-> s.route, requirement |-> r] \in
           UNION {{[id |-> <<doc.id, t.id, q.key>>, screen |-> t.id, route |-> t.route, requirement |-> q] :
                     q \in {x \in ToSet(t.requirements) : x.key \in keys}} : t \in ToSet(doc.screens)}
<1> DEFINE Of(t) == {[id |-> <<doc.id, t.id, q.key>>, screen |-> t.id, route |-> t.route, requirement |-> q] :
                       q \in {x \in ToSet(t.requirements) : x.key \in keys}}
<1>1. [id |-> <<doc.id, s.id, r.key>>, screen |-> s.id, route |-> s.route, requirement |-> r] \in Of(s)
  OBVIOUS
<1>2. \A x \in Of(s) : x \in UNION {Of(t) : t \in ToSet(doc.screens)}
  <2> HIDE DEF Of
  <2> QED OBVIOUS
<1> QED BY <1>1, <1>2

LEMMA RequiredChecks == {c.evidence : c \in {k \in CreateVerificationPlan : k.required}} \subseteq RequiredEvidence
BY DEF CreateVerificationPlan, Check, RequiredEvidence

\* packageDemoDelivery delivers only what a verifier saw pass every requirement asked for
\* in that document, and the delivery names these requirements and their screens: for any
\* documents, requests, builder's patches and fixtures.
THEOREM DeliveriesAreOfProvenProducts == DeliverySpec => []DeliveredIsProven
<1>1. ASSUME DeliveryInv PROVE DeliveredIsProven
  <2> SUFFICES ASSUME NEW d \in deliveries, NEW p, p = d.prepared PROVE ProvenFor(d, p)
    BY DEF DeliveredIsProven
  <2> DEFINE input == p.input
             doc == p.document
  <2>1. /\ p \in prepared /\ d.product \in workspaces /\ d.evidence \subseteq evidence /\ d.evidence # {}
        /\ \A e \in d.evidence : AcceptsEvidence(p, d.product, d.place, e)
        /\ d.passed = {r.id : r \in p.contract.requirements}
        /\ input \in Inputs /\ PrepareSpecToDemo(input, doc) = <<p>>
    BY <1>1 DEF DeliveryInv, DeliveriesAreProven, PreparedAreCompiled
  <2>2. PICK scope, requirements :
          /\ CompileScopeContract(input, doc) = <<scope>>
          /\ requirements = CompileRequirementContract(doc, scope)
          /\ p.contract = CompileAcceptanceContract(requirements, scope)
          /\ p.hidden = PackageHiddenVerifier(p.contract)
          /\ p.plan = CreateVerificationPlan
          /\ CompileDemoBundleManifest(CompileSpecDemoBundle(doc, scope)) = <<p.manifest>>
    BY <2>1, WhatIsPrepared
  <2>3. PICK keys :
          /\ DocumentIsSound(doc)
          /\ keys = UNION {KeysFor(doc, s) : s \in Selectors(input, doc)}
          /\ scope.keys = keys
          /\ scope.included = {s.id : s \in {t \in ToSet(doc.screens) : KeysOf(t) \cap keys # {}}}
    BY <2>1, <2>2, SoundScope
  <2> DEFINE Asked(s) == AskedRequirements(input, doc, s)
             screens == AskedScreens(input, doc)
  <2>4. /\ \A s \in ToSet(doc.screens) : Asked(s) = {r \in ToSet(s.requirements) : r.key \in keys}
        /\ screens = {s \in ToSet(doc.screens) : Asked(s) # {}}
    BY <2>1, <2>3, KeysAreAskedFor DEF AskedRequirements, AskedScreens
  <2> HIDE DEF Asked, screens
  <2>5. requirements =
          UNION {{[id |-> <<doc.id, s.id, r.key>>, screen |-> s.id, route |-> s.route, requirement |-> r] :
                    r \in {q \in ToSet(s.requirements) : q.key \in keys}} : s \in ToSet(doc.screens)}
    BY <2>2, <2>3 DEF CompileRequirementContract
  <2>6. /\ p.contract.requirements = requirements
        /\ p.contract.obligations = {Obligation(r) : r \in requirements}
    BY <2>2 DEF CompileAcceptanceContract
  <2>7. ASSUME NEW e \in d.evidence
        PROVE  /\ AreRecords(e.records)
               /\ \A o \in p.contract.obligations : RunnerPasses(o, e.records, d.product[App].content)
               /\ RequiredEvidence \subseteq e.reports
    <3>1. /\ e \in evidence /\ e.product = d.product /\ e.verifier.policy = p.hidden.verifier.policy
          /\ e.outcome = "passed" /\ e.verifier.required \subseteq e.reports
      BY <2>1, <2>7 DEF AcceptsEvidence
    <3>2. AreRecords(e.records)
      BY <1>1, <3>1 DEF DeliveryInv, EvidenceIsMade
    <3>3. PICK other \in prepared :
            /\ e.verifier = other.hidden.verifier
            /\ \A o \in other.hidden.contract.obligations : RunnerPasses(o, e.records, e.product[App].content)
      BY <1>1, <3>1 DEF DeliveryInv, EvidenceIsMade
    <3>4. other.hidden = PackageHiddenVerifier(other.contract)
      <4>1. PrepareSpecToDemo(other.input, other.document) = <<other>>
        BY <1>1, <3>3 DEF DeliveryInv, PreparedAreCompiled
      <4> QED BY <4>1, WhatIsPrepared
    <3>5. /\ other.hidden.contract = other.contract /\ other.hidden.verifier.policy = other.contract
          /\ other.hidden.verifier.required = RequiredEvidence
          /\ p.hidden.verifier.policy = p.contract
      BY <2>2, <3>4 DEF PackageHiddenVerifier
    <3>6. other.contract = p.contract
      BY <3>1, <3>3, <3>5
    <3> QED BY <3>1, <3>2, <3>3, <3>5, <3>6
  <2>8. ASSUME NEW s \in screens, NEW r \in Asked(s)
        PROVE  /\ \A q \in {o \in r.oracles : o.type # "network"} : q.value \in d.product[App].content
               /\ \A e \in d.evidence : \A q \in {o \in r.oracles : o.type = "network"} :
                    [key |-> q.fixture, status |-> q.value] \in e.records
    <3>1. PICK c \in requirements : c.requirement = r
      <4>1. s \in ToSet(doc.screens) /\ r \in {q \in ToSet(s.requirements) : q.key \in keys}
        BY <2>4, <2>8
      <4>2. PICK c : c = [id |-> <<doc.id, s.id, r.key>>, screen |-> s.id, route |-> s.route, requirement |-> r]
        OBVIOUS
      <4> QED BY <2>5, <4>1, <4>2, CompiledRequirements
    <3>2. PICK o : o = Obligation(c)
      OBVIOUS
    <3>3. o \in p.contract.obligations /\ o.oracles = r.oracles
      BY <2>6, <3>1, <3>2 DEF Obligation
    <3>4. ASSUME NEW e \in d.evidence, NEW q \in r.oracles
          PROVE  IF q.type = "network" THEN \E x \in e.records : x.key = q.fixture /\ x.status = q.value
                 ELSE q.value \in d.product[App].content
      BY <2>7, <3>3 DEF RunnerPasses
    <3>5. ASSUME NEW e \in d.evidence, NEW q \in r.oracles, q.type = "network"
          PROVE  [key |-> q.fixture, status |-> q.value] \in e.records
      <4>1. PICK x \in e.records : x.key = q.fixture /\ x.status = q.value
        BY <3>4, <3>5
      <4>2. x = [key |-> x.key, status |-> x.status]
        BY <2>7, <3>5 DEF AreRecords
      <4>3. x = [key |-> q.fixture, status |-> q.value]
        BY <4>1, <4>2
      <4> QED BY <4>3
    <3>6. ASSUME NEW q \in r.oracles, q.type # "network" PROVE q.value \in d.product[App].content
      BY <2>1, <3>4, <3>6
    <3> QED BY <3>5, <3>6
  <2>9. d.passed = UNION {{<<doc.id, s.id, r.key>> : r \in Asked(s)} : s \in screens}
    <3>1. ASSUME NEW id \in d.passed PROVE \E s \in screens : \E r \in Asked(s) : id = <<doc.id, s.id, r.key>>
      <4>1. PICK c \in requirements : id = c.id
        BY <2>1, <2>6
      <4>2. PICK s \in ToSet(doc.screens) : \E r \in ToSet(s.requirements) : r.key \in keys /\ c.id = <<doc.id, s.id, r.key>>
        BY <2>5, <4>1
      <4>3. PICK r \in ToSet(s.requirements) : r.key \in keys /\ c.id = <<doc.id, s.id, r.key>>
        BY <4>2
      <4>4. r \in Asked(s)
        BY <2>4, <4>3
      <4>5. s \in screens
        BY <2>4, <4>4
      <4> QED BY <4>1, <4>3, <4>4, <4>5
    <3>2. ASSUME NEW s \in screens, NEW r \in Asked(s) PROVE <<doc.id, s.id, r.key>> \in d.passed
      <4>1. s \in ToSet(doc.screens) /\ r \in {q \in ToSet(s.requirements) : q.key \in keys}
        BY <2>4, <3>2
      <4>2. PICK c : c = [id |-> <<doc.id, s.id, r.key>>, screen |-> s.id, route |-> s.route, requirement |-> r]
        OBVIOUS
      <4>3. PICK of : of = {[id |-> <<doc.id, s.id, q.key>>, screen |-> s.id, route |-> s.route, requirement |-> q] :
                              q \in {x \in ToSet(s.requirements) : x.key \in keys}}
        OBVIOUS
      <4>4. c \in of
        BY ONLY <4>1, <4>2, <4>3
      <4>5. of \subseteq requirements
        BY ONLY <2>5, <4>1, <4>3
      <4> QED BY <2>1, <2>6, <4>2, <4>4, <4>5
    <3> QED BY <3>1, <3>2
  <2>10. {s.id : s \in p.manifest.screens} = {s.id : s \in screens}
    <3>1. PICK draft : draft = CompileSpecDemoBundle(doc, scope)
      OBVIOUS
    <3>2. p.manifest = draft
      BY <2>2, <3>1 DEF CompileDemoBundleManifest, Only, Without
    <3>3. /\ \A x \in draft.screens : \E s \in {t \in ToSet(doc.screens) : t.id \in scope.included} : x.id = s.id
          /\ \A s \in {t \in ToSet(doc.screens) : t.id \in scope.included} : \E x \in draft.screens : x.id = s.id
      <4>1. draft.screens = {[id |-> s.id, route |-> s.route, groups |-> GroupsOf(BundleGroups(doc, scope), s.id)] :
                               s \in {t \in ToSet(doc.screens) : t.id \in scope.included}}
        BY <3>1 DEF CompileSpecDemoBundle
      <4>2. \A x \in draft.screens : \E s \in {t \in ToSet(doc.screens) : t.id \in scope.included} : x.id = s.id
        BY <4>1
      <4>3. ASSUME NEW s \in {t \in ToSet(doc.screens) : t.id \in scope.included}
            PROVE  \E x \in draft.screens : x.id = s.id
        <5>1. PICK x : x = [id |-> s.id, route |-> s.route, groups |-> GroupsOf(BundleGroups(doc, scope), s.id)]
          OBVIOUS
        <5>2. x \in draft.screens
          BY <4>1, <5>1
        <5> QED BY <5>1, <5>2
      <4> QED BY <4>2, <4>3
    <3>4. {s.id : s \in draft.screens} = {s.id : s \in {t \in ToSet(doc.screens) : t.id \in scope.included}}
      BY <3>3
    <3>5. \A s \in ToSet(doc.screens) : s.id \in scope.included <=> (KeysOf(s) \cap keys # {})
      BY <2>3, ScreensAreApart
    <3>6. \A s \in ToSet(doc.screens) : (KeysOf(s) \cap keys # {}) <=> (Asked(s) # {})
      BY <2>4 DEF KeysOf
    <3>7. {t \in ToSet(doc.screens) : t.id \in scope.included} = screens
      BY <2>4, <3>5, <3>6
    <3> QED BY <3>2, <3>4, <3>7
  <2>11. \A e \in d.evidence : {c.evidence : c \in {k \in p.plan : k.required}} \subseteq e.reports
    BY <2>2, <2>7, RequiredChecks
  <2>12. \E q \in prepared : \A path \in {f \in DOMAIN q.scaffold : q.scaffold[f].owner = "runtime"} :
           d.product[path] = q.scaffold[path]
    BY <1>1, <2>1 DEF DeliveryInv, WorkspacesAreGenerated, RuntimeFilesOf
  <2> QED BY <2>8, <2>9, <2>10, <2>11, <2>12 DEF Asked, screens, ProvenFor
<1> QED BY <1>1, DeliveriesHold, PTL
=============================================================================
