------------------------------- MODULE Impact -------------------------------
(***************************************************************************)
(* A candidate revision is patched, compared with its parent and walked by *)
(* computeImpact; buildCachePlan then decides node by node what is run     *)
(* again.  An iteration of a walk is a step; node ids are their ranks, and *)
(* the order of the queue, which decides nothing, is left open.  The list  *)
(* of safety violations is left out.                                       *)
(***************************************************************************)
EXTENDS Revisions

CONSTANTS
  Parents,       \* parent revisions
  Fingerprints,
  MaxEdits,      \* bound: fields of a patch
  MaxReports     \* bound: nodes reported with an undeclared read or as regression nodes

ASSUME ParentsAssumption == Parents \subseteq {r \in Revision : Connected(r)}
ASSUME BoundsAssumption == MaxEdits \in Nat /\ MaxReports \in Nat
ASSUME RanksAssumption == NodeIds \subseteq Nat
ASSUME FingerprintsAssumption == None \notin Fingerprints

VARIABLES
  parent, candidate,
  edits,
  phase,
  observed,   \* nodes, also unknown ones, that observedReads shows with an undeclared read
  broad,      \* broadRegressionNodeIds
  todo,       \* what the loop of this phase has still to take
  source,     \* node the walk started from
  queue, visited,
  reasons,    \* reasonsByNode
  mandatory

walk == <<todo, source, queue, visited>>
vars == <<parent, candidate, edits, phase, observed, broad, walk, reasons, mandatory>>

Reason == [node : NodeIds, code : {"CHANGED", "UPSTREAM_INVALIDATED", "UNDECLARED_READ",
                                   "BROAD_REGRESSION"}, source : NodeIds]
ReasonFor(n, code, from) == [node |-> n, code |-> code, source |-> from]

Init ==
  /\ parent \in Parents /\ candidate = parent
  /\ edits = 0 /\ phase = "patch"
  /\ observed = {} /\ broad = {}
  /\ todo = {} /\ source = None /\ queue = {} /\ visited = {}
  /\ reasons = {} /\ mandatory = {}

Revise ==
  /\ phase = "patch" /\ edits < MaxEdits
  /\ edits' = edits + 1
  /\ WorkflowPatched(candidate, candidate') \/ MapPatched(candidate, candidate')
  /\ Connected(candidate')
  /\ UNCHANGED <<parent, phase, observed, broad, walk, reasons, mandatory>>

\* diffRevisionStates, and the options that computeImpact is called with.
Diff ==
  /\ phase = "patch" /\ phase' = "roots"
  /\ todo' = Roots(parent, candidate)
  /\ observed' \in SUBSET NodeIds /\ broad' \in SUBSET NodeIds
  /\ Cardinality(observed') + Cardinality(broad') <= MaxReports
  /\ UNCHANGED <<parent, candidate, edits, source, queue, visited, reasons, mandatory>>

-----------------------------------------------------------------------------
(* computeImpact                                                           *)

Adjacent(n) == {t \in NodeIds : <<n, t>> \in candidate.edges}

\* Roots and observed nodes are taken in the order of their ids.
IsNext(n) == n \in todo /\ \A m \in todo : n <= m

WalkFrom(n) == source' = n /\ queue' = {n} /\ visited' = {n}

TakeRoot(n) ==
  /\ phase = "roots" /\ queue = {} /\ IsNext(n)
  /\ todo' = todo \ {n}
  /\ WalkFrom(n)
  /\ reasons' = reasons \cup {ReasonFor(n, "CHANGED", n)}
  /\ UNCHANGED <<parent, candidate, edits, phase, observed, broad, mandatory>>

\* Variant: the consumers of a node that is reached are not walked in their turn.
VisitConsumers(n) ==
  /\ n \in queue
  /\ LET new == Adjacent(n) \ visited IN
     /\ queue' = queue \ {n}
     /\ visited' = visited \cup new
     /\ reasons' = reasons \cup {ReasonFor(t, "UPSTREAM_INVALIDATED", source) : t \in new}
     /\ mandatory' = IF phase = "observed" THEN mandatory \cup new ELSE mandatory
  /\ UNCHANGED <<parent, candidate, edits, phase, observed, broad, todo, source>>

Visit(n) ==
  /\ n \in queue
  /\ LET new == Adjacent(n) \ visited IN
     /\ queue' = (queue \ {n}) \cup new
     /\ visited' = visited \cup new
     /\ reasons' = reasons \cup {ReasonFor(t, "UPSTREAM_INVALIDATED", source) : t \in new}
     /\ mandatory' = IF phase = "observed" THEN mandatory \cup new ELSE mandatory
  /\ UNCHANGED <<parent, candidate, edits, phase, observed, broad, todo, source>>

RootsDone ==
  /\ phase = "roots" /\ queue = {} /\ todo = {}
  /\ phase' = "observed" /\ todo' = observed
  /\ UNCHANGED <<parent, candidate, edits, observed, broad, source, queue, visited, reasons,
                 mandatory>>

\* forceAll
ForcedBy(n, code) == {ReasonFor(m, code, n) : m \in candidate.nodes}

\* A report about a node that is not there: nothing is safe then.
TakeObserved(n) ==
  /\ phase = "observed" /\ queue = {} /\ IsNext(n)
  /\ todo' = todo \ {n}
  /\ IF n \in candidate.nodes
     THEN /\ mandatory' = mandatory \cup {n}
          /\ reasons' = reasons \cup {ReasonFor(n, "UNDECLARED_READ", n)}
          /\ WalkFrom(n)
     ELSE /\ mandatory' = candidate.nodes
          /\ reasons' = reasons \cup ForcedBy(n, "UNDECLARED_READ")
          /\ UNCHANGED <<source, queue, visited>>
  /\ UNCHANGED <<parent, candidate, edits, phase, observed, broad>>

\* The whole loop over broadRegressionNodeIds.
Broad ==
  /\ phase = "observed" /\ queue = {} /\ todo = {}
  /\ phase' = "planned"
  /\ mandatory' = IF broad \subseteq candidate.nodes
                  THEN mandatory \cup broad ELSE candidate.nodes
  /\ reasons' = reasons
       \cup {ReasonFor(n, "BROAD_REGRESSION", n) : n \in broad \cap candidate.nodes}
       \cup UNION {ForcedBy(n, "BROAD_REGRESSION") : n \in broad \ candidate.nodes}
  /\ UNCHANGED <<parent, candidate, edits, observed, broad, walk>>

Next ==
  \/ Revise \/ Diff \/ RootsDone \/ Broad
  \/ \E n \in NodeIds : TakeRoot(n) \/ Visit(n) \/ TakeObserved(n)

Spec == Init /\ [][Next]_vars

-----------------------------------------------------------------------------
(* buildCachePlan, for any evidence about a node                           *)

Evidence ==
  [previous : Fingerprints \cup {None}, candidate : Fingerprints,
   artifact : BOOLEAN, cached : BOOLEAN]

Rerun(n) == \E r \in reasons : r.node = n

ReusesParent(n, e) ==
  /\ n \notin mandatory /\ ~Rerun(n)
  /\ e.previous = e.candidate /\ e.artifact

ReusesCache(n, e) ==
  /\ n \notin mandatory /\ ~ReusesParent(n, e)
  /\ ~(Rerun(n) /\ e.previous = e.candidate)
  /\ e.cached

-----------------------------------------------------------------------------
TypeOK ==
  /\ parent \in Revision /\ candidate \in Revision /\ Connected(candidate)
  /\ edits \in 0..MaxEdits /\ phase \in {"patch", "roots", "observed", "planned"}
  /\ observed \subseteq NodeIds /\ broad \subseteq NodeIds /\ todo \subseteq NodeIds
  /\ source \in NodeIds \cup {None}
  /\ queue \subseteq visited /\ visited \subseteq NodeIds
  /\ reasons \subseteq Reason /\ mandatory \subseteq candidate.nodes

\* Whatever the fingerprints say, a parent's artifact is reused only for a node whose
\* definition, inputs, contracts, schemas, profile and workflow are the same in both
\* revisions, and so for everything upstream of it, and while no contract changed that
\* nobody is known to consume; and nothing is reused, from the parent or from the cache,
\* downstream of an undeclared read.
ReuseIsSound ==
  phase = "planned" =>
    \A n \in candidate.nodes, e \in Evidence :
      /\ ReusesParent(n, e) =>
           /\ Ancestry(parent, n) = Ancestry(candidate, n)
           /\ \A m \in Ancestry(candidate, n) : Influences(parent, m) = Influences(candidate, m)
           /\ \A c \in Contracts : parent.contracts[c] # candidate.contracts[c] =>
                (parent.consumers[c] \cup candidate.consumers[c]) \cap candidate.nodes # {}
      /\ ReusesParent(n, e) \/ ReusesCache(n, e) =>
           n \notin broad /\ Ancestry(candidate, n) \cap observed = {}

\* The nodes that run again are those downstream of a change or of an undeclared read,
\* the regression nodes, and no other, unless a report names a node that is not there.
InvalidationIsTheClosure ==
  phase = "planned" =>
    \A n \in candidate.nodes :
      Rerun(n) <=> \/ ~(observed \cup broad \subseteq candidate.nodes)
                   \/ n \in broad
                   \/ Ancestry(candidate, n) \cap (Roots(parent, candidate) \cup observed) # {}
=============================================================================
