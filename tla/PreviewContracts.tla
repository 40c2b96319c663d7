-------------------------- MODULE PreviewContracts --------------------------
(***************************************************************************)
(* packages/preview-contracts: who is to settle what keeps a Spec from     *)
(* being previewed, and the logical contracts of its data and its API.     *)
(* The words a blocker's code, message and pointers are searched for are   *)
(* those that the findings of SpecProfile hold.                            *)
(***************************************************************************)
EXTENDS SpecProfile

OwnersOfWords == {"data", "api", "authority", "environment"}

\* What is found in the text of a finding.  Only the text of an open decision
\* is anyone's: it is about what its writer says it is about.
Mentions(finding) ==
  LET root == finding.at[1]
      missing == finding.code = "CANONICAL_ROOT_MISSING"
  IN (finding.about \cap OwnersOfWords)
     \cup (IF root = "dataBindings" THEN {"data"} ELSE {})
     \cup (IF root = "apiContracts" THEN {"api"} ELSE {})
     \cup (IF \/ missing /\ root = "authority"
              \/ finding.code \in {"COMMAND_CAPABILITY_UNRESOLVED", "PROBABLE_ROLE_BASED_DUPLICATE"}
           THEN {"authority"} ELSE {})

\* Variant: a finding that mentions nobody's subject and asks nothing is nobody's.
OwnersByWordsOnly(finding) ==
  Mentions(finding) \cup (IF finding.question \/ finding.owner THEN {"product-decision"} ELSE {})

BlockerOwners(finding) ==
  Mentions(finding)
  \cup (IF Mentions(finding) = {} \/ finding.question \/ finding.owner
        THEN {"product-decision"} ELSE {})

ByOwner(blockers, owner) == {b \in blockers : owner \in BlockerOwners(b)}

RoutedTo(blockers, owners) == UNION {ByOwner(blockers, owner) : owner \in owners}

-----------------------------------------------------------------------------
\* The capability that a query needs: named by the query, or the only one that
\* claims it.

QueryCapability(doc, id) ==
  LET claims == {c.id : c \in {d \in ToSet(Field(doc, "authority", "capabilities", <<>>)) :
                                 d.id # "" /\ id \in d.queries}}
  IN IF Cardinality(claims) = 1 THEN CHOOSE c \in claims : TRUE ELSE ""

DecisionStatus(item) ==
  IF item.status = "candidate" THEN "candidate"
  ELSE IF StatusOf(item) = "" THEN "unresolved" ELSE StatusOf(item)

NormalizeQuery(doc, query) ==
  [id |-> query.id, status |-> DecisionStatus(query),
   capability |-> IF query.capability # "" THEN query.capability ELSE QueryCapability(doc, query.id)]

NormalizeCommand(command) ==
  [id |-> command.id, status |-> DecisionStatus(command), capability |-> command.capability,
   transition |-> command.transition, versioned |-> command.versioned, idempotent |-> command.idempotent]

Normalized(items, Of(_)) == {Of(item) : item \in ToSet(items)}

CompilePreviewContracts(doc, source, blockers) ==
  LET queries == Normalized(Queries(doc), LAMBDA q : NormalizeQuery(doc, q))
      status == IF blockers = {} THEN "ready" ELSE "blocked"
  IN [status |-> status,
      data |-> [source |-> source, status |-> status, queries |-> queries,
                entities |-> Ids(Field(doc, "domainModel", "entities", <<>>)),
                blockers |-> RoutedTo(blockers, {"data", "authority", "product-decision"})],
      api |-> [source |-> source, status |-> status, queries |-> queries,
               commands |-> Normalized(Commands(doc), NormalizeCommand),
               blockers |-> RoutedTo(blockers, {"api", "authority", "environment", "product-decision"})]]
=============================================================================
