---------------------------- MODULE SpecProfile ----------------------------
(***************************************************************************)
(* What workflows/templates/spec-feedback-to-spec says of a Spec document: *)
(* the gaps of semantic-profile.ts and the structural findings of          *)
(* heavy-production-spec-profile.ts.                                       *)
(*                                                                         *)
(* A document has roots; a root is an array, whose members have the keys   *)
(* "0", "1" and so on, or an object.  A member is a record that has every  *)
(* field the profiles look at: "" is an absent name, <<>> or {} an absent  *)
(* list.  A finding keeps its code, what it blocks, its first pointer and  *)
(* whether it names an owner and asks a question; messages are left out.   *)
(***************************************************************************)
EXTENDS Integers, Sequences, FiniteSets, SequencesExt

Digits == <<"0", "1", "2", "3", "4", "5">>
Keys(n) == {Digits[i] : i \in 1..n}

Array(items) ==
  [array |-> TRUE,
   at |-> [k \in Keys(Len(items)) |-> items[CHOOSE i \in 1..Len(items) : Digits[i] = k]]]
Object(fields) == [array |-> FALSE, at |-> fields]

Entries(value) ==
  IF value.array THEN [i \in 1..Cardinality(DOMAIN value.at) |-> value.at[Digits[i]]] ELSE <<>>

\* The members of a root, none when it is not an array.
Records(doc, root) == IF root \in DOMAIN doc THEN Entries(doc[root]) ELSE <<>>

\* The field of a root that is an object.
Field(doc, root, key, absent) ==
  IF root \in DOMAIN doc /\ ~doc[root].array /\ key \in DOMAIN doc[root].at
  THEN doc[root].at[key] ELSE absent

Ids(items) == {item.id : item \in ToSet(items)} \ {""}

\* Contracts go by either of two names.
ApiContracts(doc, name, alias) ==
  IF Field(doc, "apiContracts", name, <<>>) # <<>> THEN Field(doc, "apiContracts", name, <<>>)
  ELSE Field(doc, "apiContracts", alias, <<>>)
Commands(doc) == ApiContracts(doc, "commands", "commandContracts")
Queries(doc) == ApiContracts(doc, "queries", "queryContracts")

\* Two roots may be an array or an object with one.
Listed(doc, root, key) ==
  IF Records(doc, root) # <<>> THEN Records(doc, root) ELSE Field(doc, root, key, <<>>)
Scenarios(doc) == Listed(doc, "acceptance", "scenarios")

\* The items of the navigation, of all its shells.
NavItems(doc) == Field(doc, "navModel", "items", <<>>)

Checks(doc) == UNION {ToSet(s.checks) : s \in ToSet(Scenarios(doc))}

-----------------------------------------------------------------------------
\* Findings.

MaturityStages == {"S0", "S1", "S2", "S3"}
MaturityStagesFor ==
  [DEMO |-> {"S1", "S2", "S3"}, PREVIEW |-> {"S2", "S3"}, APPLICATION |-> {"S3"}, GAP |-> {}]

BaseFinding(code, blocker, pointer) ==
  [code |-> code, blocker |-> blocker, at |-> pointer, owner |-> FALSE, question |-> FALSE, about |-> {}]

When(condition, finding) == IF condition THEN {finding} ELSE {}

\* The findings Of(item, pointer) of the members of a root.
ForEach(root, items, Of(_, _)) == UNION {Of(items[i], <<root, Digits[i]>>) : i \in DOMAIN items}

CanonicalRoots ==
  {"references", "scope", "glossary", "requirements", "domainModel", "stateMachines", "apiContracts",
   "screens", "flows", "dataBindings", "authority", "acceptance", "nonFunctional", "assumptions",
   "openQuestions", "traceability"}

ValidateCanonicalRoots(doc) ==
  {BaseFinding("CANONICAL_ROOT_MISSING", "DEMO", <<root>>) : root \in CanonicalRoots \ DOMAIN doc}

StatusOf(item) ==
  IF item.status \in {"assumed_demo_only", "assumed_demo_fixture"} THEN "assumed"
  ELSE IF item.status \in {"confirmed", "assumed", "unresolved", "conflicting", "deprecated"}
       THEN item.status ELSE ""

OpenDecision(item, pointer) ==
  [code |-> IF item.status = "unresolved" THEN "OPEN_DECISION" ELSE "CONFLICTING_DECISION",
   blocker |-> IF "demo" \in item.blocks THEN "DEMO"
               ELSE IF "preview" \in item.blocks THEN "PREVIEW" ELSE "APPLICATION",
   at |-> pointer, owner |-> item.owner, question |-> item.question, about |-> item.about]

ValidateDecision(item, pointer) ==
  LET status == StatusOf(item)
  IN When(status = "", BaseFinding("DECISION_STATUS_MISSING", "DEMO", pointer))
     \cup When(status = "confirmed" /\ ~item.sourced,
               BaseFinding("CONFIRMED_WITHOUT_SOURCE", "DEMO", pointer))
     \cup When(status = "assumed" /\ (~item.reviewed \/ item.blocks = {}),
               BaseFinding("ASSUMPTION_REVIEW_CONTRACT_MISSING", "PREVIEW", pointer))
     \cup When(status = "unresolved" /\ ~(item.question /\ item.owner /\ item.blocks # {}),
               BaseFinding("UNRESOLVED_DECISION_CONTRACT_MISSING", "PREVIEW", pointer))
     \cup When(status \in {"unresolved", "conflicting"}, OpenDecision(item, pointer))

ValidateDecisionProvenance(doc) ==
  UNION {ForEach(section, Records(doc, section), ValidateDecision) :
           section \in {"requirements", "assumptions", "openQuestions", "nonFunctional"}}

\* Whether the target of an action is something the document has.
Resolves(doc, action) ==
  \/ action.kind = "flow" /\ action.target \in Ids(Records(doc, "flows"))
  \/ action.kind = "command" /\ action.target \in Ids(Commands(doc))
  \/ action.kind = "query" /\ action.target \in Ids(Queries(doc))
  \/ action.kind = "screen" /\ action.target \in Ids(Records(doc, "screens"))

ValidateScreenActions(doc) ==
  LET OfScreen(screen, pointer) ==
        When(screen.canonical /\ screen.actions = {},
             BaseFinding("SCREEN_ACTIONS_MISSING", "DEMO", pointer))
        \cup {BaseFinding("SCREEN_ACTION_TARGET_UNRESOLVED", "DEMO", Append(pointer, a.id)) :
                a \in {b \in screen.actions : ~Resolves(doc, b)}}
  IN ForEach("screens", Records(doc, "screens"), OfScreen)

-----------------------------------------------------------------------------
\* Executable acceptance.

SurfaceAssertions == {"action-specific-surface", "input-preserved-on-error"}
StateAssertions == {"state-change", "persists-after-reload", "work-item-created", "no-duplicate"}
ActionAssertions == {"visible", "hidden", "navigates"} \cup SurfaceAssertions \cup StateAssertions
BrowserAssertions == ActionAssertions \cup {"control-height-consistent", "table-no-overflow"}

\* A map of the screens by their ids: of two with one id, the later.
ScreenById(doc, id) ==
  LET screens == Records(doc, "screens")
      named == {i \in DOMAIN screens : id # "" /\ screens[i].id = id}
  IN IF named = {} THEN <<>> ELSE <<screens[CHOOSE i \in named : \A j \in named : j <= i]>>

ActionsOn(doc, screenId) == UNION {screen.actions : screen \in ToSet(ScreenById(doc, screenId))}

ValidCheck(doc, check) ==
  LET onScreen == {a \in ActionsOn(doc, check.screen) : a.id = check.action}
      toScreen == \E a \in onScreen : a.kind = "screen"
  IN /\ check.id # "" /\ check.kind = "browser"
     /\ ScreenById(doc, check.screen) # <<>>
     /\ check.actor = "" \/ check.actor \in Ids(Records(doc, "actors"))
     /\ check.assertions \cap ActionAssertions # {} => onScreen # {}
     /\ check.assertions \cap StateAssertions # {} => check.stateKeys
     /\ check.assertions # {} /\ check.assertions \subseteq BrowserAssertions
     /\ "hidden" \in check.assertions => check.assertions = {"hidden"}
     /\ "navigates" \in check.assertions => toScreen
     /\ toScreen => check.assertions \cap (SurfaceAssertions \cup StateAssertions) = {}

\* What a check says of an action on a screen for an actor.
Signature(check) == <<check.screen, check.actor, check.action>>
Hides(check) == "hidden" \in check.assertions
Needs(check) == check.assertions \cap (ActionAssertions \ {"hidden"}) # {}

\* Variant: only the checks of one scenario are compared.
ContradictedWithinScenarios(doc) ==
  UNION {{Signature(c) : c \in {d \in ToSet(s.checks) : "" \notin {d.screen, d.actor, d.action} /\ Hides(d)
                                  /\ \E e \in ToSet(s.checks) : Needs(e) /\ Signature(e) = Signature(d)}}
         : s \in ToSet(Scenarios(doc))}

Contradicted(doc) ==
  {Signature(c) : c \in {d \in Checks(doc) : "" \notin {d.screen, d.actor, d.action} /\ Hides(d)
                           /\ \E e \in Checks(doc) : Needs(e) /\ Signature(e) = Signature(d)}}

ScenarioFindings(doc) ==
  LET scenarios == Scenarios(doc)
      Scenario(s, pointer) ==
        When(s.checks = <<>>, BaseFinding("ACCEPTANCE_BROWSER_EVIDENCE_MISSING", "DEMO", pointer))
        \cup {BaseFinding("ACCEPTANCE_BROWSER_EVIDENCE_INVALID", "DEMO", Append(pointer, Digits[j])) :
                j \in {k \in DOMAIN s.checks : ~ValidCheck(doc, s.checks[k])}}
  IN ForEach("acceptance", scenarios, Scenario)
     \cup {BaseFinding("ACCEPTANCE_ACTION_VISIBILITY_CONTRADICTED", "DEMO", <<"acceptance">> \o sign) :
             sign \in Contradicted(doc)}

\* A contract without faults still waits for the evidence of a browser.
ValidateExecutableAcceptance(doc) ==
  IF Scenarios(doc) = <<>>
  THEN {BaseFinding("ACCEPTANCE_SCENARIOS_MISSING", "DEMO", <<"acceptance">>)}
  ELSE ScenarioFindings(doc)
       \cup When(ScenarioFindings(doc) = {}, BaseFinding("DEMO_EVIDENCE_PENDING", "DEMO", <<"acceptance">>))

-----------------------------------------------------------------------------
\* The contracts of the API, shared screens, the projection of the demo.

TransitionIds(doc) == UNION {machine.transitions : machine \in ToSet(Records(doc, "stateMachines"))}

\* Whether a command's name says it approves several things at once.
CollapsesApprovals(id) == id = "approve-all"

ValidateApiSemantics(doc) ==
  LET capabilities == Ids(Field(doc, "authority", "capabilities", <<>>))
      OfCommand(c, pointer) ==
        When(c.capability \notin capabilities,
             BaseFinding("COMMAND_CAPABILITY_UNRESOLVED", "PREVIEW", pointer))
        \cup When(c.transition \notin TransitionIds(doc),
                  BaseFinding("COMMAND_TRANSITION_UNRESOLVED", "PREVIEW", pointer))
        \cup When(~c.versioned \/ ~c.idempotent,
                  BaseFinding("COMMAND_CONCURRENCY_CONTRACT_INCOMPLETE", "PREVIEW", pointer))
  IN ForEach("apiContracts", Commands(doc), OfCommand)
     \cup When(\E id \in Ids(Commands(doc)) : CollapsesApprovals(id),
               BaseFinding("APPROVAL_BOUNDARIES_COLLAPSED", "PREVIEW", <<"apiContracts">>))

ValidateSharedResourceScreens(doc) ==
  LET active == {s \in ToSet(Records(doc, "screens")) : s.canonical /\ s.resource # ""}
      OfResource(resource) == {s \in active : s.resource = resource}
  IN {BaseFinding("PROBABLE_ROLE_BASED_DUPLICATE", "DEMO", <<"screens", resource>>) :
        resource \in {r \in {s.resource : s \in active} :
                        /\ Cardinality({s.route : s \in OfResource(r)} \ {""}) > 1
                        /\ \A s \in OfResource(r) : Cardinality(s.actors) = 1}}
     \cup When(\E item \in ToSet(NavItems(doc)) : item.policyInstance,
               BaseFinding("POLICY_INSTANCE_USED_AS_NAVIGATION", "DEMO", <<"navModel">>))

ActiveStoryboards(doc) == {b \in ToSet(Records(doc, "demoStoryboard")) : ~b.deprecated}

ValidateDemoProjection(doc) ==
  LET deprecated == Field(doc, "scope", "deprecatedCompatibilityScreens", {})
      selected == Field(doc, "scope", "selectedScreensForS1Evidence", {})
      entry == Field(doc, "scope", "entryScreenId", "")
      journey == Field(doc, "scope", "activeDemoJourneyId", "")
      journeys == {b.journey : b \in ActiveStoryboards(doc)} \ {""}
  IN When(selected # {} /\ entry = "", BaseFinding("DEMO_ENTRY_SCREEN_MISSING", "DEMO", <<"scope">>))
     \cup When(/\ entry # ""
               /\ \/ entry \notin Ids(Records(doc, "screens")) \ deprecated
                  \/ selected # {} /\ entry \notin selected,
               BaseFinding("DEMO_ENTRY_SCREEN_INVALID", "DEMO", <<"scope">>))
     \cup {BaseFinding("DEPRECATED_SCREEN_SELECTED_FOR_DEMO", "DEMO", <<"scope", id>>) :
             id \in selected \cap deprecated}
     \cup {BaseFinding("ACCEPTANCE_USES_DEPRECATED_SCREEN", "DEMO", <<"acceptance", c.id>>) :
             c \in {d \in Checks(doc) : d.screen \in deprecated}}
     \cup {BaseFinding("ACTIVE_STORYBOARD_USES_DEPRECATED_SCREEN", "DEMO", <<"demoStoryboard", b.screen>>) :
             b \in {d \in ActiveStoryboards(doc) : d.screen \in deprecated}}
     \cup When(journey = "" /\ Cardinality(journeys) > 1,
               BaseFinding("ACTIVE_DEMO_JOURNEY_AMBIGUOUS", "DEMO", <<"scope">>))
     \cup When(journey # "" /\ journey \notin journeys,
               BaseFinding("ACTIVE_DEMO_JOURNEY_UNRESOLVED", "DEMO", <<"scope">>))

Traceability(doc) ==
  LET linked == {t.requirement : t \in {u \in ToSet(Listed(doc, "traceability", "links")) : u.complete}}
  IN {BaseFinding("TRACEABILITY_INCOMPLETE", "GAP", <<"traceability", id>>) :
        id \in Ids(Records(doc, "requirements")) \ linked}

-----------------------------------------------------------------------------
\* compileSemanticSpecProfile.

SemanticFindings(doc) ==
  ValidateCanonicalRoots(doc) \cup ValidateDecisionProvenance(doc) \cup ValidateScreenActions(doc)
  \cup ValidateExecutableAcceptance(doc) \cup ValidateApiSemantics(doc)
  \cup ValidateSharedResourceScreens(doc) \cup ValidateDemoProjection(doc) \cup Traceability(doc)

StageBlockers(stage, findings) == {f \in findings : stage \in MaturityStagesFor[f.blocker]}

StageVerdict(stage, findings, target) ==
  IF stage = "S3" /\ target # "S3" THEN "out-of-scope"
  ELSE IF StageBlockers(stage, findings) = {} THEN "passed" ELSE "blocked"

RevisionFindings(findings) ==
  {f.code : f \in {g \in findings : g.blocker = "DEMO" /\ g.code # "DEMO_EVIDENCE_PENDING"}}

-----------------------------------------------------------------------------
\* createHeavyProductionSpecValidator: the codes of its findings.

RequiredTopLevelKeys ==
  {"actors", "components", "demoStoryboard", "designTokens", "extendedDesign", "interactionModel",
   "meta", "mockData", "navModel", "screens", "stateModel"}

Code(condition, code) == IF condition THEN {code} ELSE {}

Repeats(items, Name(_)) ==
  \E i, j \in DOMAIN items : i # j /\ Name(items[i]) = Name(items[j]) /\ Name(items[i]) # ""

ValidateRequiredRoots(doc) ==
  Code(~(RequiredTopLevelKeys \subseteq DOMAIN doc), "REQUIRED_ROOT_MISSING")
  \cup Code(\E root \in {"actors", "components", "interactionModel", "screens"} \cap DOMAIN doc :
              ~doc[root].array, "ROOT_TYPE_INVALID")

ValidateScreens(doc) ==
  LET screens == Records(doc, "screens")
      actors == Records(doc, "actors")
      components == Records(doc, "components")
  IN Code(Repeats(actors, LAMBDA a : a.id), "DUPLICATE_ACTOR_ID")
     \cup Code(Repeats(components, LAMBDA c : c.id), "DUPLICATE_COMPONENT_NAME")
     \cup Code(Repeats(screens, LAMBDA s : s.id), "DUPLICATE_SCREEN_ID")
     \cup Code(Repeats(screens, LAMBDA s : s.route), "DUPLICATE_SCREEN_ROUTE")
     \cup Code(\E s \in ToSet(screens) : "" \in {s.id, s.route, s.audience}, "SCREEN_FIELD_INVALID")
     \cup Code(\E s \in ToSet(screens) : ~(s.components \subseteq Ids(components)), "UNKNOWN_COMPONENT_REF")
     \cup Code(\E s \in ToSet(screens) : ~(s.actors \subseteq Ids(actors)), "UNKNOWN_ACTOR_REF")
     \cup Code(\E a \in ToSet(actors) : ~(a.canOperate \subseteq Ids(screens)), "UNKNOWN_ACTOR_SCREEN_REF")

ValidateNavigation(doc) ==
  LET screens == Ids(Records(doc, "screens"))
      interactions == Records(doc, "interactionModel")
      targets == {i.id : i \in ToSet(interactions)} \ {""}
  IN Code(\E item \in ToSet(NavItems(doc)) : item.target \notin screens,
          "UNKNOWN_NAV_TARGET")
     \cup Code(Repeats(interactions, LAMBDA i : i.id), "DUPLICATE_INTERACTION_SCREEN")
     \cup Code(~(screens \subseteq targets), "INTERACTION_MISSING")
     \cup Code(~(targets \subseteq screens), "UNKNOWN_INTERACTION_SCREEN")

\* The two roots of authority keep apart from each other.
AuthorityRoots == {"act-superadmin", "act-issuer-principal"}
ValidateAuthorityRoots(doc) ==
  LET actors == ToSet(Records(doc, "actors"))
  IN Code(~(AuthorityRoots \subseteq {a.id : a \in actors}), "AUTHORITY_ROOT_MISSING")
     \cup Code(\E a \in actors : a.id \in AuthorityRoots /\ ~(AuthorityRoots \ {a.id} \subseteq a.apart),
               "AUTHORITY_ROOTS_NOT_SEPARATED")

NamedSections == {"screens", "actors", "components"}

\* Variant: as many members as before are taken to be the members before.
FewerThanBaseline(baseline, doc) ==
  Code(~(DOMAIN baseline \subseteq DOMAIN doc), "BASELINE_ROOT_REMOVED")
  \cup Code(\E section \in NamedSections :
              Len(Records(doc, section)) < Len(Records(baseline, section)), "BASELINE_ENTITY_REMOVED")

ValidateBaselinePreservation(baseline, doc) ==
  Code(~(DOMAIN baseline \subseteq DOMAIN doc), "BASELINE_ROOT_REMOVED")
  \cup Code(\E section \in NamedSections :
              ~(Ids(Records(baseline, section)) \subseteq Ids(Records(doc, section))),
            "BASELINE_ENTITY_REMOVED")

StructuralFindings(baseline, doc) ==
  ValidateRequiredRoots(doc) \cup ValidateScreens(doc) \cup ValidateNavigation(doc)
  \cup ValidateAuthorityRoots(doc) \cup ValidateBaselinePreservation(baseline, doc)
=============================================================================
