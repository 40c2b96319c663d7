------------------------------ MODULE MC_Specs ------------------------------
(***************************************************************************)
(* Three ways from a Spec to something else, which share no state: the     *)
(* impact of a revision, the revision of a Spec by feedback and the demo   *)
(* of a Spec.  A behaviour is one of them.  Of the second there are two    *)
(* sorts: one revision by any of the proposals, and two in a row by some.  *)
(*                                                                         *)
(* Impact: every acyclic graph over three nodes, read by one workflow      *)
(* input, with one contract and one schema.                                *)
(***************************************************************************)
EXTENDS Impact, SpecRevision, DemoDelivery

MCLinks == {l \in (1..3) \X (1..3) : l[1] < l[2]} \cup (Ports \X {1, 2})
MCRefs == [v \in {0, 1} |-> IF v = 0 THEN Schemas ELSE {}]
MCParents ==
  {[nodes |-> ns, definition |-> [n \in 1..3 |-> 0],
    edges |-> es, types |-> [p \in Ports |-> 0], hashes |-> [p \in Ports |-> 0],
    contracts |-> [c \in Contracts |-> 0], consumers |-> [c \in Contracts |-> {2}],
    schemas |-> [s \in Schemas |-> 0], profiles |-> [n \in 1..3 |-> 0], envelope |-> 0]
   : ns \in {{1, 2, 3}, {1, 2}},
     es \in {es \in SUBSET MCLinks : Ports \X {1} \subseteq es}}
ConnectedParents == {r \in MCParents : Connected(r)}

-----------------------------------------------------------------------------
\* A Spec of two screens without a gap, but for the evidence of a browser.

Admin == "act-superadmin"
Issuer == "act-issuer-principal"

Screen(id, route, actions) ==
  [id |-> id, canonical |-> TRUE, actions |-> actions, resource |-> "assets", route |-> route,
   audience |-> "all", actors |-> {Admin, Issuer}, components |-> {"table"}]
Open == [id |-> "open", kind |-> "flow", target |-> "approve"]
Back == [id |-> "back", kind |-> "screen", target |-> "list"]

Actor(id) == [id |-> id, canOperate |-> {"list"}, apart |-> {Admin, Issuer} \ {id}]

Asks(id, screen, actor, action, assertions) ==
  [id |-> id, kind |-> "browser", screen |-> screen, actor |-> actor, action |-> action,
   assertions |-> assertions, stateKeys |-> FALSE]
Scenario(id, checks) == [id |-> id, checks |-> checks]

Decision(id, status) ==
  [id |-> id, status |-> status, sourced |-> TRUE, owner |-> FALSE, question |-> FALSE,
   reviewed |-> TRUE, blocks |-> {"preview"}, about |-> {}]
Approve == [id |-> "approve", status |-> "confirmed", capability |-> "approver", transition |-> "approved",
            versioned |-> TRUE, idempotent |-> TRUE]

Written ==
  [meta |-> Object([revision |-> [lineage |-> 0]]),
   scope |-> Object([selectedScreensForS1Evidence |-> {"list"}, entryScreenId |-> "list",
                     activeDemoJourneyId |-> "tour"]),
   actors |-> Array(<<Actor(Admin), Actor(Issuer)>>),
   components |-> Array(<<[id |-> "table"], [id |-> "badge"]>>),
   requirements |-> Array(<<Decision("audit", "confirmed")>>),
   traceability |-> Array(<<[requirement |-> "audit", complete |-> TRUE]>>),
   stateMachines |-> Array(<<[transitions |-> {"approved"}]>>),
   apiContracts |-> Object([commands |-> <<Approve>>,
                            queries |-> <<[id |-> "assets", status |-> "confirmed", capability |-> ""]>>]),
   screens |-> Array(<<Screen("list", "/list", {Open}), Screen("item", "/item", {Back})>>),
   flows |-> Array(<<[id |-> "approve"]>>),
   authority |-> Object([capabilities |-> <<[id |-> "approver", queries |-> {"assets"}]>>]),
   acceptance |-> Array(<<Scenario("opens", <<Asks("c1", "list", Admin, "open", {"visible"}),
                                              Asks("c2", "item", Issuer, "back", {"navigates"})>>)>>),
   demoStoryboard |-> Array(<<[screen |-> "list", journey |-> "tour", deprecated |-> FALSE]>>),
   interactionModel |-> Array(<<[id |-> "list"], [id |-> "item"]>>),
   navModel |-> Object([items |-> <<[target |-> "list", policyInstance |-> FALSE]>>]),
   domainModel |-> Object([entities |-> <<[id |-> "asset"]>>])]

Unwritten ==
  (RequiredPointers \cup RequiredTopLevelKeys \cup CanonicalRoots) \ DOMAIN Written
Clean == Written @@ [root \in Unwritten |-> Array(<<>>)]

\* A Spec with one root that is not there, a check that is not one, other design
\* tokens and a component less.
Gappy ==
  [root \in DOMAIN Clean \ {"glossary"} |->
     IF root = "acceptance" THEN Array(<<Scenario("opens", <<>>)>>)
     ELSE IF root = "designTokens" THEN Array(<<[id |-> "light"]>>)
     ELSE IF root = "components" THEN Array(<<[id |-> "table"]>>)
     ELSE Clean[root]]

MCSources == {Clean, Gappy}
MCFeedbacks ==
  {<<[id |-> "f1", mentions |-> {"list"}]>>,
   <<[id |-> "f1", mentions |-> {"list"}], [id |-> "f1", mentions |-> {"item"}]>>}

-----------------------------------------------------------------------------
\* Proposals.

Op(operation, path, value) == [operation |-> operation, path |-> path, value |-> value, feedback |-> "f1"]
Put(root, items) == Op("replace", <<root>>, Array(items))
AddTo(root, item) == Op("add", <<root, "-">>, item)
Stamp == Op("replace", <<"meta", "revision">>, [lineage |-> 0])

OneOperation ==
  {Stamp,
   Op("add", <<"glossary">>, Array(<<>>)),
   Op("remove", <<"glossary">>, Array(<<>>)),
   Op("replace", <<"designTokens">>, Array(<<[id |-> "dark"]>>)),
   Op("replace", <<"screens", "5">>, Screen("item", "/item", {Back})),
   Op("replace", <<"nowhere", "0">>, [id |-> "x"]),
   [AddTo("requirements", Decision("limits", "confirmed")) EXCEPT !.feedback = "f9"],
   \* Screens and components: another instead of one, one more of the name or the route of another.
   Put("screens", <<Screen("list", "/list", {Open}), Screen("report", "/item", {Back})>>),
   Put("screens", <<Screen("list", "/list", {Open})>>),
   Put("components", <<[id |-> "table"], [id |-> "chip"]>>),
   AddTo("screens", Screen("list", "/new", {})),
   Op("replace", <<"screens", "1">>,
      [Screen("item", "/list", {Back}) EXCEPT !.canonical = FALSE, !.audience = ""]),
   Op("replace", <<"screens", "0">>, Screen("list", "/list", {Open, [Back EXCEPT !.target = "gone"]})),
   Op("replace", <<"screens", "0">>,
      Screen("list", "/list", {Open, [Open EXCEPT !.id = "close", !.target = "closing"]})),
   \* Scenarios: one that contradicts another, one for another actor, one that cannot be run.
   AddTo("acceptance", Scenario("hides", <<Asks("c3", "list", Admin, "open", {"hidden"})>>)),
   AddTo("acceptance", Scenario("hides", <<Asks("c3", "list", Issuer, "open", {"hidden"})>>)),
   AddTo("acceptance", Scenario("hides", <<Asks("c3", "list", Admin, "", {"no-duplicate"})>>)),
   \* Decisions.
   AddTo("openQuestions", [Decision("where", "conflicting") EXCEPT !.about = {"environment"}]),
   AddTo("openQuestions", [Decision("who", "unresolved") EXCEPT !.question = TRUE, !.owner = TRUE,
                             !.blocks = {"demo"}]),
   AddTo("assumptions", [Decision("fees", "assumed_demo_only") EXCEPT !.reviewed = FALSE, !.blocks = {}]),
   AddTo("requirements", [Decision("limits", "confirmed") EXCEPT !.sourced = FALSE]),
   AddTo("requirements", Decision("limits", "agreed")),
   \* The API, the navigation and the demo.
   Op("replace", <<"apiContracts", "commands">>,
      <<[Approve EXCEPT !.capability = "nobody", !.transition = "gone", !.versioned = FALSE]>>),
   Op("replace", <<"apiContracts", "commands">>, <<Approve, [Approve EXCEPT !.id = "approve-all"]>>),
   Op("replace", <<"authority", "capabilities">>, <<>>),
   Op("replace", <<"navModel", "items">>, <<[target |-> "gone", policyInstance |-> TRUE]>>),
   Op("replace", <<"navModel", "items">>, <<[target |-> "list#top", policyInstance |-> FALSE]>>),
   Op("replace", <<"scope", "entryScreenId">>, "item"),
   Op("add", <<"scope", "deprecatedCompatibilityScreens">>, {"item"}),
   Op("replace", <<"scope", "activeDemoJourneyId">>, "")}

MCProposals ==
  {<<op>> : op \in OneOperation}
  \cup {<<Stamp, op>> : op \in {o \in OneOperation : o.path[1] = "screens"}}
  \cup {<<>>, <<Stamp, Stamp>>,
        <<AddTo("acceptance", Scenario("back", <<Asks("c4", "item", Admin, "back", {"visible"})>>)),
          Op("add", <<"acceptance", "0">>, Scenario("none", <<Asks("c5", "item", Admin, "back", {"hidden"})>>))>>,
        <<Op("replace", <<"scope", "activeDemoJourneyId">>, ""),
          AddTo("demoStoryboard", [screen |-> "item", journey |-> "tour2", deprecated |-> FALSE])>>,
        <<Put("screens", <<[Screen("list", "/list", {Open}) EXCEPT !.actors = {Admin}],
                           [Screen("item", "/item", {Back}) EXCEPT !.actors = {Issuer}]>>)>>}

\* For lines of revisions: patches that pass, that lose something, and that the
\* script repairs.
MCLineProposals ==
  {<<Stamp>>, <<Op("add", <<"glossary">>, Array(<<>>))>>,
   <<Put("components", <<[id |-> "table"], [id |-> "chip"]>>)>>,
   <<Stamp, Op("replace", <<"screens", "1">>, Screen("report", "/item", {Back}))>>,
   <<Op("replace", <<"screens", "1">>,
        [Screen("item", "/list", {Back}) EXCEPT !.canonical = FALSE, !.audience = ""]),
     Op("replace", <<"navModel", "items">>, <<[target |-> "list#top", policyInstance |-> FALSE]>>)>>}
MCAlterations == {<<Put("components", <<[id |-> "table"], [id |-> "chip"]>>)>>}
MCAnchors == [a \in {"list#top"} |-> "list"]

-----------------------------------------------------------------------------
\* Demos: two versions of a document that differ only in an assertion, and one
\* with faults that only some scopes meet.

Oracle(type, value, fixture) == [type |-> type, value |-> value, fixture |-> fixture]
Requirement(key, preconditions, actions, oracles) ==
  [key |-> key, text |-> key, preconditions |-> preconditions, actions |-> actions, oracles |-> oracles]
Pays == Requirement("pay", {"cart"}, {"", "bank"},
                    {Oracle("network", "200", "bank"), Oracle("dom", "paid", "")})
Cart(oracle) == [id |-> "cart", route |-> "/cart",
                 requirements |-> <<Requirement("total", {}, {}, {oracle}), Pays>>]
Help(route) == [id |-> "help", route |-> route,
                requirements |-> <<Requirement("cart", {}, {""}, {Oracle("a11y", "labels", "")})>>]
Group(id, screens) == [id |-> id, screens |-> screens]

Shop(oracle, route, groups) ==
  [id |-> "shop", artifact |-> "spec", screens |-> <<Cart(oracle), Help(route)>>, groups |-> groups]
MCDocuments ==
  {Shop(Oracle("dom", "sum", ""), "/help", <<Group("all", {"cart", "help"})>>),
   Shop(Oracle("dom", "tax", ""), "/help", <<Group("all", {"cart", "help"})>>),
   Shop(Oracle("dom", "sum", ""), "/cart", <<Group("explicit-selection", {"help"})>>)}

Scope(selected, screens, keys, groups) ==
  [artifact |-> "spec", selected |-> selected, screens |-> screens, keys |-> keys, groups |-> groups,
   request |-> FALSE, maxScreens |-> 2]
MCInputs ==
  {Scope({<<"cart">>}, {}, {}, {}), Scope({}, {}, {}, {"all"}), Scope({<<"cart", "total">>}, {}, {"cart"}, {}),
   Scope({<<"help", "cart">>}, {}, {}, {}), Scope({}, {}, {"total"}, {"explicit-selection"}),
   Scope({<<"nothing">>}, {}, {}, {}), Scope({}, {}, {}, {}),
   [Scope({}, {}, {}, {"all"}) EXCEPT !.maxScreens = 1],
   [Scope({<<"cart">>}, {}, {}, {}) EXCEPT !.request = TRUE],
   [Scope({}, {"help"}, {}, {}) EXCEPT !.artifact = "other"]}

AllIds == {<<"shop", "cart", "total">>, <<"shop", "cart", "pay">>, <<"shop", "help", "cart">>}
Answer(claims, path, content) == [claims |-> claims, files |-> <<[path |-> path, content |-> content]>>]
MCPatches ==
  {Answer(AllIds, App, {"sum", "paid", "labels"}), Answer(AllIds, App, {"tax", "paid"}),
   Answer({}, App, {"sum"}), Answer(AllIds, <<"src", "main.tsx">>, {"own"}),
   Answer(AllIds, <<"src", "..", "package.json">>, {"own"}),
   Answer(AllIds, <<"public-tests", "hidden.spec.ts">>, {"own"})}

MCFixtureLists ==
  {<<[key |-> "cart", status |-> "200"], [key |-> "bank", status |-> "200"]>>,
   <<[key |-> "cart", status |-> "200"], [key |-> "bank", status |-> "500"]>>,
   <<[key |-> "cart", status |-> "200"]>>}

-----------------------------------------------------------------------------
CONSTANT Parts  \* which of the four
VARIABLE part

mcVars == <<part, vars, specVars, deliveryVars>>

\* The state of a component whose turn it is not is one of its initial states.
Resting(name) == name # "impact" => parent = CHOOSE p \in Parents : TRUE

MCInit ==
  /\ part \in Parts
  /\ Resting(part)
  /\ Init /\ SpecInit /\ DeliveryInit

\* One revision by one of MCProposals, or MaxRequests by some of MCLineProposals.
OneRevision == SpecNext /\ requests' <= 1
LineOfRevisions == SpecNext /\ proposal' \in MCLineProposals \cup {<<>>}

MCNext ==
  \/ part = "impact" /\ Next /\ UNCHANGED <<part, specVars, deliveryVars>>
  \/ part = "revision" /\ OneRevision /\ UNCHANGED <<part, vars, deliveryVars>>
  \/ part = "line" /\ LineOfRevisions /\ UNCHANGED <<part, vars, deliveryVars>>
  \/ part = "delivery" /\ DeliveryNext /\ UNCHANGED <<part, vars, specVars>>

MCSpec == MCInit /\ [][MCNext]_mcVars
=============================================================================
