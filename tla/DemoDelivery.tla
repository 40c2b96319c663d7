---------------------------- MODULE DemoDelivery ----------------------------
(***************************************************************************)
(* The template spec-to-demo: a Spec document and a chosen scope become    *)
(* contracts, a hidden verifier, a scaffold and a manifest; a builder      *)
(* patches the scaffold; the verifier runs; and a product with its         *)
(* evidence becomes a delivery.                                            *)
(*                                                                         *)
(* A digest is the thing it is the digest of.  A path is the sequence of   *)
(* its segments, and the content of src/App.tsx is the set of assertions   *)
(* that the page it shows meets.  A selector is the sequence of its parts: *)
(* a screen or a requirement, or a screen and a requirement of it.         *)
(***************************************************************************)
EXTENDS Integers, Sequences, FiniteSets, SequencesExt

CONSTANTS
  Documents,      \* [id, artifact, screens, groups]
  Inputs,         \* [artifact, selected, screens, keys, groups, request, maxScreens]
  Patches,        \* [claims, files], what a builder may answer
  FixtureLists,   \* sequences of [key, status]
  Places,         \* tenant, run and branch
  MaxPrepared, MaxBuilt, MaxBundles, MaxVerified, MaxDelivered  \* bounds of the model

\* A selector names one thing or a thing of another; a fixture has a key and a status.
ASSUME SelectionAssumption ==
  \A input \in Inputs : \A selector \in input.selected :
    selector \in Seq(ToSet(selector)) /\ Len(selector) \in {1, 2}
ASSUME FixtureAssumption ==
  \A records \in FixtureLists : \A r \in ToSet(records) : r = [key |-> r.key, status |-> r.status]

VARIABLES
  prepared,    \* what prepareSpecToDemo returned, with what it was given
  workspaces,  \* generated workspaces: scaffolds and what builders made of them
  fixtures,    \* fixture bundles
  evidence,    \* evidence bundles; which files the verifier saw is for the properties
  deliveries

deliveryVars == <<prepared, workspaces, fixtures, evidence, deliveries>>

Without == <<>>  \* nothing: the operation threw
Only(condition, value) == IF condition THEN <<value>> ELSE Without
Names(items) == {item.id : item \in ToSet(items)}
Distinct(items, Name(_)) == \A i, j \in DOMAIN items : Name(items[i]) = Name(items[j]) => i = j

-----------------------------------------------------------------------------
\* compileScopeContract.

KeysOf(screen) == {r.key : r \in ToSet(screen.requirements)}
DocumentKeys(doc) == UNION {KeysOf(s) : s \in ToSet(doc.screens)}
ScreenOf(doc, id) == CHOOSE s \in ToSet(doc.screens) : s.id = id

DocumentIsSound(doc) ==
  /\ Distinct(doc.screens, LAMBDA s : s.id)
  /\ \A i, j \in DOMAIN doc.screens :
       LET own == doc.screens[i].requirements
           other == doc.screens[j].requirements
       IN \A k \in DOMAIN own, l \in DOMAIN other : own[k].key = other[l].key => i = j /\ k = l
  /\ Distinct(doc.groups, LAMBDA g : g.id)
  /\ \A g \in ToSet(doc.groups) : g.screens \subseteq Names(doc.screens)

Selectors(input, doc) ==
  input.selected
  \cup {<<id>> : id \in input.screens \cup input.keys}
  \cup {<<id>> : id \in UNION {g.screens : g \in {h \in ToSet(doc.groups) : h.id \in input.groups}}}

IsScreen(doc, selector) == Len(selector) = 1 /\ selector[1] \in Names(doc.screens)

\* A screen stands for its requirements; a name of both a screen and a
\* requirement is the screen's.
KeysFor(doc, selector) ==
  IF IsScreen(doc, selector) THEN KeysOf(ScreenOf(doc, selector[1]))
  ELSE IF Len(selector) = 1 THEN DocumentKeys(doc) \cap {selector[1]}
  ELSE UNION {KeysOf(s) \cap {selector[2]} : s \in {t \in ToSet(doc.screens) : t.id = selector[1]}}

CompileScopeContract(input, doc) ==
  LET selectors == Selectors(input, doc)
      keys == UNION {KeysFor(doc, s) : s \in selectors}
      included == {s.id : s \in {t \in ToSet(doc.screens) : KeysOf(t) \cap keys # {}}}
  IN Only(/\ input.artifact = doc.artifact
          /\ DocumentIsSound(doc)
          /\ input.screens \cup input.keys \cup input.groups = {} => input.selected # {} /\ ~input.request
          /\ input.groups \subseteq Names(doc.groups)
          /\ \A s \in selectors : KeysFor(doc, s) # {}
          /\ Cardinality(included) <= input.maxScreens,
          [document |-> doc.id, artifact |-> doc.artifact, included |-> included,
           excluded |-> Names(doc.screens) \ included, keys |-> keys, groups |-> input.groups,
           request |-> input.request])

CompileRequirementContract(doc, scope) ==
  UNION {{[id |-> <<doc.id, s.id, r.key>>, screen |-> s.id, route |-> s.route, requirement |-> r] :
            r \in {q \in ToSet(s.requirements) : q.key \in scope.keys}} : s \in ToSet(doc.screens)}

-----------------------------------------------------------------------------
\* Acceptance: what the builder is told, and what the verifier checks.

Obligation(compiled) ==
  [id |-> compiled.id, route |-> compiled.route,
   preconditions |-> compiled.requirement.preconditions,
   actions |-> {[fixture |-> f, actor |-> IF f = "" THEN "user" ELSE "external_system"] :
                  f \in compiled.requirement.actions},
   oracles |-> compiled.requirement.oracles]

CompileAcceptanceContract(requirements, scope) ==
  [requirements |-> requirements, scope |-> scope, obligations |-> {Obligation(r) : r \in requirements}]

CollectFixtureKeys(obligations) ==
  UNION {o.preconditions \cup {a.fixture : a \in o.actions} \cup {q.fixture : q \in o.oracles} :
           o \in obligations} \ {""}

CreatePublicBrief(requirements, scope) ==
  [requirements |-> {[id |-> r.id, screen |-> r.screen, route |-> r.route, text |-> r.requirement.text] :
                       r \in requirements},
   screens |-> scope.included,
   fixtureKeys |-> CollectFixtureKeys({Obligation(r) : r \in requirements})]

RequiredEvidence == {"build-report", "unit-report", "hidden-e2e-report", "screenshot-report", "a11y-report"}

PackageHiddenVerifier(contract) ==
  [contract |-> contract, requiredKeys |-> CollectFixtureKeys(contract.obligations),
   verifier |-> [visibility |-> "hidden", policy |-> contract, required |-> RequiredEvidence]]

CreateFixtureBundle(contract, records) ==
  Only(/\ Distinct(records, LAMBDA r : r.key)
       /\ {r.key : r \in ToSet(records)} = CollectFixtureKeys(contract.obligations),
       [contract |-> contract, records |-> ToSet(records)])

-----------------------------------------------------------------------------
\* The scaffold and the builder's patch.

App == <<"src", "App.tsx">>
RuntimeFile(content) == [content |-> content, owner |-> "runtime", mutable |-> FALSE]

CreateReactViteScaffold(brief) ==
  LET requirements == <<"src", "requirements.generated.ts">>
      tests == <<"public-tests", "requirements.test.ts">>
  IN [path \in {<<"package.json">>, <<"src", "main.tsx">>, requirements, App, tests} |->
        CASE path = App -> [content |-> {}, owner |-> "builder", mutable |-> TRUE]
          [] path = tests -> [content |-> {"generated"}, owner |-> "public_test", mutable |-> TRUE]
          [] path = requirements -> RuntimeFile(brief.requirements)
          [] OTHER -> RuntimeFile({"generated"})]

PathAllowed(path) == Len(path) > 1 /\ path[1] \in {"src", "public-tests"}
ValidPath(path) == ToSet(path) \cap {"", ".", ".."} = {} /\ PathAllowed(path)

ApplyBuilderPatch(workspace, brief, patch) ==
  LET written == {f.path : f \in ToSet(patch.files)}
  IN Only(/\ {r.id : r \in brief.requirements} \subseteq patch.claims
          /\ \A path \in written : ValidPath(path) /\ (path \in DOMAIN workspace => workspace[path].mutable)
          /\ Distinct(patch.files, LAMBDA f : f.path),
          [path \in written \cup DOMAIN workspace |->
             IF path \in written
             THEN [content |-> (CHOOSE f \in ToSet(patch.files) : f.path = path).content,
                   owner |-> IF path[1] = "public-tests" THEN "public_test" ELSE "builder", mutable |-> TRUE]
             ELSE workspace[path]])

-----------------------------------------------------------------------------
\* The checks of a product.

Check(runner, report, required) == [runner |-> runner, evidence |-> report, required |-> required]

CreateVerificationPlan ==
  {Check("host", "build-report", TRUE), Check("host", "unit-report", TRUE),
   Check("public_container", "public-e2e-report", FALSE),
   Check("hidden_container", "hidden-e2e-report", TRUE),
   Check("hidden_container", "screenshot-report", TRUE),
   Check("hidden_container", "a11y-report", TRUE)}

\* What the hidden runner looks up for an obligation before it acts.
LookedUp(obligation) ==
  obligation.preconditions
  \cup {a.fixture : a \in {b \in obligation.actions : b.actor = "external_system"}}

\* Whether an obligation passes: a network oracle is about the status of a
\* fixture, any other about the page.
RunnerPasses(obligation, records, page) ==
  /\ LookedUp(obligation) \subseteq {r.key : r \in records}
  /\ \A q \in obligation.oracles :
       IF q.type = "network" THEN \E r \in records : r.key = q.fixture /\ r.status = q.value
       ELSE q.value \in page

-----------------------------------------------------------------------------
\* compileSpecDemoBundle and compileDemoBundleManifest.

\* The chosen groups of which a screen is included, and what is in none of them.
BundleGroups(doc, scope) ==
  LET chosen == {[id |-> g.id, screens |-> g.screens \cap scope.included] :
                   g \in {h \in ToSet(doc.groups) : h.id \in scope.groups}}
      kept == {g \in chosen : g.screens # {}}
      loose == scope.included \ UNION {g.screens : g \in kept}
  IN SetToSeq(kept) \o (IF loose = {} THEN <<>> ELSE <<[id |-> "explicit-selection", screens |-> loose]>>)

GroupsOf(groups, id) ==
  LET own == {g.id : g \in {h \in ToSet(groups) : id \in h.screens}}
  IN IF own = {} THEN {"explicit-selection"} ELSE own

CompileSpecDemoBundle(doc, scope) ==
  LET groups == BundleGroups(doc, scope)
  IN [groups |-> groups,
      bundle |-> [groups |-> Names(groups), screens |-> scope.included],
      screens |-> {[id |-> s.id, route |-> s.route, groups |-> GroupsOf(groups, s.id)] :
                     s \in {t \in ToSet(doc.screens) : t.id \in scope.included}}]

CompileDemoBundleManifest(draft) ==
  LET screens == {s.id : s \in draft.screens}
  IN Only(/\ Distinct(draft.groups, LAMBDA g : g.id)
          /\ \A s, t \in draft.screens : s.route = t.route => s = t
          /\ \A s \in draft.screens : s.groups # {} /\ s.groups \subseteq Names(draft.groups)
          /\ \A g \in ToSet(draft.groups) : g.screens # {} /\ g.screens \subseteq screens
          /\ \A g \in ToSet(draft.groups) : \A s \in draft.screens : s.id \in g.screens <=> g.id \in s.groups
          /\ draft.bundle.groups # {} /\ draft.bundle.groups \subseteq Names(draft.groups)
          /\ draft.bundle.screens = screens /\ screens # {},
          draft)

-----------------------------------------------------------------------------
\* prepareSpecToDemo, and what follows it.

PrepareSpecToDemo(input, doc) ==
  LET scope == CompileScopeContract(input, doc)
  IN IF scope = Without THEN Without
     ELSE LET requirements == CompileRequirementContract(doc, scope[1])
              manifest == CompileDemoBundleManifest(CompileSpecDemoBundle(doc, scope[1]))
              contract == CompileAcceptanceContract(requirements, scope[1])
              brief == CreatePublicBrief(requirements, scope[1])
          IN Only(manifest # Without,
                  [input |-> input, document |-> doc, contract |-> contract, brief |-> brief,
                   hidden |-> PackageHiddenVerifier(contract), scaffold |-> CreateReactViteScaffold(brief),
                   plan |-> CreateVerificationPlan, manifest |-> manifest[1]])

DeliveryInit ==
  /\ prepared = {} /\ workspaces = {} /\ fixtures = {} /\ evidence = {} /\ deliveries = {}

Prepare(input, doc) ==
  /\ Cardinality(prepared) < MaxPrepared
  /\ \E p \in ToSet(PrepareSpecToDemo(input, doc)) :
       /\ prepared' = prepared \cup {p}
       /\ workspaces' = workspaces \cup {p.scaffold}
  /\ UNCHANGED <<fixtures, evidence, deliveries>>

\* Also a workspace that was built before can be given to the builder.
Build(p, workspace, patch) ==
  /\ Cardinality(workspaces) < MaxPrepared + MaxBuilt
  /\ \E w \in ToSet(ApplyBuilderPatch(workspace, p.brief, patch)) : workspaces' = workspaces \cup {w}
  /\ UNCHANGED <<prepared, fixtures, evidence, deliveries>>

BundleFixtures(p, records) ==
  /\ Cardinality(fixtures) < MaxBundles
  /\ \E b \in ToSet(CreateFixtureBundle(p.contract, records)) : fixtures' = fixtures \cup {b}
  /\ UNCHANGED <<prepared, workspaces, evidence, deliveries>>

\* The verifier with the image of a prepared demo's hidden package runs on a
\* product, with some fixtures mounted; a report may be missing.
Verify(p, workspace, place, records, lost) ==
  /\ Cardinality(evidence) < MaxVerified
  /\ LET passes == \A o \in p.hidden.contract.obligations :
                      RunnerPasses(o, records, workspace[App].content)
     IN evidence' = evidence \cup
          {[place |-> place, product |-> workspace, verifier |-> p.hidden.verifier,
            outcome |-> IF passes THEN "passed" ELSE "failed",
            reports |-> {c.evidence : c \in p.plan} \ lost, records |-> records]}
  /\ UNCHANGED <<prepared, workspaces, fixtures, deliveries>>

\* Variant: a hidden verifier is taken for this demo's whatever it verified.
AcceptsAnyPolicy(p, workspace, place, e) ==
  /\ e.place = place /\ e.product = workspace
  /\ e.verifier.visibility = p.hidden.verifier.visibility
  /\ e.outcome = "passed" /\ e.verifier.required \subseteq e.reports

AcceptsEvidence(p, workspace, place, e) ==
  /\ e.place = place /\ e.product = workspace
  /\ e.verifier.visibility = p.hidden.verifier.visibility
  /\ e.verifier.policy = p.hidden.verifier.policy
  /\ e.outcome = "passed" /\ e.verifier.required \subseteq e.reports

\* One name stands for all that hold the words hidden.spec, in any place of a path.
HoldsHiddenSource(workspace) ==
  \E path \in DOMAIN workspace : path[1] = "verifier-hidden" \/ "hidden.spec.ts" \in ToSet(path)

PackageDemoDelivery(p, workspace, place, bundles) ==
  /\ Cardinality(deliveries) < MaxDelivered
  /\ ~HoldsHiddenSource(workspace)
  /\ bundles # {}
  /\ \A e \in bundles : AcceptsEvidence(p, workspace, place, e)
  /\ deliveries' = deliveries \cup
       {[prepared |-> p, product |-> workspace, place |-> place, evidence |-> bundles,
         passed |-> {r.id : r \in p.contract.requirements}]}
  /\ UNCHANGED <<prepared, workspaces, fixtures, evidence>>

DeliveryNext ==
  \/ \E input \in Inputs, doc \in Documents : Prepare(input, doc)
  \/ \E p \in prepared :
       \/ \E w \in workspaces, patch \in Patches : Build(p, w, patch)
       \/ \E records \in FixtureLists : BundleFixtures(p, records)
       \/ \E w \in workspaces, place \in Places, lost \in {{}, {"a11y-report"}},
             records \in {{}} \cup {b.records : b \in fixtures} : Verify(p, w, place, records, lost)
       \/ \E w \in workspaces, place \in Places, bundles \in SUBSET evidence :
             PackageDemoDelivery(p, w, place, bundles)

DeliverySpec == DeliveryInit /\ [][DeliveryNext]_deliveryVars

-----------------------------------------------------------------------------
\* What a customer asked for: a requirement named by itself or with its screen,
\* or any requirement of a screen or of a group that was named.
AskedFor(input, doc, screen, requirement) ==
  \/ <<screen.id>> \in Selectors(input, doc)
  \/ <<requirement.key>> \in Selectors(input, doc) /\ requirement.key \notin Names(doc.screens)
  \/ <<screen.id, requirement.key>> \in Selectors(input, doc)

AskedRequirements(input, doc, screen) == {r \in ToSet(screen.requirements) : AskedFor(input, doc, screen, r)}
AskedScreens(input, doc) == {s \in ToSet(doc.screens) : AskedRequirements(input, doc, s) # {}}

\* A delivered product meets every assertion of every requirement that was asked
\* for in the very document it is delivered for, with the fixtures it was run
\* with; it names these requirements and shows exactly their screens; every check
\* its plan requires left a report; and its runtime files are as generated.
ProvenFor(d, p) ==
  LET screens == AskedScreens(p.input, p.document)
      Asked(s) == AskedRequirements(p.input, p.document, s)
  IN /\ \A s \in screens : \A r \in Asked(s) :
          /\ \A q \in {o \in r.oracles : o.type # "network"} : q.value \in d.product[App].content
          /\ \A e \in d.evidence : \A q \in {o \in r.oracles : o.type = "network"} :
               [key |-> q.fixture, status |-> q.value] \in e.records
     /\ d.passed = UNION {{<<p.document.id, s.id, r.key>> : r \in Asked(s)} : s \in screens}
     /\ {s.id : s \in p.manifest.screens} = {s.id : s \in screens}
     /\ \A e \in d.evidence : {c.evidence : c \in {k \in p.plan : k.required}} \subseteq e.reports
     /\ \E other \in prepared :
          \A path \in {f \in DOMAIN other.scaffold : other.scaffold[f].owner = "runtime"} :
            d.product[path] = other.scaffold[path]

DeliveredIsProven == \A d \in deliveries : ProvenFor(d, d.prepared)
=============================================================================
