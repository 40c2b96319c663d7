---------------------------- MODULE SpecRevision ----------------------------
(***************************************************************************)
(* The workflow spec-feedback-to-spec: a Spec and feedback on it are       *)
(* pinned, the feedback becomes a contract, an agent proposes a patch, the *)
(* patch is applied to the pinned Spec, and the result is verified against *)
(* what was pinned before an owner approves it.  Each step is a process of *)
(* its own that reads the files the earlier ones wrote, and the Spec, the  *)
(* candidate or its document may be rewritten between any two of them,     *)
(* also after the verdict.  A script may repair the candidate of a run in  *)
(* a directory of its own.                                                 *)
(*                                                                         *)
(* A digest is the thing it is the digest of.  A pointer is the sequence   *)
(* of its segments, at most two; deeper ones change part of a member.      *)
(***************************************************************************)
EXTENDS PreviewContracts

CONSTANTS
  Sources,        \* documents a request may start from
  Feedbacks,      \* feedback documents: sequences of [id, mentions]
  Proposals,      \* what an agent may propose: sequences of [operation, path, value, feedback]
  Alterations,    \* proposals that somebody may write into an envelope
  RewordedScreens, ActiveScreens, ChangedScreens,
                  \* the screens that the repair script words anew, makes canonical, replaces
  Anchors,        \* navigation targets with a fragment, and what they are without it
  MaxRequests, MaxRewrites  \* bounds of the model

\* Documents are JSON texts: what they hold is finite, and so is what a patch
\* puts in the place of a root.
ASSUME DocumentAssumption ==
  /\ \A doc \in Sources : \A root \in DOMAIN doc : doc[root].array => IsFiniteSet(DOMAIN doc[root].at)
  /\ \A operations \in Proposals :
       /\ operations \in Seq(ToSet(operations))
       /\ \A op \in ToSet(operations) :
            /\ DOMAIN op = {"operation", "path", "value", "feedback"}
            /\ Len(op.path) = 1 => (op.value.array => IsFiniteSet(DOMAIN op.value.at))
  /\ Alterations \subseteq Proposals

VARIABLES
  pinned,    \* the files of the request: [source, feedback]
  request,   \* what the request says of them
  step,      \* the node that runs next, or how the run ended
  contract,  \* contract.json; <<>> until it is written
  proposal,  \* patch-proposal.json: a sequence of operations
  envelope,  \* candidate-envelope.json, or <<>>
  child,     \* child-spec.candidate.json, the document of the candidate, or <<>>
  report,    \* what the verification wrote, or <<>>
  repairs,   \* the directories of repairs: [run, request, candidate, report, altered]
  approved,  \* the approved revisions
  altered,   \* which files of the run were rewritten: history
  requests, rewrites  \* counts, for the bounds

runVars == <<pinned, request, step, contract, proposal, envelope, child, report, altered>>
specVars == <<runVars, repairs, approved, requests, rewrites>>

-----------------------------------------------------------------------------
\* JSON pointers and patches.

With(fields, key, value) ==
  [k \in {key} \cup DOMAIN fields |-> IF k = key THEN value ELSE fields[k]]

ApplyToRoot(doc, op) ==
  LET root == op.path[1]
  IN IF op.operation # "add" /\ root \notin DOMAIN doc THEN <<>>
     ELSE <<With(doc, root, op.value)>>

\* Where a key is in an array of n members, {} when it is no index of it.
ArrayIndex(key, n, append) ==
  IF append /\ key = "-" THEN {n + 1}
  ELSE {i \in 1..(IF append THEN n + 1 ELSE n) : Digits[i] = key}

ApplyToArray(items, op) ==
  LET index == ArrayIndex(op.path[2], Len(items), op.operation = "add")
  IN IF index = {} THEN <<>>
     ELSE LET i == CHOOSE j \in index : TRUE
          IN <<Array(IF op.operation = "add" THEN InsertAt(items, i, op.value)
                     ELSE IF op.operation = "replace" THEN ReplaceAt(items, i, op.value)
                     ELSE RemoveAt(items, i))>>

ApplyToObject(value, op) ==
  LET key == op.path[2]
  IN IF op.operation # "add" /\ key \notin DOMAIN value.at THEN <<>>
     ELSE IF op.operation = "remove"
          THEN <<Object([k \in DOMAIN value.at \ {key} |-> value.at[k]])>>
          ELSE <<Object(With(value.at, key, op.value))>>

\* The document after one operation, <<>> when the pointer leads nowhere.
ApplyOperation(doc, op) ==
  LET root == op.path[1]
  IN IF Len(op.path) = 1 THEN ApplyToRoot(doc, op)
     ELSE IF root \notin DOMAIN doc THEN <<>>
     ELSE LET changed == IF doc[root].array THEN ApplyToArray(Entries(doc[root]), op)
                         ELSE ApplyToObject(doc[root], op)
          IN IF changed = <<>> THEN <<>> ELSE <<[doc EXCEPT ![root] = changed[1]]>>

ApplyAll(doc, operations) ==
  FoldLeft(LAMBDA d, op : IF d = <<>> THEN <<>> ELSE ApplyOperation(d[1], op), <<doc>>, operations)

-----------------------------------------------------------------------------
\* The contract.

RequiredPointers ==
  {"meta", "references", "scope", "glossary", "actors", "requirements", "domainModel", "stateMachines",
   "apiContracts", "screens", "flows", "dataBindings", "authority", "acceptance", "nonFunctional",
   "assumptions", "openQuestions", "traceability"}
AllowedPathPrefixes ==
  RequiredPointers \cup {"components", "interactionModel", "navModel", "stateModel", "mockData",
                         "demoStoryboard", "roleBasedConsole"}

FeedbackIds(feedback) == [i \in DOMAIN feedback |-> feedback[i].id]
Mentioned(feedback) == UNION {item.mentions : item \in ToSet(feedback)}

\* The members of the source that the feedback is about, by their pointers.
AffectedProjection(doc, mentioned) ==
  LET At(root, Affected(_)) ==
        {<<root, Digits[i]>> : i \in {j \in DOMAIN Records(doc, root) : Affected(Records(doc, root)[j])}}
      screens == {s \in ToSet(Records(doc, "screens")) : s.id \in mentioned}
      selected == Field(doc, "scope", "selectedScreensForS1Evidence", {})
      journeys == (mentioned \cup {Field(doc, "scope", "activeDemoJourneyId", "")}) \ {""}
  IN At("screens", LAMBDA s : s \in screens)
     \cup At("actors", LAMBDA a : \E s \in screens : a.id \in s.actors)
     \cup At("interactionModel", LAMBDA i : i.id \in mentioned)
     \cup At("demoStoryboard", LAMBDA b : b.screen \in mentioned \/ b.journey \in journeys)
     \cup {<<"acceptance", s.id>> : s \in {t \in ToSet(Scenarios(doc)) :
             \/ t.id \in mentioned
             \/ \E c \in ToSet(t.checks) : c.screen \in mentioned \cup selected \/ c.id \in mentioned}}

SpecFeedbackContract(source, feedback, authority) ==
  [source |-> source, feedback |-> feedback, authority |-> authority,
   affected |-> AffectedProjection(source, Mentioned(feedback))]

ValidProposal(operations, c) ==
  /\ operations # <<>>
  /\ \A i, j \in DOMAIN operations : i # j => operations[i].path # operations[j].path
  /\ \A op \in ToSet(operations) :
       /\ op.path[1] \in c.authority
       /\ op.feedback \in ToSet(FeedbackIds(c.feedback))
       /\ op.operation # "remove"

\* The candidate of a patch, <<>> when it is refused.  Its id is a digest of the rest.
MaterializeCandidate(source, c, operations) ==
  LET revised == ApplyAll(source, operations)
  IN IF ~ValidProposal(operations, c) \/ source # c.source \/ revised \in {<<>>, <<source>>} THEN <<>>
     ELSE <<[parent |-> c.source, contract |-> c, operations |-> operations,
             document |-> revised[1], digest |-> revised[1], id |-> <<c, operations, revised[1]>>]>>

-----------------------------------------------------------------------------
\* The verdict on a candidate.

\* Variant: a candidate that carries the digests of its contract and of its own
\* document is not derived again from its operations.
VerdictByDigests(source, candidate, c, findings) ==
  (IF candidate.parent # c.source THEN {"PARENT_DIGEST_MISMATCH"} ELSE {})
  \cup (IF candidate.contract # c THEN {"CONTRACT_DIGEST_MISMATCH"} ELSE {})
  \cup (IF candidate.document # candidate.digest THEN {"CONTENT_DIGEST_MISMATCH"} ELSE {})
  \cup (IF RequiredPointers \subseteq DOMAIN candidate.document THEN {} ELSE {"REQUIRED_POINTER_MISSING"})
  \cup findings

VerifySpecRevision(source, candidate, c, findings) ==
  (IF candidate.parent # c.source THEN {"PARENT_DIGEST_MISMATCH"} ELSE {})
  \cup (IF candidate.contract # c THEN {"CONTRACT_DIGEST_MISMATCH"} ELSE {})
  \cup (IF candidate.document # candidate.digest THEN {"CONTENT_DIGEST_MISMATCH"} ELSE {})
  \cup (IF MaterializeCandidate(source, c, candidate.operations) = <<candidate>> THEN {}
        ELSE {"CANDIDATE_MATERIALIZATION_MISMATCH"})
  \cup (IF RequiredPointers \subseteq DOMAIN candidate.document THEN {} ELSE {"REQUIRED_POINTER_MISSING"})
  \cup findings

\* The reports on a candidate: baseline is the document whose members it must keep.
\* The verdict on file names the candidate by its id.
Reports(source, baseline, candidate, c, target) ==
  LET gaps == SemanticFindings(candidate.document)
  IN [candidate |-> candidate, baseline |-> baseline,
      findings |-> VerifySpecRevision(source, candidate, c,
                     StructuralFindings(baseline, candidate.document) \cup RevisionFindings(gaps)),
      gaps |-> gaps,
      stages |-> [stage \in MaturityStages |-> StageVerdict(stage, gaps, target)],
      preview |-> CompilePreviewContracts(candidate.document, candidate.digest, StageBlockers("S2", gaps))]

Passed(r) == r.findings = {}
Approvable(candidate, r) == Passed(r) /\ r.candidate.id = candidate.id

-----------------------------------------------------------------------------
\* The steps.

NoRequest == [source |-> <<>>, feedback |-> <<>>, target |-> "S1", origin |-> <<>>]

SpecInit ==
  /\ pinned = [source |-> <<>>, feedback |-> <<>>]
  /\ request = NoRequest
  /\ step = "idle"
  /\ contract = <<>> /\ proposal = <<>> /\ envelope = <<>> /\ child = <<>> /\ report = <<>>
  /\ repairs = {} /\ approved = {} /\ altered = {}
  /\ requests = 0 /\ rewrites = 0

\* A request from a document: the origin is the one its line of revisions
\* started from.  A request may build on the last run when that was about the
\* same source and feedback and got as far as a gap report.
PrepareRequest(source, origin, feedback, target, onLastRun) ==
  /\ step \in {"idle", "done", "failed"}
  /\ requests < MaxRequests
  /\ feedback # <<>>
  /\ onLastRun => /\ contract # <<>> /\ proposal # <<>> /\ report # <<>>
                  /\ contract[1].source = source /\ contract[1].feedback = feedback
  /\ pinned' = [source |-> source, feedback |-> feedback]
  /\ request' = [source |-> source, feedback |-> feedback, target |-> target, origin |-> origin]
  /\ step' = "compile"
  /\ contract' = <<>> /\ proposal' = <<>> /\ envelope' = <<>> /\ child' = <<>> /\ report' = <<>>
  /\ altered' = {}
  /\ requests' = requests + 1
  /\ UNCHANGED <<repairs, approved, rewrites>>

Fail ==
  /\ step' = "failed"
  /\ UNCHANGED <<pinned, request, contract, proposal, envelope, child, report, altered>>

\* A feedback document that says one id twice is pinned with the id once, and
\* is then taken to have changed.
CompileFeedback ==
  /\ step = "compile"
  /\ IF /\ pinned.source = request.source /\ pinned.feedback = request.feedback
        /\ IsInjective(FeedbackIds(pinned.feedback))
     THEN /\ contract' = <<SpecFeedbackContract(pinned.source, pinned.feedback, AllowedPathPrefixes)>>
          /\ step' = "propose"
          /\ UNCHANGED <<pinned, request, proposal, envelope, child, report, altered>>
     ELSE Fail
  /\ UNCHANGED <<repairs, approved, requests, rewrites>>

ProposePatch(operations) ==
  /\ step = "propose"
  /\ proposal' = operations
  /\ step' = "materialize"
  /\ UNCHANGED <<pinned, request, contract, envelope, child, report, altered,
                 repairs, approved, requests, rewrites>>

\* The record of the revision gets its lineage: which request it came from.
Stamped(operations, doc) ==
  [i \in DOMAIN operations |->
     IF operations[i].path = <<"meta", "revision">>
     THEN [operations[i] EXCEPT !.value = [doc["meta"].at["revision"] EXCEPT !.lineage = requests]]
     ELSE operations[i]]

MaterializeRevision ==
  /\ step = "materialize"
  /\ LET first == MaterializeCandidate(pinned.source, contract[1], proposal)
         made == MaterializeCandidate(pinned.source, contract[1], Stamped(proposal, first[1].document))
     IN IF /\ first # <<>> /\ Field(first[1].document, "meta", "revision", <<>>) # <<>>
           /\ made # <<>>
        THEN /\ envelope' = made
             /\ child' = <<made[1].document>>
             /\ step' = "verify"
             /\ UNCHANGED <<pinned, request, contract, proposal, report, altered>>
        ELSE Fail
  /\ UNCHANGED <<repairs, approved, requests, rewrites>>

VerifyRevision ==
  /\ step = "verify"
  /\ IF pinned.source = contract[1].source
     THEN /\ report' = <<Reports(pinned.source, pinned.source, envelope[1], contract[1], request.target)>>
          /\ step' = IF Passed(report'[1]) THEN "approve" ELSE "failed"
          /\ UNCHANGED <<pinned, request, contract, proposal, envelope, child, altered>>
     ELSE Fail
  /\ UNCHANGED <<repairs, approved, requests, rewrites>>

\* An approval: the candidate as it is then, the one its verdict is about, and
\* what that was measured by.
Approval(candidate, r, asked, changed, repaired) ==
  [candidate |-> candidate, verified |-> r.candidate, baseline |-> r.baseline,
   request |-> asked, altered |-> changed, repaired |-> repaired]

\* The owner approves what the envelope holds, if its id is the one the verdict
\* names, or does not.
ApproveRevision ==
  /\ step = "approve"
  /\ step' = "done"
  /\ \/ /\ Approvable(envelope[1], report[1])
        /\ approved' = approved \cup {Approval(envelope[1], report[1], request, altered, FALSE)}
     \/ approved' = approved
  /\ UNCHANGED <<pinned, request, contract, proposal, envelope, child, report, altered,
                 repairs, requests, rewrites>>

-----------------------------------------------------------------------------
\* The repair of a candidate by a script that knows its faults.

RepairedAssumption(item) ==
  [item EXCEPT !.status = IF StatusOf(item) = "assumed" THEN "assumed" ELSE @,
               !.reviewed = TRUE,
               !.blocks = IF @ = {} THEN {"preview"} ELSE @]

\* Flows that an action goes to and nobody wrote.
MissingFlows(doc) ==
  {a.target : a \in {b \in UNION {s.actions : s \in ToSet(Records(doc, "screens"))} : b.kind = "flow"}}
    \ Ids(Records(doc, "flows"))

\* The routes of the screens: a screen that repeats one of those before it gets
\* the one it had.
RepairedRoutes(screens, baseline) ==
  LET routes[i \in DOMAIN screens] ==
        LET original == ScreenById(baseline, screens[i].id)
        IN IF (\E j \in 1..(i - 1) : routes[j] = screens[i].route) /\ original # <<>> /\ original[1].route # ""
           THEN original[1].route
           ELSE screens[i].route
  IN routes

RepairedScreen(doc, baseline, i) ==
  LET screens == Records(doc, "screens")
      original == ScreenById(baseline, screens[i].id)
  IN [screens[i] EXCEPT
        !.audience = IF @ = "" /\ original # <<>> THEN original[1].audience ELSE @,
        !.route = RepairedRoutes(screens, baseline)[i],
        !.canonical = @ \/ screens[i].id \in ActiveScreens]

WithoutAnchor(item) ==
  [item EXCEPT !.target = IF @ \in DOMAIN Anchors THEN Anchors[@] ELSE @]

RepairedNavigation(nav) ==
  IF nav.array \/ "items" \notin DOMAIN nav.at THEN nav
  ELSE Object(With(nav.at, "items",
                   [i \in DOMAIN nav.at["items"] |-> WithoutAnchor(nav.at["items"][i])]))

RepairAuthority == {"meta", "requirements", "assumptions", "flows", "navModel", "screens"}

\* What the script reads without asking whether it is there.
Repairable(doc, baseline) ==
  /\ \A root \in {"requirements", "assumptions", "flows", "screens"} : root \in DOMAIN doc /\ doc[root].array
  /\ {"meta", "navModel"} \subseteq DOMAIN doc
  /\ "screens" \in DOMAIN baseline /\ baseline["screens"].array
  /\ RewordedScreens \subseteq Ids(Records(doc, "screens"))

Replace(path, value, id) == [operation |-> "replace", path |-> path, value |-> value, feedback |-> id]

\* The references of a requirement are gathered under one name: the profiles look
\* at them under each.  The screens are in the order of the document, which is all
\* the same for what they make of it.
RepairOperations(doc, baseline, id) ==
  LET assumptions == Records(doc, "assumptions")
      screens == Records(doc, "screens")
      flows == Records(doc, "flows") \o SetToSeq({[id |-> f] : f \in MissingFlows(doc)})
  IN <<Replace(<<"meta", "revision">>, [doc["meta"].at["revision"] EXCEPT !.lineage = requests], id),
       Replace(<<"requirements">>, Array(Records(doc, "requirements")), id),
       Replace(<<"assumptions">>, Array([i \in DOMAIN assumptions |-> RepairedAssumption(assumptions[i])]), id),
       Replace(<<"flows">>, Array(flows), id),
       Replace(<<"navModel">>, RepairedNavigation(doc["navModel"]), id)>>
     \o SetToSeq({Replace(<<"screens", Digits[i]>>, RepairedScreen(doc, baseline, i), id) :
                    i \in {j \in DOMAIN screens : screens[j].id \in ChangedScreens}})

\* The script goes by the files of a run, whatever became of it: the document of
\* the candidate becomes a source, and what must be kept is what the pinned file
\* has by now.  It writes a directory of its own, once for each content.
FinalizeRepair ==
  /\ child # <<>> /\ Repairable(child[1], pinned.source)
  /\ LET c == SpecFeedbackContract(child[1], contract[1].feedback, RepairAuthority)
         made == MaterializeCandidate(child[1], c,
                   RepairOperations(child[1], pinned.source, FeedbackIds(c.feedback)[1]))
     IN /\ made # <<>>
        /\ \A r \in repairs : ~(r.run = requests /\ r.report.candidate.digest = made[1].digest)
        /\ repairs' = repairs \cup
             {[run |-> requests, request |-> request, candidate |-> made[1],
               report |-> Reports(child[1], pinned.source, made[1], c, "S1"),
               altered |-> altered \ {"envelope"}]}
  /\ UNCHANGED <<runVars, approved, requests, rewrites>>

ApproveRepair(r) ==
  /\ Approvable(r.candidate, r.report)
  /\ approved' = approved \cup {Approval(r.candidate, r.report, r.request, r.altered, TRUE)}
  /\ UNCHANGED <<runVars, repairs, requests, rewrites>>

-----------------------------------------------------------------------------
\* Somebody rewrites a file, at any time once it is there.

RewriteSource(doc) ==
  /\ step # "idle"
  /\ pinned' = [pinned EXCEPT !.source = doc]
  /\ altered' = altered \cup {"source"}
  /\ UNCHANGED <<envelope, child, repairs>>

RewriteChild(doc) ==
  /\ child # <<>>
  /\ child' = <<doc>>
  /\ altered' = altered \cup {"child"}
  /\ UNCHANGED <<pinned, envelope, repairs>>

\* What an envelope may be made: another document, other operations, and the
\* digest and the id those had or those of what it holds now.
AlteredTo(e, d, operations, stale, kept) ==
  [e EXCEPT !.document = d, !.operations = operations,
            !.digest = IF stale THEN @ ELSE d, !.id = IF kept THEN @ ELSE <<e.contract, operations, d>>]

Altered(e, doc) ==
  {AlteredTo(e, d, operations, stale, kept) :
     d \in {doc, e.document}, operations \in {e.operations} \cup Alterations, stale \in BOOLEAN, kept \in BOOLEAN}

RewriteEnvelope(doc) ==
  /\ envelope # <<>>
  /\ \E e \in Altered(envelope[1], doc) : envelope' = <<e>>
  /\ altered' = altered \cup {"envelope"}
  /\ UNCHANGED <<pinned, child, repairs>>

RewriteRepair(doc) ==
  /\ \E r \in repairs : \E e \in Altered(r.candidate, doc) :
       repairs' = (repairs \ {r}) \cup {[r EXCEPT !.candidate = e, !.altered = @ \cup {"envelope"}]}
  /\ UNCHANGED <<pinned, child, envelope, altered>>

Rewrite ==
  /\ rewrites < MaxRewrites
  /\ rewrites' = rewrites + 1
  /\ \E doc \in Sources : RewriteSource(doc) \/ RewriteChild(doc) \/ RewriteEnvelope(doc) \/ RewriteRepair(doc)
  /\ UNCHANGED <<request, step, contract, proposal, report, approved, requests>>

\* A line of revisions goes on with what was approved as it was verified, against
\* what was requested; anything else starts a line of its own.
OriginOf(a) ==
  IF a.candidate = a.verified /\ a.baseline = a.request.source THEN a.request.origin
  ELSE a.candidate.document

Origins == {[source |-> d, origin |-> d] : d \in Sources}
           \cup {[source |-> a.candidate.document, origin |-> OriginOf(a)] : a \in approved}

SpecNext ==
  \/ \E s \in Origins, feedback \in Feedbacks, target \in {"S1", "S2"}, onLastRun \in BOOLEAN :
       PrepareRequest(s.source, s.origin, feedback, target, onLastRun)
  \/ CompileFeedback
  \/ \E operations \in Proposals : ProposePatch(operations)
  \/ MaterializeRevision
  \/ VerifyRevision
  \/ ApproveRevision
  \/ FinalizeRepair
  \/ \E r \in repairs : ApproveRepair(r)
  \/ Rewrite

RevisionSpec == SpecInit /\ [][SpecNext]_specVars

-----------------------------------------------------------------------------
\* Nothing outside an authority differs.
Untouched(doc, source, authority) ==
  \A root \in (DOMAIN doc \cup DOMAIN source) \ authority :
    /\ root \in DOMAIN doc \cap DOMAIN source
    /\ doc[root] = source[root]

Keeps(origin, doc) ==
  \A section \in NamedSections : Ids(Records(origin, section)) \subseteq Ids(Records(doc, section))

\* What an approval's verdict is about is the Spec as it was pinned with the
\* proposed operations, whatever file was rewritten before, or what a repair read
\* with those of the script; each operation is for feedback that was given.
\* Outside the contract's authority nothing differs, for a repair not even from
\* the pinned Spec if nobody rewrote the document it read.  And what is approved
\* is that candidate, unless its envelope was rewritten.
ApprovedIsWhatWasAsked ==
  \A a \in approved :
    LET v == a.verified
        c == a.verified.contract
    IN /\ ApplyAll(c.source, v.operations) = <<v.document>>
       /\ \A op \in ToSet(v.operations) : op.feedback \in ToSet(FeedbackIds(a.request.feedback))
       /\ Untouched(v.document, c.source, c.authority)
       /\ a.repaired \/ c.source = a.request.source
       /\ "child" \notin a.altered => Untouched(v.document, a.request.source, AllowedPathPrefixes)
       /\ "envelope" \notin a.altered => a.candidate = v

\* Along a line of revisions that are approved as they were verified no screen,
\* actor or component of the document it started from is lost, also when roots are
\* replaced as a whole and when candidates are repaired.  A run measures by what was
\* requested, whatever is rewritten; a repair does unless the Spec was rewritten.
NothingIsLost ==
  \A a \in approved :
    /\ (a.repaired => "source" \notin a.altered) => a.baseline = a.request.source
    /\ Keeps(a.baseline, a.verified.document)
    /\ a.baseline = a.request.source => Keeps(a.request.origin, a.verified.document)

\* "Only the independently verified candidate can be approved": not so, for an
\* envelope that is rewritten after its verdict keeps its id.
ApprovedIsVerified == \A a \in approved : a.candidate = a.verified

\* The reports of the run and of the repairs.
AllReports == ToSet(report) \cup {r.report : r \in repairs}

\* Some choice of what each actor sees meets every check that names an actor,
\* the screens of the checks are not deprecated, and the demo has a screen to
\* start from.
CanBeShown(doc) ==
  LET named == {c \in Checks(doc) : "" \notin {c.screen, c.actor, c.action}}
      live == Ids(Records(doc, "screens")) \ Field(doc, "scope", "deprecatedCompatibilityScreens", {})
  IN /\ \E shown \in SUBSET {Signature(c) : c \in named} :
          \A c \in named : (Hides(c) => Signature(c) \notin shown) /\ (Needs(c) => Signature(c) \in shown)
     /\ \A c \in Checks(doc) : c.screen \in live
     /\ Field(doc, "scope", "selectedScreensForS1Evidence", {}) # {} =>
          Field(doc, "scope", "entryScreenId", "") \in live

\* A document without a demo blocker can be shown.  Yet no document is mature
\* enough for a demo by itself.
CleanSpecsCanBeShown ==
  \A r \in AllReports :
    /\ r.stages["S1"] = "blocked"
    /\ RevisionFindings(r.gaps) = {} => CanBeShown(r.candidate.document)

\* What keeps a Spec from its preview is somebody's: every blocker of stage S2 is
\* in the contract of the data or of the API, and the contracts are ready exactly
\* when the stage passes.
NoBlockerIsLost ==
  \A r \in AllReports :
    /\ StageBlockers("S2", r.gaps) = r.preview.data.blockers \cup r.preview.api.blockers
    /\ r.preview.status = "ready" <=> r.stages["S2"] = "passed"
=============================================================================
