-------------------------- MODULE Services_proofs --------------------------
(***************************************************************************)
(* Eight services that stand around a run and share no state: the object   *)
(* CAS, the gateways of models and of tools, the router, the view of a run *)
(* its operators are shown, the plan its workers share, the records of the *)
(* control plane, and the workflow editor.  One section each.  What is     *)
(* proved holds for any number of puts, calls, paths, aliases, secrets,    *)
(* approvals, events, workers, branches, artifacts, tenants, workflows and *)
(* edits, and any limits.                                                  *)
(***************************************************************************)
EXTENDS ObjectCas, RunControl, Router, ModelGateway, ToolGateway, PlanStore,
        ControlRecords, WorkflowEditor, FiniteSetTheorems, FunctionTheorems, WellFoundedInduction, SequenceTheorems, TLAPS

-----------------------------------------------------------------------------
\* The object CAS: what a put holds at each of its steps.

\* What a put holds while it is under way: from its hash on, the temporary
\* file is all of the source, and a put that found its object there leaves it.
PutsAreWhole ==
  \A u \in Uploads :
    /\ upload[u].step # "idle" => upload[u].source \in Contents
    /\ upload[u].step \in {"hashed", "removing", "renaming"} => temporary[u] = upload[u].source
    /\ upload[u].step = "removing" => objects[upload[u].source] # Absent

ObjectsStay ==
  /\ \A h \in Contents : objects[h] \in {Absent, h, Damaged}
  /\ \A h \in acknowledged : objects[h] # Absent
  /\ \A k \in CacheKeys : cache[k] # Absent => cache[k] \in acknowledged

CasInv == CasTypeOK /\ PutsAreWhole /\ ObjectsStay

LEMMA CasInitInv == CasInit => CasInv
BY CasValues, MaxPutsAssumption DEF CasInit, CasInv, CasTypeOK, PutsAreWhole, ObjectsStay, NoUpload, PutStep

\* One step of a put.
LEMMA PutKeepsInv ==
  ASSUME CasInv, NEW u \in Uploads, PutAdvances(u)
  PROVE  CasInv'
<1> USE CasValues, MaxPutsAssumption DEF CasInv, CasTypeOK, PutStep
<1>1. ASSUME NEW source \in Contents, NEW expected \in Contents \cup {Absent}, BeginPut(u, source, expected)
      PROVE  CasInv'
  <2>1. CasTypeOK'
    BY <1>1 DEF BeginPut
  <2>2. PutsAreWhole'
    BY <1>1 DEF BeginPut, PutsAreWhole
  <2>3. ObjectsStay'
    BY <1>1 DEF BeginPut, ObjectsStay
  <2> QED BY <2>1, <2>2, <2>3
<1>2. CASE WriteChunks(u)
  <2>0. upload[u].source \in Contents
    BY <1>2 DEF WriteChunks, PutsAreWhole
  <2>1. CasTypeOK'
    BY <1>2, <2>0 DEF WriteChunks, GotoPut
  <2>2. PutsAreWhole'
    BY <1>2, <2>0 DEF WriteChunks, GotoPut, PutsAreWhole
  <2>3. ObjectsStay'
    BY <1>2 DEF WriteChunks, ObjectsStay
  <2> QED BY <2>1, <2>2, <2>3
<1>3. CASE FailPut(u)
  <2>1. CasTypeOK'
    BY <1>3 DEF FailPut, EndPut, NoUpload
  <2>2. PutsAreWhole'
    BY <1>3 DEF FailPut, EndPut, NoUpload, PutsAreWhole
  <2>3. ObjectsStay'
    BY <1>3 DEF FailPut, ObjectsStay
  <2> QED BY <2>1, <2>2, <2>3
<1>4. CASE LookAtDestination(u)
  <2>0. /\ upload[u].source \in Contents /\ temporary[u] = upload[u].source
        /\ upload[u].step = "hashed"
    BY <1>4 DEF LookAtDestination, PutsAreWhole
  <2>1. CASE EndPut(u)
    <3>1. CasTypeOK'
      BY <1>4, <2>1 DEF LookAtDestination, EndPut, NoUpload
    <3>2. PutsAreWhole'
      BY <1>4, <2>1 DEF LookAtDestination, EndPut, NoUpload, PutsAreWhole
    <3>3. ObjectsStay'
      BY <1>4 DEF LookAtDestination, ObjectsStay
    <3> QED BY <3>1, <3>2, <3>3
  <2>2. CASE objects[ContentHash(u)] = ContentHash(u) /\ GotoPut(u, "removing") /\ UNCHANGED temporary
    <3>1. CasTypeOK'
      BY <1>4, <2>2 DEF LookAtDestination, GotoPut
    <3>2. PutsAreWhole'
      BY <1>4, <2>0, <2>2 DEF LookAtDestination, GotoPut, ContentHash, PutsAreWhole
    <3>3. ObjectsStay'
      BY <1>4 DEF LookAtDestination, ObjectsStay
    <3> QED BY <3>1, <3>2, <3>3
  <2>3. CASE objects[ContentHash(u)] = Absent /\ GotoPut(u, "renaming") /\ UNCHANGED temporary
    <3>1. CasTypeOK'
      BY <1>4, <2>3 DEF LookAtDestination, GotoPut
    <3>2. PutsAreWhole'
      BY <1>4, <2>0, <2>3 DEF LookAtDestination, GotoPut, ContentHash, PutsAreWhole
    <3>3. ObjectsStay'
      BY <1>4 DEF LookAtDestination, ObjectsStay
    <3> QED BY <3>1, <3>2, <3>3
  <2> QED BY <1>4, <2>1, <2>2, <2>3 DEF LookAtDestination
<1>5. CASE RemoveTemporary(u)
  <2>0. upload[u].source \in Contents /\ objects[upload[u].source] # Absent
    BY <1>5 DEF RemoveTemporary, PutsAreWhole
  <2>1. CasTypeOK'
    BY <1>5, <2>0 DEF RemoveTemporary, Acknowledge, ContentHash, EndPut, NoUpload
  <2>2. PutsAreWhole'
    BY <1>5 DEF RemoveTemporary, EndPut, NoUpload, PutsAreWhole
  <2>3. ObjectsStay'
    BY <1>5, <2>0 DEF RemoveTemporary, Acknowledge, ContentHash, ObjectsStay
  <2> QED BY <2>1, <2>2, <2>3
<1>6. CASE RenameTemporary(u)
  <2>0. /\ upload[u].source \in Contents /\ temporary[u] = upload[u].source
    BY <1>6 DEF RenameTemporary, PutsAreWhole
  <2>4. objects' = [objects EXCEPT ![upload[u].source] = upload[u].source]
    BY <1>6, <2>0 DEF RenameTemporary, ContentHash
  <2>1. CasTypeOK'
    BY <1>6, <2>0, <2>4 DEF RenameTemporary, Acknowledge, ContentHash, EndPut, NoUpload
  <2>2. PutsAreWhole'
    BY <1>6, <2>0, <2>4 DEF RenameTemporary, EndPut, NoUpload, PutsAreWhole
  <2>3. ObjectsStay'
    BY <1>6, <2>0, <2>4 DEF RenameTemporary, Acknowledge, ContentHash, ObjectsStay
  <2> QED BY <2>1, <2>2, <2>3
<1> QED BY <1>1, <1>2, <1>3, <1>4, <1>5, <1>6 DEF PutAdvances

LEMMA CasStepInv == CasInv /\ [CasNext]_casVars => CasInv'
<1> SUFFICES ASSUME CasInv, [CasNext]_casVars PROVE CasInv'
  OBVIOUS
<1>1. ASSUME NEW u \in Uploads, PutAdvances(u) PROVE CasInv'
  BY <1>1, PutKeepsInv
<1>2. ASSUME NEW h \in Contents, Corrupt(h) PROVE CasInv'
  BY <1>2, CasValues DEF Corrupt, CasInv, CasTypeOK, PutsAreWhole, ObjectsStay
<1>3. ASSUME NEW h \in Contents, NEW k \in CacheKeys, CachePut(k, h) PROVE CasInv'
  BY <1>3, CasValues DEF CachePut, CasInv, CasTypeOK, PutsAreWhole, ObjectsStay
<1>4. CASE UNCHANGED casVars
  BY <1>4 DEF casVars, CasInv, CasTypeOK, PutsAreWhole, ObjectsStay
<1> QED BY <1>1, <1>2, <1>3, <1>4 DEF CasNext

LEMMA CasInvHolds == CasSpec => []CasInv
BY CasInitInv, CasStepInv, PTL DEF CasSpec

\* An object is what its hash says, or damaged, and never missing once a put of it
\* was acknowledged or a cache entry points at it: putFile, however its steps and
\* those of other puts of the same content fall (cas.ts).
THEOREM PutsAreServed == CasSpec => []AcknowledgedAreServed
<1>1. CasInv => AcknowledgedAreServed
  BY DEF CasInv, ObjectsStay, AcknowledgedAreServed
<1> QED BY <1>1, CasInvHolds, PTL

-----------------------------------------------------------------------------
\* The model gateway: how far the timer, the span and the answer of a call are.

UnderWay == {"armed", "fired"}

\* What an ended call is told, by what decided it.
ToldRight(c, outcome, spent) ==
  LET named == race[c] \in NamedFailures
  IN /\ spent <=> (outcome = Returned \/ (outcome \in Refusals /\ ~named))
     /\ outcome = "PROVIDER_TIMEOUT" => named \/ race[c] = Aborted
     /\ outcome = "CANCELLED" => named \/ aborted[c]
     /\ named /\ aborted[c] => outcome = "CANCELLED"

\* How far a call is, by its timer, is how far its span is and what was told.
CallsKeepStep ==
  \A c \in Calls :
    /\ timer[c] = "off" => /\ span[c] = "none"
                           /\ told[c] \in {Pending, "MODEL_PROVIDER_NOT_FOUND", "MODEL_REQUEST_INVALID"}
    /\ timer[c] \in UnderWay => span[c] = "open" /\ told[c] = Pending
    /\ timer[c] = "fired" => race[c] = Aborted
    /\ timer[c] = "armed" /\ race[c] = Aborted => aborted[c]
    /\ timer[c] = "cleared" => /\ told[c] # Pending
                               /\ span[c] = SpanOf(told[c])
                               /\ ToldRight(c, told[c], usage[c])

ModelInv == ModelTypeOK /\ CallsKeepStep

\* An answer is no failure, and neither is an abort.
LEMMA OutcomesApart ==
  /\ Answered \cap NamedFailures = {}
  /\ Pending \notin Outcomes /\ Aborted \notin Outcomes /\ Pending # Aborted
<1>1. \A x \in Answered : x.by = "answer"
  BY DEF Answered
<1>2. \A x \in NamedFailures : x.by \in {"ModelProviderError", "ModelGatewayError"}
  BY DEF NamedFailures
<1>3. Answered \cap NamedFailures = {}
  BY <1>1, <1>2
<1> QED BY <1>3, PendingAssumption

LEMMA ModelInitInv == ModelInit => ModelInv
BY PendingAssumption DEF ModelInit, ModelInv, ModelTypeOK, CallsKeepStep, UnderWay

LEMMA OutcomeOfRace ==
  ASSUME ModelInv, NEW c \in Calls, timer[c] \in UnderWay, race[c] # Pending,
         NEW outcome, outcome = IF race[c] \in Answered THEN Checked(race[c].what) ELSE DeadlineError(c)
  PROVE  /\ outcome \in {Returned} \cup ErrorClasses \cup ProviderClasses
         /\ ToldRight(c, outcome, race[c] \in Answered /\ race[c].what # "invalid metadata")
<1> USE DEF ToldRight, Refusals
<1>0. /\ Returned \notin ErrorClasses \cup ProviderClasses
      /\ Answered \cap NamedFailures = {} /\ Aborted \notin Outcomes
  BY PendingAssumption, OutcomesApart
<1>1. CASE race[c] \in Answered
  <2>1. race[c].what \in Answers /\ race[c] \notin NamedFailures
    BY <1>0, <1>1 DEF Answered
  <2>2. outcome = Checked(race[c].what)
    BY <1>1
  <2> HIDE DEF ToldRight
  <2>3. CASE race[c].what = "good"
    <3>1. outcome = Returned
      BY <2>2, <2>3 DEF Checked
    <3> QED BY <1>0, <1>1, <2>1, <2>3, <3>1 DEF ToldRight, ErrorClasses
  <2>4. CASE race[c].what = "invalid metadata"
    <3>1. outcome = "PROVIDER_FAILURE"
      BY <2>2, <2>4 DEF Checked
    <3> QED BY <1>0, <1>1, <2>1, <2>4, <3>1 DEF ToldRight, ErrorClasses
  <2>5. CASE race[c].what \in {"over budget", "not json", "off schema"}
    <3>1. outcome \in Refusals
      BY <2>2, <2>5 DEF Checked
    <3> QED BY <1>0, <1>1, <2>1, <2>5, <3>1 DEF ToldRight, ErrorClasses
  <2> QED BY <2>1, <2>3, <2>4, <2>5 DEF Answers
<1>2. CASE race[c] \notin Answered
  <2>1. timer[c] = "fired" => race[c] = Aborted
    BY DEF ModelInv, CallsKeepStep
  <2>2. timer[c] = "armed" /\ race[c] = Aborted => aborted[c]
    BY DEF ModelInv, CallsKeepStep
  <2>3. race[c] = Aborted \/ race[c] \in NamedFailures \cup OtherFailures
    BY <1>2 DEF ModelInv, ModelTypeOK, Outcomes
  <2>4. Aborted \notin NamedFailures
    BY <1>0 DEF Outcomes
  <2>5. outcome = DeadlineError(c)
    BY <1>2
  <2>6. race[c] \in NamedFailures => race[c].what \in ProviderClasses
    BY DEF NamedFailures
  <2> HIDE DEF ToldRight
  <2>7. CASE timer[c] = "fired"
    <3>1. outcome = "PROVIDER_TIMEOUT"
      BY <2>5, <2>7 DEF DeadlineError
    <3> QED BY <1>0, <1>2, <2>1, <2>4, <2>7, <3>1 DEF ToldRight, ErrorClasses
  <2>8. CASE timer[c] = "armed" /\ aborted[c]
    <3>1. outcome = "CANCELLED"
      BY <2>5, <2>8 DEF DeadlineError
    <3> QED BY <1>0, <1>2, <2>8, <3>1 DEF ToldRight, ErrorClasses
  <2>9. CASE timer[c] = "armed" /\ ~aborted[c] /\ race[c] \in NamedFailures
    <3>1. outcome = race[c].what
      BY <2>5, <2>9 DEF DeadlineError
    <3> QED BY <1>0, <1>2, <2>6, <2>9, <3>1 DEF ToldRight
  <2>10. CASE timer[c] = "armed" /\ ~aborted[c] /\ race[c] \notin NamedFailures
    <3>1. outcome = "PROVIDER_FAILURE"
      BY <2>5, <2>10 DEF DeadlineError
    <3> QED BY <1>0, <1>2, <2>10, <3>1 DEF ToldRight, ErrorClasses
  <2> QED BY <2>7, <2>8, <2>9, <2>10 DEF UnderWay
<1> QED BY <1>1, <1>2

LEMMA ModelStepInv == ModelInv /\ [ModelNext]_modelVars => ModelInv'
<1> SUFFICES ASSUME ModelInv, [ModelNext]_modelVars PROVE ModelInv'
  OBVIOUS
<1> USE DEF ModelInv, UnderWay
<1>1. ASSUME NEW c \in Calls, NEW name \in Names, NEW kind \in RequestKinds, Refuse(c, name, kind)
      PROVE  ModelInv'
  <2>1. ModelTypeOK'
    BY <1>1 DEF Refuse, ModelTypeOK, ErrorClasses
  <2>2. CallsKeepStep'
    BY <1>1 DEF Refuse, ModelTypeOK, CallsKeepStep, ToldRight
  <2> QED BY <2>1, <2>2
<1>2. ASSUME NEW c \in Calls, NEW name \in Names, Invoke(c, name)
      PROVE  ModelInv'
  <2>1. ModelTypeOK'
    BY <1>2 DEF Invoke, ModelTypeOK
  <2>2. CallsKeepStep'
    BY <1>2, OutcomesApart DEF Invoke, ModelTypeOK, CallsKeepStep, ToldRight
  <2> QED BY <2>1, <2>2
<1>3. ASSUME NEW c \in Calls, ProviderSettles(c)
      PROVE  ModelInv'
  <2>1. ModelTypeOK'
    BY <1>3 DEF ProviderSettles, ModelTypeOK
  <2>2. CallsKeepStep'
    BY <1>3, OutcomesApart DEF ProviderSettles, ModelTypeOK, CallsKeepStep, ToldRight
  <2> QED BY <2>1, <2>2
<1>4. ASSUME NEW c \in Calls, TimerFires(c)
      PROVE  ModelInv'
  <2>1. ModelTypeOK'
    BY <1>4 DEF TimerFires, ModelTypeOK
  <2>2. CallsKeepStep'
    BY <1>4 DEF TimerFires, ModelTypeOK, CallsKeepStep, ToldRight
  <2> QED BY <2>1, <2>2
<1>5. ASSUME NEW c \in Calls, CallerAborts(c)
      PROVE  ModelInv'
  <2>1. ModelTypeOK'
    BY <1>5 DEF CallerAborts, ModelTypeOK
  <2>2. CallsKeepStep'
    <3> SUFFICES ASSUME NEW d \in Calls PROVE CallsKeepStep!(d)'
      BY DEF CallsKeepStep
    <3>1. CASE d # c
      <4>1. aborted'[d] = aborted[d] /\ race'[d] = race[d] /\ UNCHANGED <<timer, span, usage, told>>
        BY <1>5, <3>1 DEF CallerAborts, ModelTypeOK
      <4> QED BY <4>1 DEF CallsKeepStep, ToldRight
    <3>2. CASE d = c
      <4>1. /\ told[d] = Pending /\ aborted'[d] = TRUE
            /\ race[d] = Aborted => race'[d] = Aborted
            /\ UNCHANGED <<timer, span, usage, told>>
        BY <1>5, <3>2 DEF CallerAborts, ModelTypeOK
      <4> QED BY <4>1 DEF CallsKeepStep
    <3> QED BY <3>1, <3>2
  <2> QED BY <2>1, <2>2
<1>6. ASSUME NEW c \in Calls, Settle(c)
      PROVE  ModelInv'
  <2>0. PICK outcome : outcome = IF race[c] \in Answered THEN Checked(race[c].what) ELSE DeadlineError(c)
    OBVIOUS
  <2>1. /\ told' = [told EXCEPT ![c] = outcome]
        /\ span' = [span EXCEPT ![c] = SpanOf(outcome)]
        /\ usage' = [usage EXCEPT ![c] = race[c] \in Answered /\ race[c].what # "invalid metadata"]
        /\ timer' = [timer EXCEPT ![c] = "cleared"]
        /\ UNCHANGED <<providers, race, aborted>>
    BY <1>6, <2>0 DEF Settle
  <2>2. /\ outcome \in {Returned} \cup ErrorClasses \cup ProviderClasses
        /\ ToldRight(c, outcome, race[c] \in Answered /\ race[c].what # "invalid metadata")
    BY <1>6, <2>0, OutcomeOfRace DEF Settle
  <2>3. outcome # Pending
    BY <2>2, PendingAssumption
  <2>4. SpanOf(outcome) \in {"none", "open", "ok", "error"}
    BY DEF SpanOf
  <2>5. ModelTypeOK'
    <3>1. (race[c] \in Answered /\ race[c].what # "invalid metadata") \in BOOLEAN
      OBVIOUS
    <3> QED BY <2>1, <2>2, <2>4, <3>1 DEF ModelTypeOK
  <2>6. CallsKeepStep'
    <3> SUFFICES ASSUME NEW d \in Calls PROVE CallsKeepStep!(d)'
      BY DEF CallsKeepStep
    <3>1. CASE d # c
      <4>1. /\ timer'[d] = timer[d] /\ span'[d] = span[d] /\ told'[d] = told[d]
            /\ usage'[d] = usage[d] /\ race'[d] = race[d] /\ aborted'[d] = aborted[d]
        BY <2>1, <3>1 DEF ModelTypeOK
      <4> QED BY <4>1 DEF CallsKeepStep, ToldRight
    <3>2. CASE d = c
      <4>1. /\ timer'[d] = "cleared" /\ span'[d] = SpanOf(outcome) /\ told'[d] = outcome
            /\ usage'[d] = (race[c] \in Answered /\ race[c].what # "invalid metadata")
            /\ race'[d] = race[c] /\ aborted'[d] = aborted[c]
        BY <2>1, <3>2 DEF ModelTypeOK
      <4>2. told'[d] # Pending /\ span'[d] = SpanOf(told'[d])
        BY <2>3, <4>1
      <4>3. ToldRight(d, told[d], usage[d])'
        BY <2>2, <3>2, <4>1 DEF ToldRight
      <4> QED BY <4>1, <4>2, <4>3
    <3> QED BY <3>1, <3>2
  <2> QED BY <2>5, <2>6
<1>7. CASE UNCHANGED modelVars
  BY <1>7 DEF modelVars, ModelTypeOK, CallsKeepStep, ToldRight
<1> QED BY <1>1, <1>2, <1>3, <1>4, <1>5, <1>6, <1>7 DEF ModelNext

LEMMA ModelInvHolds == ModelSpec => []ModelInv
BY ModelInitInv, ModelStepInv, PTL DEF ModelSpec

\* The span of a model call is open while its timer is, and is closed with what its
\* caller is told; whatever classes the providers give their errors, those of the
\* gateway among them, tokens, timeouts and cancellations are told apart from what a
\* provider only names (gateway.ts).
THEOREM CallsEndAsTold == ModelSpec => []SpansTellTheOutcome
<1>1. ModelInv => SpansTellTheOutcome
  <2> SUFFICES ASSUME ModelInv, NEW c \in Calls
               PROVE  /\ (span[c] = "open") <=> (timer[c] \in {"armed", "fired"})
                      /\ (span[c] = "ok") <=> (told[c] = Returned)
                      /\ span[c] \in {"ok", "error"} => ToldRight(c, told[c], usage[c])
    BY DEF SpansTellTheOutcome, ToldRight
  <2>1. timer[c] \in {"off", "armed", "fired", "cleared"}
    BY DEF ModelInv, ModelTypeOK
  <2>2. CASE timer[c] = "off"
    BY <2>2, PendingAssumption DEF ModelInv, CallsKeepStep, ErrorClasses
  <2>3. CASE timer[c] \in UnderWay
    BY <2>3, PendingAssumption DEF ModelInv, CallsKeepStep, UnderWay
  <2>4. CASE timer[c] = "cleared"
    BY <2>4 DEF ModelInv, CallsKeepStep, SpanOf
  <2> QED BY <2>1, <2>2, <2>3, <2>4 DEF UnderWay
<1> QED BY <1>1, ModelInvHolds, PTL

-----------------------------------------------------------------------------
\* The tool gateway: what has been authorised, leased and named so far.

Kinds == {"read", "write"}

\* What was authorised was granted, at both rounds of the paths.
PathsAreGranted ==
  \A p \in paths : p.access \in Kinds /\ p.canonical \in request.grant[p.access]

\* A variable holds one lease, a reference has one variable.
LeasesAreApart ==
  /\ IsFiniteSet(DOMAIN environment)
  /\ \A v \in DOMAIN environment : environment[v] \in redaction
  /\ \A v, w \in DOMAIN environment : environment[v] = environment[w] => v = w
  /\ \A s \in redaction : \E v \in DOMAIN environment : environment[v] = s

ToolInv ==
  /\ ToolTypeOK
  /\ PathsAreGranted
  /\ at \in {"launcher", "secrets"} => request.plan.network \subseteq request.grant.network
  /\ LeasesAreApart
  /\ SandboxesGetWhatWasGranted

LEMMA MovesBounded == MaxMoves \in Nat
BY ToolAssumption, Zenon

LEMMA RequestTyped ==
  ASSUME NEW r \in Requests
  PROVE  /\ r.grant \in Grants /\ r.plan \in Grants
         /\ r.grant.read \subseteq Paths /\ r.grant.write \subseteq Paths
         /\ r.plan.read \subseteq Paths /\ r.plan.write \subseteq Paths
         /\ r.grant.network \subseteq Origins /\ r.plan.network \subseteq Origins
         /\ r.plan.secretRefs \subseteq References
         /\ \A access \in Kinds : r.grant[access] \subseteq Paths
<1>1. r.grant \in Grants /\ r.plan \in Grants
  BY ToolAssumption
<1> QED BY <1>1 DEF Grants, Kinds

LEMMA AccessesTyped ==
  ASSUME NEW r \in Requests
  PROVE  Accesses(r.plan) \subseteq Kinds \X Paths
BY RequestTyped DEF Accesses, Kinds

LEMMA ToolInitInv == ToolInit => ToolInv
<1> SUFFICES ASSUME ToolInit PROVE ToolInv
  OBVIOUS
<1>1. ToolTypeOK
  <2>1. todo \subseteq Kinds \X Paths
    BY AccessesTyped DEF ToolInit
  <2>2. moves \in 0 .. MaxMoves
    <3>1. moves = 0
      BY DEF ToolInit
    <3> QED BY <3>1, MovesBounded
  <2>3. DOMAIN environment = {} /\ Range1(environment) = {}
    BY DEF ToolInit, Range1
  <2> QED BY <2>1, <2>2, <2>3 DEF ToolInit, ToolTypeOK, Kinds
<1>2. LeasesAreApart
  BY FS_EmptySet DEF ToolInit, LeasesAreApart
<1> QED BY <1>1, <1>2 DEF ToolInit, ToolInv, PathsAreGranted, SandboxesGetWhatWasGranted, None

\* A step that leaves the sandbox and the request leaves what was granted to it.
LEMMA SandboxStays ==
  ASSUME ToolInv, UNCHANGED <<request, sandbox>>
  PROVE  SandboxesGetWhatWasGranted'
BY DEF ToolInv, SandboxesGetWhatWasGranted, Range1

LEMMA FailKeepsInv ==
  ASSUME ToolInv, NEW class \in {"AUTHORIZATION", "VALIDATION", "TOOL_EXECUTION"}, Fail(class)
  PROVE  ToolInv'
<1>1. ToolTypeOK'
  BY DEF ToolInv, Fail, ToolTypeOK, Range1
<1>2. PathsAreGranted' /\ LeasesAreApart' /\ at' \notin {"launcher", "secrets"}
  BY DEF ToolInv, Fail, PathsAreGranted, LeasesAreApart
<1>3. SandboxesGetWhatWasGranted'
  BY SandboxStays DEF Fail
<1> QED BY <1>1, <1>2, <1>3 DEF ToolInv

LEMMA AuthorizeKeepsInv ==
  ASSUME ToolInv, Authorize
  PROVE  ToolInv'
<1>1. PICK next \in todo :
        IF Authorized(next[1], next[2])
          THEN /\ todo' = todo \ {next}
               /\ paths' = paths \cup {[access |-> next[1], canonical |-> Canonical(next[1], next[2])]}
               /\ UNCHANGED <<request, links, moves, at, environment, redaction, sandbox, toolSpan, answer>>
          ELSE Fail("AUTHORIZATION")
  BY DEF Authorize
<1>2. CASE ~Authorized(next[1], next[2])
  BY <1>1, <1>2, FailKeepsInv
<1>3. CASE Authorized(next[1], next[2])
  <2>1. next[1] \in Kinds /\ request \in Requests
    BY DEF ToolInv, ToolTypeOK, Kinds
  <2>2. PICK access, place : access = next[1] /\ place = Canonical(next[1], next[2])
    OBVIOUS
  <2>3. access \in Kinds /\ place \in request.grant[access] /\ place \in Paths
    BY <1>3, <2>1, <2>2, RequestTyped DEF Authorized
  <2>4. paths' = paths \cup {[access |-> access, canonical |-> place]}
    BY <1>1, <1>3, <2>2
  <2>5. /\ todo' \subseteq todo
        /\ UNCHANGED <<request, links, moves, at, environment, redaction, sandbox, toolSpan, answer>>
    BY <1>1, <1>3
  <2>6. ToolTypeOK'
    <3>1. [access |-> access, canonical |-> place] \in [access : {"read", "write"}, canonical : Paths]
      BY <2>3 DEF Kinds
    <3> QED BY <2>4, <2>5, <3>1 DEF ToolInv, ToolTypeOK, Range1
  <2>7. PathsAreGranted'
    BY <2>3, <2>4, <2>5 DEF ToolInv, PathsAreGranted
  <2>8. LeasesAreApart'
    BY <2>5 DEF ToolInv, LeasesAreApart
  <2>9. SandboxesGetWhatWasGranted'
    BY <2>5, SandboxStays
  <2> QED BY <2>5, <2>6, <2>7, <2>8, <2>9 DEF ToolInv
<1> QED BY <1>2, <1>3

LEMMA EnterLauncherKeepsInv ==
  ASSUME ToolInv, EnterLauncher
  PROVE  ToolInv'
<1>1. CASE Fail("AUTHORIZATION") \/ Fail("TOOL_EXECUTION")
  BY <1>1, FailKeepsInv
<1>2. CASE /\ request.plan.network \subseteq request.grant.network
           /\ at' = "launcher"
           /\ todo' = Accesses(request.plan)
           /\ paths' = {}
           /\ UNCHANGED <<request, links, moves, environment, redaction, sandbox, toolSpan, answer>>
  <2>1. todo' \subseteq Kinds \X Paths
    BY <1>2, AccessesTyped DEF ToolInv, ToolTypeOK
  <2>2. ToolTypeOK'
    BY <1>2, <2>1 DEF ToolInv, ToolTypeOK, Range1, Kinds
  <2>3. PathsAreGranted' /\ LeasesAreApart'
    BY <1>2 DEF ToolInv, PathsAreGranted, LeasesAreApart
  <2>4. SandboxesGetWhatWasGranted'
    BY <1>2, SandboxStays
  <2> QED BY <1>2, <2>2, <2>3, <2>4 DEF ToolInv
<1> QED BY <1>1, <1>2 DEF EnterLauncher

LEMMA TakeLeaseKeepsInv ==
  ASSUME ToolInv, TakeLease
  PROVE  ToolInv'
<1>1. PICK variable \in Variables, valid \in BOOLEAN, reference \in request.plan.secretRefs \ redaction :
        IF valid /\ FreeVariable(environment, variable)
          THEN /\ environment' = [v \in DOMAIN environment \cup {variable} |->
                                    IF v = variable THEN reference ELSE environment[v]]
               /\ redaction' = redaction \cup {reference}
               /\ UNCHANGED <<request, links, moves, at, todo, paths, sandbox, toolSpan, answer>>
          ELSE Fail("TOOL_EXECUTION")
  BY DEF TakeLease
<1>2. CASE ~(valid /\ FreeVariable(environment, variable))
  BY <1>1, <1>2, FailKeepsInv
<1>3. CASE valid /\ FreeVariable(environment, variable)
  <2>1. /\ environment' = [v \in DOMAIN environment \cup {variable} |->
                             IF v = variable THEN reference ELSE environment[v]]
        /\ redaction' = redaction \cup {reference}
        /\ UNCHANGED <<request, links, moves, at, todo, paths, sandbox, toolSpan, answer>>
        /\ variable \notin DOMAIN environment
    BY <1>1, <1>3 DEF FreeVariable
  <2>2. reference \in References
    BY RequestTyped DEF ToolInv, ToolTypeOK
  <2>3. /\ DOMAIN environment' = DOMAIN environment \cup {variable}
        /\ environment'[variable] = reference
        /\ \A v \in DOMAIN environment : environment'[v] = environment[v]
    BY <2>1
  <2>4. \A v \in DOMAIN environment : environment[v] \in References
    BY DEF ToolInv, ToolTypeOK, Range1
  <2>5. DOMAIN environment' \subseteq Variables /\ Range1(environment') \subseteq References
    BY <2>2, <2>3, <2>4 DEF ToolInv, ToolTypeOK, Range1
  <2>6. ToolTypeOK'
    BY <2>1, <2>2, <2>5 DEF ToolInv, ToolTypeOK
  <2>7. LeasesAreApart'
    <3>1. IsFiniteSet(DOMAIN environment \cup {variable})
      BY FS_AddElement DEF ToolInv, LeasesAreApart
    <3>2. \A v \in DOMAIN environment' : environment'[v] \in redaction'
      BY <2>1, <2>3 DEF ToolInv, LeasesAreApart
    <3>3. \A v, w \in DOMAIN environment' : environment'[v] = environment'[w] => v = w
      BY <2>3 DEF ToolInv, LeasesAreApart
    <3>4. \A s \in redaction' : \E v \in DOMAIN environment' : environment'[v] = s
      BY <2>1, <2>3 DEF ToolInv, LeasesAreApart
    <3> QED BY <2>3, <3>1, <3>2, <3>3, <3>4 DEF LeasesAreApart
  <2>8. PathsAreGranted'
    BY <2>1 DEF ToolInv, PathsAreGranted
  <2>9. SandboxesGetWhatWasGranted'
    BY <2>1, SandboxStays
  <2> QED BY <2>1, <2>6, <2>7, <2>8, <2>9 DEF ToolInv
<1> QED BY <1>2, <1>3

\* As many variables as there are secrets.
LEMMA OneVariableEach ==
  ASSUME LeasesAreApart
  PROVE  /\ Range1(environment) = redaction
         /\ Cardinality(DOMAIN environment) = Cardinality(redaction)
<1>1. Range1(environment) = redaction
  BY DEF LeasesAreApart, Range1
<1> DEFINE f == [v \in DOMAIN environment |-> environment[v]]
<1>2. f \in [DOMAIN environment -> redaction]
  BY DEF LeasesAreApart
<1>3. f \in Injection(DOMAIN environment, redaction)
  BY <1>2 DEF LeasesAreApart, Injection, IsInjective
<1>4. f \in Surjection(DOMAIN environment, redaction)
  BY <1>2 DEF LeasesAreApart, Surjection
<1>5. ExistsBijection(DOMAIN environment, redaction)
  BY <1>3, <1>4 DEF Bijection, ExistsBijection
<1>6. IsFiniteSet(DOMAIN environment)
  BY DEF LeasesAreApart
<1> QED BY <1>1, <1>5, <1>6, FS_Bijection

LEMMA RunSandboxKeepsInv ==
  ASSUME ToolInv, RunSandbox
  PROVE  ToolInv'
<1>1. CASE Fail("TOOL_EXECUTION")
  BY <1>1, FailKeepsInv
<1>2. CASE /\ at' = "run"
           /\ sandbox' = [given |-> TRUE, mounts |-> Mounts, environment |-> environment,
                          origins |-> request.plan.network]
           /\ UNCHANGED <<request, links, moves, todo, paths, environment, redaction, toolSpan, answer>>
  <2>1. ToolTypeOK'
    BY <1>2 DEF ToolInv, ToolTypeOK, Range1
  <2>2. PathsAreGranted' /\ LeasesAreApart'
    BY <1>2 DEF ToolInv, PathsAreGranted, LeasesAreApart
  <2>3. /\ request.plan.network \subseteq request.grant.network
        /\ redaction = request.plan.secretRefs
    BY DEF RunSandbox, ToolInv
  <2>4. ASSUME NEW m \in Mounts
        PROVE  /\ m.source \in request.grant.read \cup request.grant.write
               /\ m.mode = "rw" => m.source \in request.grant.write
    <3>1. PICK p \in paths :
            m = [source |-> p.canonical,
                 mode |-> IF \E q \in paths : q.canonical = p.canonical /\ q.access = "write" THEN "rw" ELSE "ro"]
      BY DEF Mounts
    <3>2. m.source = p.canonical
      BY <3>1
    <3>3. m.mode = "rw" => \E q \in paths : q.canonical = m.source /\ q.access = "write"
      BY <3>1
    <3> QED BY <3>2, <3>3 DEF ToolInv, PathsAreGranted, Kinds
  <2>5. /\ Range1(environment) = redaction
        /\ Cardinality(DOMAIN environment) = Cardinality(redaction)
    BY OneVariableEach DEF ToolInv
  <2>6. /\ sandbox'.mounts = Mounts /\ sandbox'.environment = environment
        /\ sandbox'.origins = request.plan.network /\ request' = request
    BY <1>2
  <2>7. SandboxesGetWhatWasGranted'
    BY <2>3, <2>4, <2>5, <2>6 DEF SandboxesGetWhatWasGranted, Range1
  <2> QED BY <1>2, <2>1, <2>2, <2>7 DEF ToolInv
<1> QED BY <1>1, <1>2 DEF RunSandbox

LEMMA ToolStepInv == ToolInv /\ [ToolNext]_toolVars => ToolInv'
<1> SUFFICES ASSUME ToolInv, [ToolNext]_toolVars PROVE ToolInv'
  OBVIOUS
<1>1. CASE RejectCall
  BY <1>1, FailKeepsInv DEF RejectCall
<1>2. CASE Authorize
  BY <1>2, AuthorizeKeepsInv
<1>3. CASE EnterLauncher
  BY <1>3, EnterLauncherKeepsInv
<1>4. CASE FinishPaths
  <2>1. ToolTypeOK'
    BY <1>4 DEF FinishPaths, ToolInv, ToolTypeOK, Range1
  <2>2. PathsAreGranted' /\ LeasesAreApart'
    BY <1>4 DEF FinishPaths, ToolInv, PathsAreGranted, LeasesAreApart
  <2>3. SandboxesGetWhatWasGranted'
    BY <1>4, SandboxStays DEF FinishPaths
  <2> QED BY <1>4, <2>1, <2>2, <2>3 DEF FinishPaths, ToolInv
<1>5. CASE TakeLease
  BY <1>5, TakeLeaseKeepsInv
<1>6. CASE RunSandbox
  BY <1>6, RunSandboxKeepsInv
<1>7. CASE EndSandbox
  <2>1. CASE Fail("TOOL_EXECUTION") \/ Fail("VALIDATION")
    BY <2>1, FailKeepsInv
  <2>2. CASE /\ at' = "done" /\ answer' = "output" /\ toolSpan' = "ok"
             /\ UNCHANGED <<request, links, moves, todo, paths, environment, redaction, sandbox>>
    <3>1. ToolTypeOK'
      BY <2>2 DEF ToolInv, ToolTypeOK, Range1
    <3>2. PathsAreGranted' /\ LeasesAreApart'
      BY <2>2 DEF ToolInv, PathsAreGranted, LeasesAreApart
    <3>3. SandboxesGetWhatWasGranted'
      BY <2>2, SandboxStays
    <3> QED BY <2>2, <3>1, <3>2, <3>3 DEF ToolInv
  <2> QED BY <1>7, <2>1, <2>2 DEF EndSandbox
<1>8. CASE MoveLink
  <2>1. ToolTypeOK'
    <3>1. moves' \in 0 .. MaxMoves
      <4>1. moves \in 0 .. MaxMoves /\ moves < MaxMoves /\ moves' = moves + 1
        BY <1>8 DEF MoveLink, ToolInv, ToolTypeOK
      <4> QED BY <4>1, MovesBounded
    <3>2. links' \in [Paths -> Paths \cup {Outside, Missing}]
      BY <1>8 DEF MoveLink, ToolInv, ToolTypeOK
    <3> QED BY <1>8, <3>1, <3>2 DEF MoveLink, ToolInv, ToolTypeOK, Range1
  <2>2. PathsAreGranted' /\ LeasesAreApart'
    BY <1>8 DEF MoveLink, ToolInv, PathsAreGranted, LeasesAreApart
  <2>3. SandboxesGetWhatWasGranted'
    BY <1>8, SandboxStays DEF MoveLink
  <2> QED BY <1>8, <2>1, <2>2, <2>3 DEF MoveLink, ToolInv
<1>9. CASE UNCHANGED toolVars
  <2>1. ToolTypeOK'
    BY <1>9 DEF toolVars, ToolInv, ToolTypeOK, Range1
  <2>2. PathsAreGranted' /\ LeasesAreApart'
    BY <1>9 DEF toolVars, ToolInv, PathsAreGranted, LeasesAreApart
  <2>3. SandboxesGetWhatWasGranted'
    BY <1>9, SandboxStays DEF toolVars
  <2> QED BY <1>9, <2>1, <2>2, <2>3 DEF toolVars, ToolInv
<1> QED BY <1>1, <1>2, <1>3, <1>4, <1>5, <1>6, <1>7, <1>8, <1>9 DEF ToolNext

LEMMA ToolInvHolds == ToolSpec => []ToolInv
BY ToolInitInv, ToolStepInv, PTL DEF ToolSpec

\* A sandbox mounts only granted paths, writes only where writing was granted,
\* reaches only granted origins and gets one variable for every secret it asked
\* for, though files move between the gateway's checks and the launch.
THEOREM SandboxesAreWithinGrants == ToolSpec => []SandboxesGetWhatWasGranted
<1>1. ToolInv => SandboxesGetWhatWasGranted
  BY DEF ToolInv
<1> QED BY <1>1, ToolInvHolds, PTL

-----------------------------------------------------------------------------
\* The router: every part of a score rises with the features it weighs.

LEMMA MaxOfRises ==
  ASSUME NEW a \in Int, NEW b \in Int, NEW c \in Int
  PROVE  /\ MaxOf(a, b) \in Int
         /\ a <= c => MaxOf(a, b) <= MaxOf(c, b) /\ MaxOf(b, a) <= MaxOf(b, c)
BY DEF MaxOf

LEMMA ClampRises ==
  ASSUME NEW a \in Int, NEW b \in Int
  PROVE  /\ Clamp(a) \in Int
         /\ a <= b => Clamp(a) <= Clamp(b)
BY DEF Clamp, Unit

\* A share of a bound, cut off at the whole.
LEMMA SharesRise ==
  ASSUME NEW a \in Int, NEW b \in Int, NEW bound \in {3, 7, 8, 3600, 100000}
  PROVE  /\ (a * Unit) \div bound \in Int
         /\ Clamp((a * Unit) \div bound) \in Int
         /\ a <= b => Clamp((a * Unit) \div bound) <= Clamp((b * Unit) \div bound)
<1>1. PICK p, q \in Int : p = (a * Unit) \div bound /\ q = (b * Unit) \div bound
  BY DEF Unit
<1>2. a <= b => p <= q
  BY <1>1 DEF Unit
<1> QED BY <1>1, <1>2, ClampRises

LEMMA RankRises ==
  ASSUME NEW a \in Int, NEW b \in Int, a <= b
  PROVE  Rank(Checkpoint(a)) <= Rank(Checkpoint(b))
BY DEF Rank, Checkpoint, Unit

LEMMA FeaturesTyped ==
  ASSUME NEW t \in RoutingFeatures
  PROVE  /\ t.estimatedContextTokens \in Int /\ t.independentBranchCount \in Int
         /\ t.approvalCount \in Int /\ t.expectedDurationSec \in Int /\ t.maxBudgetUsd \in Int
         /\ t.sharedContextCoupling \in Int /\ t.recoveryNeed \in Int
         /\ t.objectiveVerifierCoverage \in Int
BY RouterAssumption DEF RoutingFeatures

\* Every feature that the gain is computed from is a whole number.
LEMMA PartsTyped ==
  ASSUME NEW t \in RoutingFeatures
  PROVE  /\ Parallelism(t) \in Int /\ DurationComplexity(t) \in Int /\ ContextComplexity(t) \in Int
         /\ Complexity(t) \in Int /\ LowTaskComplexity(t) \in Int
         /\ Clamp((t.approvalCount * Unit) \div 3) \in Int
         /\ NormalizedRoutingFeatures(t).coordinationOverhead \in Int
         /\ WorkflowGain(NormalizedRoutingFeatures(t)) \in Int
<1>1. /\ Parallelism(t) \in Int /\ DurationComplexity(t) \in Int /\ ContextComplexity(t) \in Int
      /\ Clamp((t.approvalCount * Unit) \div 3) \in Int
  <2>1. PICK more \in Int : more = MaxOf(0, t.independentBranchCount - 1)
    BY FeaturesTyped DEF MaxOf
  <2>2. Clamp((more * Unit) \div 7) \in Int
    BY SharesRise
  <2>3. PICK duration, tokens, approvals \in Int :
          /\ duration = t.expectedDurationSec /\ tokens = t.estimatedContextTokens
          /\ approvals = t.approvalCount
    BY FeaturesTyped
  <2>4. /\ Clamp((duration * Unit) \div 3600) \in Int
        /\ Clamp((tokens * Unit) \div 100000) \in Int
        /\ Clamp((approvals * Unit) \div 3) \in Int
    BY SharesRise
  <2> QED BY <2>1, <2>2, <2>3, <2>4 DEF Parallelism, DurationComplexity, ContextComplexity
<1>2. Complexity(t) \in Int /\ LowTaskComplexity(t) \in Int
  <2>1. Complexity(t) \in Int
    BY <1>1 DEF Complexity, MaxOf
  <2>2. PICK simple \in Int : simple = Unit - Complexity(t)
    BY <2>1 DEF Unit
  <2> QED BY <2>1, <2>2, ClampRises DEF LowTaskComplexity
<1>3. NormalizedRoutingFeatures(t).coordinationOverhead \in Int
  <2>1. PICK more \in Int : more = MaxOf(0, t.independentBranchCount - 4)
    BY FeaturesTyped DEF MaxOf
  <2>2. PICK beyond \in Int : beyond = (more * Unit) \div 8
    BY SharesRise
  <2>3. PICK coupled \in Int : coupled = t.sharedContextCoupling * Parallelism(t)
    BY <1>1, FeaturesTyped
  <2>4. PICK overhead \in Int : overhead = coupled \div Unit + beyond
    BY DEF Unit
  <2>5. Clamp(overhead) \in Int
    BY ClampRises
  <2> QED BY <2>1, <2>2, <2>3, <2>4, <2>5 DEF NormalizedRoutingFeatures
<1>4. WorkflowGain(NormalizedRoutingFeatures(t)) \in Int
  <2>1. MaxOf(t.recoveryNeed, DurationComplexity(t)) \in Int
    BY <1>1, FeaturesTyped DEF MaxOf
  <2> QED BY <1>1, <1>2, <1>3, <2>1, FeaturesTyped DEF NormalizedRoutingFeatures, WorkflowGain
<1> QED BY <1>1, <1>2, <1>3, <1>4

\* What is not less in every feature that counts for a workflow, and not more in
\* the one that counts against it, has no less gain.
LEMMA GainRises ==
  ASSUME NEW t \in RoutingFeatures, NEW u \in RoutingFeatures,
         u.sharedContextCoupling = t.sharedContextCoupling,
         u.independentBranchCount = t.independentBranchCount,
         u.estimatedContextTokens = t.estimatedContextTokens,
         t.recoveryNeed <= u.recoveryNeed,
         t.objectiveVerifierCoverage <= u.objectiveVerifierCoverage,
         t.approvalCount <= u.approvalCount,
         t.expectedDurationSec <= u.expectedDurationSec
  PROVE  WorkflowGain(NormalizedRoutingFeatures(t)) <= WorkflowGain(NormalizedRoutingFeatures(u))
<1>1. DurationComplexity(t) <= DurationComplexity(u)
  <2>1. PICK a, b \in Int : a = t.expectedDurationSec /\ b = u.expectedDurationSec
    BY FeaturesTyped
  <2>2. a <= b
    BY <2>1
  <2>3. Clamp((a * Unit) \div 3600) <= Clamp((b * Unit) \div 3600)
    BY <2>2, SharesRise
  <2> QED BY <2>1, <2>3 DEF DurationComplexity
<1>2. Parallelism(u) = Parallelism(t) /\ ContextComplexity(u) = ContextComplexity(t)
  BY DEF Parallelism, ContextComplexity
<1>3. NormalizedRoutingFeatures(u).coordinationOverhead = NormalizedRoutingFeatures(t).coordinationOverhead
  BY <1>2 DEF NormalizedRoutingFeatures
<1>4. LowTaskComplexity(u) <= LowTaskComplexity(t)
  <2>1. PICK c, d, e, p \in Int : /\ c = ContextComplexity(t) /\ p = Parallelism(t)
                                 /\ d = DurationComplexity(t) /\ e = DurationComplexity(u)
    BY PartsTyped
  <2>2. MaxOf(c, MaxOf(d, p)) <= MaxOf(c, MaxOf(e, p))
    BY <1>1, <2>1 DEF MaxOf
  <2>3. Complexity(t) <= Complexity(u)
    BY <1>2, <2>1, <2>2 DEF Complexity
  <2>4. PICK a, b \in Int : a = Unit - Complexity(u) /\ b = Unit - Complexity(t) /\ a <= b
    BY <2>3, PartsTyped DEF Unit
  <2>5. Clamp(a) <= Clamp(b)
    BY <2>4, ClampRises
  <2> QED BY <2>4, <2>5 DEF LowTaskComplexity
<1>5. Clamp((t.approvalCount * Unit) \div 3) <= Clamp((u.approvalCount * Unit) \div 3)
  <2>1. PICK a, b \in Int : a = t.approvalCount /\ b = u.approvalCount
    BY FeaturesTyped
  <2>2. a <= b
    BY <2>1
  <2>3. Clamp((a * Unit) \div 3) <= Clamp((b * Unit) \div 3)
    BY <2>2, SharesRise
  <2> QED BY <2>1, <2>3
<1>6. /\ MaxOf(t.recoveryNeed, DurationComplexity(t)) \in Int
      /\ MaxOf(u.recoveryNeed, DurationComplexity(u)) \in Int
      /\ MaxOf(t.recoveryNeed, DurationComplexity(t)) <= MaxOf(u.recoveryNeed, DurationComplexity(u))
  BY <1>1, FeaturesTyped, PartsTyped DEF MaxOf
<1> QED BY <1>2, <1>3, <1>4, <1>5, <1>6, FeaturesTyped, PartsTyped DEF NormalizedRoutingFeatures, WorkflowGain

LEMMA CheckpointRises ==
  ASSUME NEW t \in RoutingFeatures, NEW u \in RoutingFeatures, u.maxBudgetUsd = t.maxBudgetUsd,
         WorkflowGain(NormalizedRoutingFeatures(t)) <= WorkflowGain(NormalizedRoutingFeatures(u))
  PROVE  Rank(RouteTask(u).checkpoint) >= Rank(RouteTask(t).checkpoint)
<1>1. /\ RouteTask(t).checkpoint = IF t.maxBudgetUsd = 0 THEN "none"
                                   ELSE Checkpoint(WorkflowGain(NormalizedRoutingFeatures(t)))
      /\ RouteTask(u).checkpoint = IF u.maxBudgetUsd = 0 THEN "none"
                                   ELSE Checkpoint(WorkflowGain(NormalizedRoutingFeatures(u)))
  BY DEF RouteTask
<1>2. CASE t.maxBudgetUsd = 0
  BY <1>1, <1>2 DEF Rank
<1>3. CASE t.maxBudgetUsd # 0
  <2>1. PICK a, b \in Int : /\ a = WorkflowGain(NormalizedRoutingFeatures(t))
                            /\ b = WorkflowGain(NormalizedRoutingFeatures(u))
    BY PartsTyped
  <2>2. Rank(Checkpoint(a)) <= Rank(Checkpoint(b))
    BY <2>1, RankRises
  <2>3. Rank(Checkpoint(a)) \in Int /\ Rank(Checkpoint(b)) \in Int
    BY DEF Rank, Checkpoint
  <2> QED BY <1>1, <1>3, <2>1, <2>2, <2>3
<1> QED BY <1>2, <1>3

\* A decision depends on the task alone.
LEMMA RoutesAreMonotone ==
  ASSUME task \in RoutingFeatures
  PROVE  DecisionsAreMonotone
<1> SUFFICES ASSUME ValidFeatures(task)
             PROVE  DecisionsAreMonotone
  BY DEF DecisionsAreMonotone
<1>1. ASSUME NEW n \in Seconds, n >= task.expectedDurationSec
      PROVE  Rank(RouteTask([task EXCEPT !["expectedDurationSec"] = n]).checkpoint) >= Rank(RouteTask(task).checkpoint)
  <2>1. PICK u \in RoutingFeatures : u = [task EXCEPT !["expectedDurationSec"] = n]
    BY DEF RoutingFeatures
  <2>2. n \in Int
    BY RouterAssumption
  <2>3. WorkflowGain(NormalizedRoutingFeatures(task)) <= WorkflowGain(NormalizedRoutingFeatures(u))
    <3>1. /\ u.sharedContextCoupling = task.sharedContextCoupling
          /\ u.independentBranchCount = task.independentBranchCount
          /\ u.estimatedContextTokens = task.estimatedContextTokens
          /\ u.recoveryNeed = task.recoveryNeed /\ u.objectiveVerifierCoverage = task.objectiveVerifierCoverage
          /\ u.approvalCount = task.approvalCount /\ u.expectedDurationSec = n
      BY <2>1 DEF RoutingFeatures
    <3>2. /\ task.recoveryNeed <= u.recoveryNeed
          /\ task.objectiveVerifierCoverage <= u.objectiveVerifierCoverage
          /\ task.approvalCount <= u.approvalCount
          /\ task.expectedDurationSec <= u.expectedDurationSec
      BY <1>1, <2>2, <3>1, FeaturesTyped
    <3> QED BY <3>1, <3>2, GainRises
  <2> QED BY <2>1, <2>3, CheckpointRises DEF RoutingFeatures
<1>2. ASSUME NEW n \in Counts, n >= task.approvalCount
      PROVE  Rank(RouteTask([task EXCEPT !["approvalCount"] = n]).checkpoint) >= Rank(RouteTask(task).checkpoint)
  <2>1. PICK u \in RoutingFeatures : u = [task EXCEPT !["approvalCount"] = n]
    BY DEF RoutingFeatures
  <2>2. n \in Int
    BY RouterAssumption
  <2>3. WorkflowGain(NormalizedRoutingFeatures(task)) <= WorkflowGain(NormalizedRoutingFeatures(u))
    <3>1. /\ u.sharedContextCoupling = task.sharedContextCoupling
          /\ u.independentBranchCount = task.independentBranchCount
          /\ u.estimatedContextTokens = task.estimatedContextTokens
          /\ u.recoveryNeed = task.recoveryNeed /\ u.objectiveVerifierCoverage = task.objectiveVerifierCoverage
          /\ u.expectedDurationSec = task.expectedDurationSec /\ u.approvalCount = n
      BY <2>1 DEF RoutingFeatures
    <3>2. /\ task.recoveryNeed <= u.recoveryNeed
          /\ task.objectiveVerifierCoverage <= u.objectiveVerifierCoverage
          /\ task.approvalCount <= u.approvalCount
          /\ task.expectedDurationSec <= u.expectedDurationSec
      BY <1>2, <2>2, <3>1, FeaturesTyped
    <3> QED BY <3>1, <3>2, GainRises
  <2> QED BY <2>1, <2>3, CheckpointRises DEF RoutingFeatures
<1>3. ASSUME NEW n \in Units, n >= task.recoveryNeed
      PROVE  Rank(RouteTask([task EXCEPT !["recoveryNeed"] = n]).checkpoint) >= Rank(RouteTask(task).checkpoint)
  <2>1. PICK u \in RoutingFeatures : u = [task EXCEPT !["recoveryNeed"] = n]
    BY DEF RoutingFeatures
  <2>2. n \in Int
    BY RouterAssumption
  <2>3. WorkflowGain(NormalizedRoutingFeatures(task)) <= WorkflowGain(NormalizedRoutingFeatures(u))
    <3>1. /\ u.sharedContextCoupling = task.sharedContextCoupling
          /\ u.independentBranchCount = task.independentBranchCount
          /\ u.estimatedContextTokens = task.estimatedContextTokens
          /\ u.objectiveVerifierCoverage = task.objectiveVerifierCoverage /\ u.approvalCount = task.approvalCount
          /\ u.expectedDurationSec = task.expectedDurationSec /\ u.recoveryNeed = n
      BY <2>1 DEF RoutingFeatures
    <3>2. /\ task.recoveryNeed <= u.recoveryNeed
          /\ task.objectiveVerifierCoverage <= u.objectiveVerifierCoverage
          /\ task.approvalCount <= u.approvalCount
          /\ task.expectedDurationSec <= u.expectedDurationSec
      BY <1>3, <2>2, <3>1, FeaturesTyped
    <3> QED BY <3>1, <3>2, GainRises
  <2> QED BY <2>1, <2>3, CheckpointRises DEF RoutingFeatures
<1>4. ASSUME NEW n \in Units, n >= task.objectiveVerifierCoverage
      PROVE  Rank(RouteTask([task EXCEPT !["objectiveVerifierCoverage"] = n]).checkpoint) >= Rank(RouteTask(task).checkpoint)
  <2>1. PICK u \in RoutingFeatures : u = [task EXCEPT !["objectiveVerifierCoverage"] = n]
    BY DEF RoutingFeatures
  <2>2. n \in Int
    BY RouterAssumption
  <2>3. WorkflowGain(NormalizedRoutingFeatures(task)) <= WorkflowGain(NormalizedRoutingFeatures(u))
    <3>1. /\ u.sharedContextCoupling = task.sharedContextCoupling
          /\ u.independentBranchCount = task.independentBranchCount
          /\ u.estimatedContextTokens = task.estimatedContextTokens
          /\ u.recoveryNeed = task.recoveryNeed /\ u.approvalCount = task.approvalCount
          /\ u.expectedDurationSec = task.expectedDurationSec /\ u.objectiveVerifierCoverage = n
      BY <2>1 DEF RoutingFeatures
    <3>2. /\ task.recoveryNeed <= u.recoveryNeed
          /\ task.objectiveVerifierCoverage <= u.objectiveVerifierCoverage
          /\ task.approvalCount <= u.approvalCount
          /\ task.expectedDurationSec <= u.expectedDurationSec
      BY <1>4, <2>2, <3>1, FeaturesTyped
    <3> QED BY <3>1, <3>2, GainRises
  <2> QED BY <2>1, <2>3, CheckpointRises DEF RoutingFeatures
<1>5. TemplateForMode(RouteTask(task).mode).durable <=> RouteTask(task).checkpoint = "durable"
  <2>1. PICK checkpoint : checkpoint = RouteTask(task).checkpoint
    OBVIOUS
  <2>2. RouteTask(task).mode = IF checkpoint # "durable" THEN "DIRECT"
                               ELSE IF task.scopeClosed THEN "CONTRACT" ELSE "EXPLORER"
    BY <2>1 DEF RouteTask
  <2>3. /\ TemplateForMode("DIRECT").durable = FALSE
        /\ TemplateForMode("CONTRACT").durable = TRUE
        /\ TemplateForMode("EXPLORER").durable = TRUE
    BY DEF TemplateForMode
  <2> QED BY <2>1, <2>2, <2>3
<1> QED BY <1>1, <1>2, <1>3, <1>4, <1>5 DEF DecisionsAreMonotone

\* A task that takes longer, needs more approvals or more recovery, or is better
\* verified is never routed to a weaker checkpoint, and its template is durable
\* exactly when its checkpoint is (rules.ts).
THEOREM MoreNeedNeverLessDurable == RouterSpec => []DecisionsAreMonotone
<1>1. RouterInit => task \in RoutingFeatures
  BY DEF RouterInit
<1>2. task \in RoutingFeatures /\ [RouterNext]_routerVars => (task \in RoutingFeatures)'
  BY DEF RouterNext, Record, routerVars
<1> QED BY <1>1, <1>2, RoutesAreMonotone, PTL DEF RouterSpec

-----------------------------------------------------------------------------
\* Run control: the projection is a fold, and a log that grows by an event folds
\* to one step more; so the last words of the log say what the view holds.

LEMMA Least ==
  ASSUME NEW S, S \subseteq Nat, S # {}
  PROVE  \E n \in S : \A m \in S : n <= m
<1> DEFINE Less == OpToRel(<, Nat)
<1>1. IsWellFoundedOn(Less, Nat)
  BY NatLessThanWellFounded
<1>2. \A x, y \in Nat : <<y, x>> \in Less <=> y < x
  BY DEF OpToRel
<1> HIDE DEF Less
<1>3. PICK x \in S : \A y \in S : ~(<<y, x>> \in Less)
  BY <1>1, WFMin
<1>4. \A y \in S : ~(y < x)
  BY <1>2, <1>3
<1> QED BY <1>4

\* A bounded set of numbers has a greatest one.
LEMMA GreatestOf ==
  ASSUME NEW n \in Nat, NEW S, S \subseteq 0 .. n, S # {}
  PROVE  Max(S) \in S /\ \A y \in S : y <= Max(S)
<1> DEFINE Bounds == {k \in Nat : \A y \in S : y <= k}
<1>1. n \in Bounds
  OBVIOUS
<1>2. PICK k \in Bounds : \A m \in Bounds : k <= m
  BY <1>1, Least
<1>3. k \in S
  <2> SUFFICES ASSUME k \notin S PROVE FALSE
    OBVIOUS
  <2>1. \A y \in S : y < k
    BY <1>2
  <2>2. k \in Nat /\ k # 0
    <3>1. PICK y : y \in S
      OBVIOUS
    <3>2. y \in Nat /\ y < k
      BY <2>1, <3>1
    <3> QED BY <1>2, <3>2
  <2>3. k - 1 \in Nat /\ \A y \in S : y <= k - 1
    BY <2>1, <2>2
  <2> QED BY <1>2, <2>2, <2>3
<1>4. \E x \in S : \A y \in S : x >= y
  BY <1>2, <1>3
<1> QED BY <1>4 DEF Max

LEMMA GreatestIs ==
  ASSUME NEW n \in Nat, NEW S, S \subseteq 0 .. n, NEW x \in S, \A y \in S : y <= x
  PROVE  Max(S) = x
<1>1. Max(S) \in S /\ x <= Max(S)
  BY GreatestOf
<1>2. Max(S) <= x /\ Max(S) \in 0 .. n /\ x \in 0 .. n
  BY <1>1
<1> QED BY <1>1, <1>2

LEMMA LatestOf ==
  ASSUME NEW n \in Nat, NEW found, found \subseteq 1 .. n
  PROVE  /\ Latest(found) \in found \cup {0}
         /\ \A i \in found : i <= Latest(found)
         /\ Latest(found) = 0 <=> found = {}
<1> DEFINE all == found \cup {0}
<1>1. all \subseteq 0 .. n /\ all # {}
  OBVIOUS
<1>2. \A i \in all : i <= Max(all)
  BY <1>1, GreatestOf
<1>3. Max(all) \in all
  BY <1>1, GreatestOf
<1>4. Latest(found) = Max(all)
  BY DEF Latest
<1>5. Max(all) = 0 <=> found = {}
  <2>1. ASSUME NEW i \in found PROVE Max(all) # 0
    <3>1. i \in 1 .. n /\ i <= Max(all)
      BY <1>2
    <3> QED BY <3>1
  <2> QED BY <1>3, <2>1
<1> QED BY <1>2, <1>3, <1>4, <1>5

LEMMA LatestGrows ==
  ASSUME NEW n \in Nat, NEW found, found \subseteq 1 .. n
  PROVE  Latest(found \cup {n + 1}) = n + 1
<1> DEFINE m == n + 1
           all == found \cup {n + 1} \cup {0}
<1>1. m \in Nat /\ m \in all /\ all \subseteq 0 .. m
  OBVIOUS
<1>2. \A i \in all : i <= m
  BY <1>1
<1> HIDE DEF m
<1>3. Max(all) = m
  BY <1>1, <1>2, GreatestIs
<1> QED BY <1>3 DEF Latest, m

-----------------------------------------------------------------------------
\* The fold, one event at a time.

Step(view, e) ==
  [status |-> NextStatus(view.status, e.type),
   inbox |-> NextInbox(view.inbox, e),
   maxCost |-> IF e.type = "RunCreated" THEN CostLimit ELSE view.maxCost]

Start == [status |-> "created", inbox |-> [a \in Approvals |-> "none"], maxCost |-> 0]

\* fold gives for every set of events what folding these makes of the start.
IsFold(fold, s) ==
  fold = [S \in SUBSET DOMAIN s |-> IF S = {} THEN Start ELSE Step(fold[S \ {Max(S)}], s[Max(S)])]

Foldable(s) ==
  /\ \E fold : IsFold(fold, s)
  /\ \A f, g : IsFold(f, s) /\ IsFold(g, s) => f = g

LEMMA ProjectionFolds ==
  ASSUME NEW s, NEW fold, IsFold(fold, s), Foldable(s)
  PROVE  ProjectRunControl(s) = fold[DOMAIN s]
<1> DEFINE chosen == CHOOSE f : IsFold(f, s)
<1>1. ProjectRunControl(s) = chosen[DOMAIN s]
  BY DEF ProjectRunControl, FoldLeft, MapThenFoldSet, IsFold, Step, Start
<1>2. IsFold(chosen, s)
  OBVIOUS
<1> HIDE DEF chosen
<1>3. chosen = fold
  BY <1>2 DEF Foldable
<1> QED BY <1>1, <1>3

LEMMA EmptyFolds ==
  Foldable(<<>>) /\ ProjectRunControl(<<>>) = Start
<1> DEFINE fold == [S \in {{}} |-> Start]
<1>1. SUBSET DOMAIN <<>> = {{}}
  OBVIOUS
<1>2. \A f : IsFold(f, <<>>) => f = fold
  <2> SUFFICES ASSUME NEW f, IsFold(f, <<>>) PROVE f = fold
    OBVIOUS
  <2>1. f = [S \in {{}} |-> IF S = {} THEN Start ELSE Step(f[S \ {Max(S)}], <<>>[Max(S)])]
    BY <1>1 DEF IsFold
  <2> QED BY <2>1
<1>3. IsFold(fold, <<>>)
  BY <1>1 DEF IsFold
<1>4. Foldable(<<>>)
  BY <1>2, <1>3 DEF Foldable
<1>5. fold[DOMAIN <<>>] = Start
  OBVIOUS
<1> HIDE DEF fold
<1> QED BY <1>3, <1>4, <1>5, ProjectionFolds

\* A log that grows by an event folds to one step more.
LEMMA AppendFolds ==
  ASSUME NEW X, NEW s \in Seq(X), NEW e \in X, Foldable(s)
  PROVE  Foldable(Append(s, e)) /\ ProjectRunControl(Append(s, e)) = Step(ProjectRunControl(s), e)
<1>1. PICK n, t, fold : n = Len(s) /\ t = Append(s, e) /\ IsFold(fold, s)
  BY DEF Foldable
<1>2. /\ n \in Nat /\ DOMAIN s = 1 .. n /\ DOMAIN t = 1 .. (n + 1)
      /\ t[n + 1] = e /\ \A i \in 1 .. n : t[i] = s[i]
  BY <1>1
<1>3. ASSUME NEW S \in SUBSET (1 .. n), S # {}
      PROVE  Max(S) \in S /\ Max(S) \in 1 .. n /\ S \ {Max(S)} \in SUBSET (1 .. n)
  <2>1. S \subseteq 0 .. n
    BY <1>2
  <2>2. Max(S) \in S
    BY <1>2, <1>3, <2>1, GreatestOf
  <2> QED BY <2>2
<1>4. ASSUME NEW S \in SUBSET (1 .. (n + 1)), n + 1 \in S
      PROVE  Max(S) = n + 1 /\ S \ {n + 1} \in SUBSET (1 .. n)
  <2>1. PICK m : m = n + 1 /\ m \in Nat /\ m \in S /\ S \subseteq 0 .. m /\ \A y \in S : y <= m
    BY <1>2, <1>4
  <2>2. Max(S) = m
    BY <2>1, GreatestIs
  <2>3. 1 .. (n + 1) = (1 .. n) \cup {n + 1}
    BY <1>2
  <2> QED BY <2>1, <2>2, <2>3
<1>5. ASSUME NEW S \in SUBSET (1 .. (n + 1)), n + 1 \notin S
      PROVE  S \in SUBSET (1 .. n)
  <2>1. 1 .. (n + 1) = (1 .. n) \cup {n + 1}
    BY <1>2
  <2> QED BY <1>5, <2>1
<1>6. /\ fold[{}] = Start
      /\ \A S \in SUBSET (1 .. n) : S # {} => fold[S] = Step(fold[S \ {Max(S)}], s[Max(S)])
  BY <1>1, <1>2 DEF IsFold
\* What folds the longer log folds the shorter one within.
<1>7. ASSUME NEW f, IsFold(f, t)
      PROVE  /\ f = [S \in SUBSET (1 .. (n + 1)) |-> f[S]]
             /\ \A S \in SUBSET (1 .. n) : f[S] = fold[S]
             /\ \A S \in SUBSET (1 .. (n + 1)) : n + 1 \in S => f[S] = Step(fold[S \ {n + 1}], e)
  <2>1. f = [S \in SUBSET (1 .. (n + 1)) |-> IF S = {} THEN Start ELSE Step(f[S \ {Max(S)}], t[Max(S)])]
    BY <1>2, <1>7 DEF IsFold
  <2>2. f[{}] = Start
    BY <2>1
  <2>3. ASSUME NEW S \in SUBSET (1 .. (n + 1)), S # {}
        PROVE  f[S] = Step(f[S \ {Max(S)}], t[Max(S)])
    BY <2>1, <2>3
  <2> DEFINE h == [S \in SUBSET (1 .. n) |-> f[S]]
  <2>4. \A S \in SUBSET (1 .. n) : h[S] = f[S]
    OBVIOUS
  <2>5. h = [S \in SUBSET (1 .. n) |-> h[S]]
    OBVIOUS
  <2> HIDE DEF h
  <2>6. ASSUME NEW S \in SUBSET (1 .. n)
        PROVE  h[S] = IF S = {} THEN Start ELSE Step(h[S \ {Max(S)}], s[Max(S)])
    <3>1. CASE S = {}
      BY <2>2, <2>4, <3>1
    <3>2. CASE S # {}
      <4>1. S \in SUBSET (1 .. (n + 1))
        BY <1>2
      <4>2. t[Max(S)] = s[Max(S)] /\ h[S \ {Max(S)}] = f[S \ {Max(S)}] /\ h[S] = f[S]
        BY <1>2, <1>3, <2>4, <3>2
      <4> QED BY <2>3, <3>2, <4>1, <4>2
    <3> QED BY <3>1, <3>2
  <2>7. h = [S \in SUBSET (1 .. n) |-> IF S = {} THEN Start ELSE Step(h[S \ {Max(S)}], s[Max(S)])]
    BY <2>5, <2>6
  <2>8. IsFold(h, s)
    BY <1>2, <2>7 DEF IsFold
  <2>9. h = fold
    BY <1>1, <2>8 DEF Foldable
  <2>10. ASSUME NEW S \in SUBSET (1 .. (n + 1)), n + 1 \in S
         PROVE  f[S] = Step(fold[S \ {n + 1}], e)
    <3>1. S # {} /\ Max(S) = n + 1 /\ S \ {n + 1} \in SUBSET (1 .. n)
      BY <1>4, <2>10
    <3>2. f[S] = Step(f[S \ {n + 1}], t[n + 1])
      BY <2>3, <3>1
    <3> QED BY <1>2, <2>4, <2>9, <3>1, <3>2
  <2> QED BY <2>1, <2>4, <2>9, <2>10
<1> DEFINE longer == [S \in SUBSET (1 .. (n + 1)) |->
                        IF n + 1 \in S THEN Step(fold[S \ {n + 1}], e) ELSE fold[S]]
<1>8. /\ \A S \in SUBSET (1 .. (n + 1)) : n + 1 \in S => longer[S] = Step(fold[S \ {n + 1}], e)
      /\ \A S \in SUBSET (1 .. (n + 1)) : n + 1 \notin S => longer[S] = fold[S]
      /\ longer = [S \in SUBSET (1 .. (n + 1)) |-> longer[S]]
  OBVIOUS
<1> HIDE DEF longer
<1>9. ASSUME NEW S \in SUBSET (1 .. (n + 1))
      PROVE  longer[S] = IF S = {} THEN Start ELSE Step(longer[S \ {Max(S)}], t[Max(S)])
  <2>1. CASE n + 1 \in S
    <3>1. S # {} /\ Max(S) = n + 1 /\ S \ {n + 1} \in SUBSET (1 .. n)
      BY <1>4, <2>1
    <3>2. S \ {n + 1} \in SUBSET (1 .. (n + 1)) /\ n + 1 \notin S \ {n + 1}
      OBVIOUS
    <3>3. longer[S \ {n + 1}] = fold[S \ {n + 1}]
      BY <1>8, <3>2
    <3> QED BY <1>2, <1>8, <2>1, <3>1, <3>3
  <2>2. CASE n + 1 \notin S /\ S # {}
    <3>1. S \in SUBSET (1 .. n)
      BY <1>5, <2>2
    <3>2. Max(S) \in 1 .. n /\ S \ {Max(S)} \in SUBSET (1 .. n)
      BY <1>3, <2>2, <3>1
    <3>3. S \ {Max(S)} \in SUBSET (1 .. (n + 1)) /\ n + 1 \notin S \ {Max(S)}
      BY <2>2
    <3>4. longer[S \ {Max(S)}] = fold[S \ {Max(S)}] /\ longer[S] = fold[S]
      BY <1>8, <2>2, <3>3
    <3> QED BY <1>2, <1>6, <2>2, <3>1, <3>2, <3>4
  <2>3. CASE S = {}
    <3>1. n + 1 \notin S /\ longer[S] = fold[S]
      BY <1>8, <2>3
    <3> QED BY <1>6, <2>3, <3>1
  <2> QED BY <2>1, <2>2, <2>3
<1>10. longer = [S \in SUBSET (1 .. (n + 1)) |-> IF S = {} THEN Start ELSE Step(longer[S \ {Max(S)}], t[Max(S)])]
  BY <1>8, <1>9
<1>11. IsFold(longer, t)
  BY <1>2, <1>10 DEF IsFold
<1>12. \A f, g : IsFold(f, t) /\ IsFold(g, t) => f = g
  <2> SUFFICES ASSUME NEW f, NEW g, IsFold(f, t), IsFold(g, t) PROVE f = g
    OBVIOUS
  <2>1. f = [S \in SUBSET (1 .. (n + 1)) |-> f[S]] /\ g = [S \in SUBSET (1 .. (n + 1)) |-> g[S]]
    BY <1>7
  <2>2. ASSUME NEW S \in SUBSET (1 .. (n + 1)) PROVE f[S] = g[S]
    <3>1. CASE n + 1 \in S
      BY <1>7, <3>1
    <3>2. CASE n + 1 \notin S
      BY <1>5, <1>7, <3>2
    <3> QED BY <3>1, <3>2
  <2> QED BY <2>1, <2>2
<1>13. Foldable(t)
  BY <1>11, <1>12 DEF Foldable
<1>14. ProjectRunControl(t) = longer[1 .. (n + 1)]
  BY <1>2, <1>11, <1>13, ProjectionFolds
<1>15. ProjectRunControl(s) = fold[1 .. n]
  BY <1>1, <1>2, ProjectionFolds
<1>16. longer[1 .. (n + 1)] = Step(fold[1 .. n], e)
  <2>1. (1 .. (n + 1)) \ {n + 1} = 1 .. n /\ n + 1 \in 1 .. (n + 1)
    BY <1>2
  <2> QED BY <1>8, <2>1
<1> QED BY <1>1, <1>13, <1>14, <1>15, <1>16

-----------------------------------------------------------------------------
\* The invariant.

\* An event is of one kind, and what it names is an approval.
LEMMA EventShape ==
  ASSUME NEW e \in Event
  PROVE  /\ e.type \in Preparing \cup Resuming \cup Terminal \cup Neutral
                        \cup {"RunPaused", "ApprovalRequested", "ApprovalResolved"}
         /\ e.type \in {"ApprovalRequested", "ApprovalResolved"} => e.approval \in Approvals
         /\ e.type = "ApprovalResolved" => e.decision \in {"approved", "rejected"}
BY DEF Event, Preparing, Resuming, Terminal, Neutral

\* The status is what the last word on the life of the run and the work since make of it.
StatusIsOf(status, s, word) ==
  /\ (status = "created") <=> \A i \in DOMAIN s : s[i].type \in Preparing
  /\ word = 0 => status \in {"created", "running"}
  /\ word # 0 /\ s[word].type \in Terminal => status = s[word].type
  /\ word # 0 /\ s[word].type = "RunPaused" =>
       status = IF \A i \in DOMAIN s : i > word => s[i].type \notin Resuming THEN "paused" ELSE "running"

\* An approval is what the last of its requests and decisions make of it.
ApprovalIsOf(state, s, requested, resolved) ==
  /\ requested = 0 => state = "none"
  /\ requested # 0 /\ requested > resolved => state = "pending"
  /\ requested # 0 /\ requested <= resolved =>
       /\ resolved > requested
       /\ state = s[resolved].decision /\ state \in {"approved", "rejected"}

ViewInv ==
  /\ log \in Seq(Event)
  /\ Foldable(log)
  /\ ProjectRunControl(log).inbox \in [Approvals -> {"none", "pending", "approved", "rejected"}]
  /\ StatusIsOf(ProjectRunControl(log).status, log, LifeWord(log))
  /\ \A a \in Approvals :
       ApprovalIsOf(ProjectRunControl(log).inbox[a], log, Requested(log, a), Resolved(log, a))

LEMMA WordsFound ==
  ASSUME NEW s \in Seq(Event)
  PROVE  /\ LifeWord(s) # 0 => LifeWord(s) \in 1 .. Len(s) /\ s[LifeWord(s)].type \in Terminal \cup {"RunPaused"}
         /\ \A i \in 1 .. Len(s) : s[i].type \in Terminal \cup {"RunPaused"} => i <= LifeWord(s)
         /\ \A a : /\ \/ Requested(s, a) = 0
                     \/ /\ Requested(s, a) \in 1 .. Len(s)
                        /\ s[Requested(s, a)].type = "ApprovalRequested" /\ s[Requested(s, a)].approval = a
                  /\ \/ Resolved(s, a) = 0
                     \/ /\ Resolved(s, a) \in 1 .. Len(s)
                        /\ s[Resolved(s, a)].type = "ApprovalResolved" /\ s[Resolved(s, a)].approval = a
<1>1. Len(s) \in Nat /\ DOMAIN s = 1 .. Len(s)
  OBVIOUS
<1>2. /\ LifeWord(s) # 0 => LifeWord(s) \in 1 .. Len(s) /\ s[LifeWord(s)].type \in Terminal \cup {"RunPaused"}
      /\ \A i \in 1 .. Len(s) : s[i].type \in Terminal \cup {"RunPaused"} => i <= LifeWord(s)
  <2> DEFINE found == {i \in 1 .. Len(s) : s[i].type \in Terminal \cup {"RunPaused"}}
  <2>1. LifeWord(s) = Latest(found)
    BY <1>1 DEF LifeWord
  <2>2. Latest(found) \in found \cup {0} /\ \A i \in found : i <= Latest(found)
    BY <1>1, LatestOf
  <2> QED BY <2>1, <2>2
<1>3. ASSUME NEW a
      PROVE  /\ \/ Requested(s, a) = 0
                \/ /\ Requested(s, a) \in 1 .. Len(s)
                   /\ s[Requested(s, a)].type = "ApprovalRequested" /\ s[Requested(s, a)].approval = a
             /\ \/ Resolved(s, a) = 0
                \/ /\ Resolved(s, a) \in 1 .. Len(s)
                   /\ s[Resolved(s, a)].type = "ApprovalResolved" /\ s[Resolved(s, a)].approval = a
  <2> DEFINE asked == {i \in 1 .. Len(s) : s[i].type = "ApprovalRequested" /\ s[i].approval = a}
             given == {i \in 1 .. Len(s) : s[i].type = "ApprovalResolved" /\ s[i].approval = a}
  <2>1. Requested(s, a) = Latest(asked) /\ Resolved(s, a) = Latest(given)
    BY <1>1 DEF Requested, Resolved
  <2>2. Latest(asked) \in asked \cup {0} /\ Latest(given) \in given \cup {0}
    BY <1>1, LatestOf
  <2> QED BY <2>1, <2>2
<1> QED BY <1>2, <1>3

\* An event becomes the last of its kind and leaves the last of the others.
LEMMA LifeWordAfter ==
  ASSUME NEW s \in Seq(Event), NEW e \in Event, NEW t, t = Append(s, e)
  PROVE  LifeWord(t) = IF e.type \in Terminal \cup {"RunPaused"} THEN Len(s) + 1 ELSE LifeWord(s)
<1>1. PICK n \in Nat : n = Len(s) /\ DOMAIN s = 1 .. n /\ DOMAIN t = 1 .. (n + 1)
  OBVIOUS
<1>2. t[n + 1] = e /\ \A i \in 1 .. n : t[i] = s[i]
  BY <1>1
<1>3. 1 .. (n + 1) = (1 .. n) \cup {n + 1}
  OBVIOUS
<1> DEFINE found == {i \in 1 .. n : s[i].type \in Terminal \cup {"RunPaused"}}
           after == {i \in 1 .. (n + 1) : t[i].type \in Terminal \cup {"RunPaused"}}
<1>4. LifeWord(s) = Latest(found) /\ LifeWord(t) = Latest(after)
  BY <1>1 DEF LifeWord
<1>5. after = IF e.type \in Terminal \cup {"RunPaused"} THEN found \cup {n + 1} ELSE found
  BY <1>2, <1>3
<1>6. found \subseteq 1 .. n
  OBVIOUS
<1> HIDE DEF found, after
<1> QED BY <1>1, <1>4, <1>5, <1>6, LatestGrows

LEMMA RequestedAfter ==
  ASSUME NEW s \in Seq(Event), NEW e \in Event, NEW a \in Approvals, NEW t, t = Append(s, e)
  PROVE  /\ e.type = "ApprovalRequested" /\ e.approval = a => Requested(t, a) = Len(s) + 1
         /\ ~(e.type = "ApprovalRequested" /\ e.approval = a) => Requested(t, a) = Requested(s, a)
<1>1. PICK n \in Nat : n = Len(s) /\ DOMAIN s = 1 .. n /\ DOMAIN t = 1 .. (n + 1)
  OBVIOUS
<1>2. t[n + 1] = e /\ \A i \in 1 .. n : t[i] = s[i]
  BY <1>1
<1>3. 1 .. (n + 1) = (1 .. n) \cup {n + 1}
  OBVIOUS
<1> DEFINE found == {i \in 1 .. n : s[i].type = "ApprovalRequested" /\ s[i].approval = a}
           after == {i \in 1 .. (n + 1) : t[i].type = "ApprovalRequested" /\ t[i].approval = a}
<1>4. Requested(s, a) = Latest(found) /\ Requested(t, a) = Latest(after)
  BY <1>1 DEF Requested
<1>5. after = IF e.type = "ApprovalRequested" /\ e.approval = a THEN found \cup {n + 1} ELSE found
  BY <1>2, <1>3
<1>6. found \subseteq 1 .. n
  OBVIOUS
<1> HIDE DEF found, after
<1> QED BY <1>1, <1>4, <1>5, <1>6, LatestGrows

LEMMA ResolvedAfter ==
  ASSUME NEW s \in Seq(Event), NEW e \in Event, NEW a \in Approvals, NEW t, t = Append(s, e)
  PROVE  /\ e.type = "ApprovalResolved" /\ e.approval = a => Resolved(t, a) = Len(s) + 1
         /\ ~(e.type = "ApprovalResolved" /\ e.approval = a) => Resolved(t, a) = Resolved(s, a)
<1>1. PICK n \in Nat : n = Len(s) /\ DOMAIN s = 1 .. n /\ DOMAIN t = 1 .. (n + 1)
  OBVIOUS
<1>2. t[n + 1] = e /\ \A i \in 1 .. n : t[i] = s[i]
  BY <1>1
<1>3. 1 .. (n + 1) = (1 .. n) \cup {n + 1}
  OBVIOUS
<1> DEFINE found == {i \in 1 .. n : s[i].type = "ApprovalResolved" /\ s[i].approval = a}
           after == {i \in 1 .. (n + 1) : t[i].type = "ApprovalResolved" /\ t[i].approval = a}
<1>4. Resolved(s, a) = Latest(found) /\ Resolved(t, a) = Latest(after)
  BY <1>1 DEF Resolved
<1>5. after = IF e.type = "ApprovalResolved" /\ e.approval = a THEN found \cup {n + 1} ELSE found
  BY <1>2, <1>3
<1>6. found \subseteq 1 .. n
  OBVIOUS
<1> HIDE DEF found, after
<1> QED BY <1>1, <1>4, <1>5, <1>6, LatestGrows

LEMMA StatusFollows ==
  ASSUME NEW s \in Seq(Event), NEW e \in Event, NEW t, t = Append(s, e),
         NEW status, StatusIsOf(status, s, LifeWord(s))
  PROVE  StatusIsOf(NextStatus(status, e.type), t, LifeWord(t))
<1> PICK word : word = LifeWord(s)
  OBVIOUS
<1>1. PICK n \in Nat : n = Len(s) /\ DOMAIN s = 1 .. n /\ DOMAIN t = 1 .. (n + 1)
  OBVIOUS
<1>2. t[n + 1] = e /\ \A i \in 1 .. n : t[i] = s[i]
  BY <1>1
<1>3. /\ word # 0 => word \in 1 .. n /\ s[word].type \in Terminal \cup {"RunPaused"}
  BY <1>1, WordsFound
<1>4. LifeWord(t) = IF e.type \in Terminal \cup {"RunPaused"} THEN n + 1 ELSE word
  BY <1>1, LifeWordAfter
<1>5. PICK next : next = NextStatus(status, e.type)
  OBVIOUS
<1>6. StatusIsOf(status, s, word)
  BY <1>1
<1>7. e.type \in Preparing \cup Resuming \cup Terminal \cup Neutral
                \cup {"RunPaused", "ApprovalRequested", "ApprovalResolved"}
  BY EventShape
<1>8. 1 .. (n + 1) = (1 .. n) \cup {n + 1} /\ n + 1 # 0
  OBVIOUS
<1>9. (next = "created") <=> \A i \in 1 .. (n + 1) : t[i].type \in Preparing
  <2>1. (next = "created") <=> status = "created" /\ e.type \in Preparing
    BY <1>5, <1>7 DEF NextStatus, Preparing, Resuming, Terminal, Neutral
  <2>2. (status = "created") <=> \A i \in 1 .. n : s[i].type \in Preparing
    BY <1>1, <1>6 DEF StatusIsOf
  <2> QED BY <1>2, <1>8, <2>1, <2>2
<1>10. CASE e.type \in Terminal
  <2>1. next = e.type /\ LifeWord(t) = n + 1
    BY <1>4, <1>5, <1>10 DEF NextStatus, Terminal
  <2> QED BY <1>1, <1>2, <1>5, <1>8, <1>9, <1>10, <2>1 DEF StatusIsOf, Terminal
<1>11. CASE e.type = "RunPaused"
  <2>1. next = "paused" /\ LifeWord(t) = n + 1
    BY <1>4, <1>5, <1>11 DEF NextStatus
  <2>2. \A i \in 1 .. (n + 1) : ~(i > n + 1)
    OBVIOUS
  <2> QED BY <1>1, <1>2, <1>5, <1>8, <1>9, <1>11, <2>1, <2>2 DEF StatusIsOf, Terminal
<1>12. CASE e.type \notin Terminal \cup {"RunPaused"}
  <2>1. LifeWord(t) = word /\ (word # 0 => t[word] = s[word])
    BY <1>2, <1>3, <1>4, <1>12
  <2>2. word = 0 => next \in {"created", "running"}
    BY <1>5, <1>6, <1>12 DEF StatusIsOf, NextStatus
  <2>3. word # 0 /\ s[word].type \in Terminal => next = s[word].type
    BY <1>5, <1>6, <1>12 DEF StatusIsOf, NextStatus, Terminal
  <2>4. ASSUME word # 0, s[word].type = "RunPaused"
        PROVE  next = IF \A i \in 1 .. (n + 1) : i > word => t[i].type \notin Resuming THEN "paused" ELSE "running"
    <3>1. status = IF \A i \in 1 .. n : i > word => s[i].type \notin Resuming THEN "paused" ELSE "running"
      BY <1>1, <1>6, <2>4 DEF StatusIsOf
    <3>2. next = IF status = "paused" /\ e.type \in Resuming THEN "running" ELSE status
      BY <1>5, <1>12, <3>1 DEF NextStatus
    <3>3. n + 1 > word
      BY <1>3, <2>4
    <3>4. (\A i \in 1 .. (n + 1) : i > word => t[i].type \notin Resuming)
          <=> (\A i \in 1 .. n : i > word => s[i].type \notin Resuming) /\ e.type \notin Resuming
      BY <1>2, <1>8, <3>3
    <3> QED BY <3>1, <3>2, <3>4
  <2> QED BY <1>1, <1>5, <1>9, <2>1, <2>2, <2>3, <2>4 DEF StatusIsOf
<1> QED BY <1>10, <1>11, <1>12

LEMMA ApprovalFollows ==
  ASSUME NEW s \in Seq(Event), NEW e \in Event, NEW t, t = Append(s, e),
         NEW inbox \in [Approvals -> {"none", "pending", "approved", "rejected"}],
         NEW a \in Approvals,
         ApprovalIsOf(inbox[a], s, Requested(s, a), Resolved(s, a))
  PROVE  ApprovalIsOf(NextInbox(inbox, e)[a], t, Requested(t, a), Resolved(t, a))
<1> PICK p, q, x, y, next :
      /\ p = Requested(s, a) /\ q = Resolved(s, a)
      /\ x = Requested(t, a) /\ y = Resolved(t, a)
      /\ next = NextInbox(inbox, e)[a]
  OBVIOUS
<1>1. PICK n \in Nat : n = Len(s) /\ DOMAIN s = 1 .. n
  OBVIOUS
<1>2. t[n + 1] = e /\ \A i \in 1 .. n : t[i] = s[i]
  BY <1>1
<1>3. p \in 0 .. n /\ q \in 0 .. n
  <2>1. (p = 0 \/ p \in 1 .. n) /\ (q = 0 \/ q \in 1 .. n)
    BY <1>1, WordsFound
  <2> QED BY <1>1, <2>1
<1>4. q # 0 => t[q] = s[q]
  <2>1. q # 0 => q \in 1 .. n
    BY <1>3
  <2> QED BY <1>2, <2>1
<1>5. x = IF e.type = "ApprovalRequested" /\ e.approval = a THEN n + 1 ELSE p
  <2>1. /\ e.type = "ApprovalRequested" /\ e.approval = a => Requested(t, a) = Len(s) + 1
        /\ ~(e.type = "ApprovalRequested" /\ e.approval = a) => Requested(t, a) = Requested(s, a)
    BY RequestedAfter
  <2> QED BY <1>1, <2>1
<1>6. y = IF e.type = "ApprovalResolved" /\ e.approval = a THEN n + 1 ELSE q
  <2>1. /\ e.type = "ApprovalResolved" /\ e.approval = a => Resolved(t, a) = Len(s) + 1
        /\ ~(e.type = "ApprovalResolved" /\ e.approval = a) => Resolved(t, a) = Resolved(s, a)
    BY ResolvedAfter
  <2> QED BY <1>1, <2>1
<1>7. ApprovalIsOf(inbox[a], s, p, q)
  BY <1>1
<1>8. ApprovalIsOf(next, t, x, y)
  <2>1. CASE e.type = "ApprovalRequested" /\ e.approval = a
    <3>1. next = "pending" /\ x = n + 1 /\ y = q
      BY <1>1, <1>5, <1>6, <2>1 DEF NextInbox
    <3>2. x # 0 /\ x > y
      BY <1>1, <1>3, <3>1
    <3>3. ~(x <= y)
      BY <1>1, <1>3, <3>1
    <3> QED BY <3>1, <3>2, <3>3 DEF ApprovalIsOf
  <2>2. CASE e.type = "ApprovalResolved" /\ e.approval = a /\ inbox[a] # "none"
    <3>1. next = e.decision /\ x = p /\ y = n + 1
      BY <1>1, <1>5, <1>6, <2>2 DEF NextInbox
    <3>2. x # 0 /\ ~(x > y) /\ y > x
      BY <1>1, <1>3, <1>7, <2>2, <3>1 DEF ApprovalIsOf
    <3>3. t[y] = e /\ e.decision \in {"approved", "rejected"}
      BY <1>2, <2>2, <3>1, EventShape
    <3> QED BY <3>1, <3>2, <3>3 DEF ApprovalIsOf
  <2>3. CASE e.type = "ApprovalResolved" /\ e.approval = a /\ inbox[a] = "none"
    <3>1. next = "none" /\ x = p
      BY <1>1, <1>5, <2>3 DEF NextInbox
    <3>2. p = 0
      BY <1>1, <1>3, <1>7, <2>3 DEF ApprovalIsOf
    <3> QED BY <3>1, <3>2 DEF ApprovalIsOf
  <2>4. CASE ~(e.type \in {"ApprovalRequested", "ApprovalResolved"} /\ e.approval = a)
    <3>1. x = p /\ y = q
      BY <1>5, <1>6, <2>4
    <3>2. next = inbox[a]
      BY <1>1, <2>4, EventShape DEF NextInbox
    <3>3. p # 0 /\ p <= q => q # 0
      BY <1>3
    <3> QED BY <1>4, <1>7, <3>1, <3>2, <3>3 DEF ApprovalIsOf
  <2> QED BY <2>1, <2>2, <2>3, <2>4
<1> QED BY <1>1, <1>8

LEMMA ViewInit == LogInit => ViewInv
<1> SUFFICES ASSUME LogInit PROVE ViewInv
  OBVIOUS
<1> PICK s : s = <<>> /\ log = s
  BY DEF LogInit
<1>1. s \in Seq(Event) /\ DOMAIN s = {} /\ Len(s) = 0
  OBVIOUS
<1>2. Foldable(s) /\ ProjectRunControl(s) = Start
  BY <1>1, EmptyFolds
<1>3. PICK view : view = ProjectRunControl(s) /\ view = Start
  BY <1>2
<1>4. /\ view.status = "created" /\ view.inbox = [a \in Approvals |-> "none"]
  BY <1>3 DEF Start
<1>6. LifeWord(s) = 0
  <2>1. LifeWord(s) # 0 => LifeWord(s) \in 1 .. Len(s)
    BY <1>1, WordsFound
  <2> QED BY <1>1, <2>1
<1>7. ASSUME NEW a PROVE Requested(s, a) = 0
  <2>1. Requested(s, a) = 0 \/ Requested(s, a) \in 1 .. Len(s)
    BY <1>1, WordsFound
  <2> QED BY <1>1, <2>1
<1>8. StatusIsOf("created", s, 0)
  BY <1>1 DEF StatusIsOf
<1>9. ASSUME NEW a \in Approvals, NEW q PROVE ApprovalIsOf("none", s, 0, q)
  BY DEF ApprovalIsOf
<1>10. \A a \in Approvals : ApprovalIsOf(view.inbox[a], s, Requested(s, a), Resolved(s, a))
  BY <1>4, <1>7, <1>9
<1> QED BY <1>1, <1>2, <1>3, <1>4, <1>6, <1>8, <1>10 DEF ViewInv

LEMMA ViewStep == ViewInv /\ [LogNext]_log => ViewInv'
<1> SUFFICES ASSUME ViewInv, [LogNext]_log PROVE ViewInv'
  OBVIOUS
<1>1. ASSUME NEW e \in Event, AppendRunEvent(e) PROVE ViewInv'
  <2>1. PICK s, t, view : s = log /\ t = log' /\ view = ProjectRunControl(log)
    OBVIOUS
  <2>2. s \in Seq(Event) /\ t = Append(s, e) /\ t \in Seq(Event) /\ Foldable(s) /\ view = ProjectRunControl(s)
    BY <1>1, <2>1 DEF ViewInv, AppendRunEvent
  <2>3. Foldable(t) /\ ProjectRunControl(t) = Step(view, e)
    BY <2>2, AppendFolds
  <2>4. /\ view.inbox \in [Approvals -> {"none", "pending", "approved", "rejected"}]
        /\ StatusIsOf(view.status, s, LifeWord(s))
        /\ \A a \in Approvals : ApprovalIsOf(view.inbox[a], s, Requested(s, a), Resolved(s, a))
    BY <2>1 DEF ViewInv
  <2>5. StatusIsOf(NextStatus(view.status, e.type), t, LifeWord(t))
    BY <2>2, <2>4, StatusFollows
  <2>6. ASSUME NEW a \in Approvals
        PROVE  ApprovalIsOf(NextInbox(view.inbox, e)[a], t, Requested(t, a), Resolved(t, a))
    BY <2>2, <2>4, ApprovalFollows
  <2>7. NextInbox(view.inbox, e) \in [Approvals -> {"none", "pending", "approved", "rejected"}]
    BY <2>4, EventShape DEF NextInbox
  <2>8. PICK next : /\ next = ProjectRunControl(t)
                    /\ next.status = NextStatus(view.status, e.type)
                    /\ next.inbox = NextInbox(view.inbox, e)
    BY <2>3 DEF Step
  <2>9. /\ t \in Seq(Event) /\ Foldable(t)
        /\ ProjectRunControl(t).inbox \in [Approvals -> {"none", "pending", "approved", "rejected"}]
        /\ StatusIsOf(ProjectRunControl(t).status, t, LifeWord(t))
        /\ \A a \in Approvals : ApprovalIsOf(ProjectRunControl(t).inbox[a], t, Requested(t, a), Resolved(t, a))
    BY <2>2, <2>3, <2>5, <2>6, <2>7, <2>8
  <2> QED BY <2>1, <2>9 DEF ViewInv
<1>2. CASE UNCHANGED log
  BY <1>2 DEF ViewInv
<1> QED BY <1>1, <1>2 DEF LogNext

LEMMA ViewMatches == ViewInv => CommandsMatchTheLog
<1> SUFFICES ASSUME ViewInv PROVE CommandsMatchTheLog
  OBVIOUS
<1>1. PICK view, word : view = ProjectRunControl(log) /\ word = LifeWord(log)
  OBVIOUS
<1>2. /\ StatusIsOf(view.status, log, word)
      /\ word # 0 => word \in DOMAIN log /\ log[word].type \in Terminal \cup {"RunPaused"}
      /\ log \in Seq(Event)
  BY <1>1, WordsFound DEF ViewInv
<1> DEFINE over == word # 0 /\ log[word].type \in Terminal
           halted == /\ word # 0 /\ log[word].type = "RunPaused"
                     /\ \A i \in DOMAIN log : i > word => log[i].type \notin Resuming
<1>3. (view.status \in Terminal) <=> over
  BY <1>2 DEF StatusIsOf, Terminal
<1>4. (view.status = "paused") <=> halted
  BY <1>2 DEF StatusIsOf, Terminal
<1>5. over => ~halted
  BY DEF Terminal
<1> HIDE DEF over, halted
<1>6. (Commands(view) = {}) <=> over
  BY <1>3 DEF Commands
<1>7. (<<"resume">> \in Commands(view)) <=> halted
  <2>1. <<"resume">> # <<"cancel">> /\ <<"resume">> # <<"pause">> /\ \A a : <<"resume">> # <<"resolve_approval", a>>
    OBVIOUS
  <2> QED BY <1>3, <1>4, <1>5, <2>1 DEF Commands
<1>8. ASSUME NEW a \in Approvals
      PROVE  /\ (<<"resolve_approval", a>> \in Commands(view)) <=> ~over /\ Requested(log, a) > Resolved(log, a)
             /\ Requested(log, a) # 0 /\ Resolved(log, a) > Requested(log, a) =>
                  view.inbox[a] = log[Resolved(log, a)].decision
  <2>1. PICK p, q : p = Requested(log, a) /\ q = Resolved(log, a)
    OBVIOUS
  <2>2. p \in Nat /\ q \in Nat
    BY <1>2, <2>1, WordsFound
  <2>3. ApprovalIsOf(view.inbox[a], log, p, q)
    BY <1>1, <2>1 DEF ViewInv
  <2>4. (view.inbox[a] = "pending") <=> p > q
    BY <2>2, <2>3 DEF ApprovalIsOf
  <2>5. p # 0 /\ q > p => view.inbox[a] = log[q].decision
    BY <2>2, <2>3 DEF ApprovalIsOf
  <2>6. (<<"resolve_approval", a>> \in Commands(view)) <=> ~over /\ view.inbox[a] = "pending"
    <3>1. <<"resolve_approval", a>> \notin {<<"cancel">>, <<"resume">>, <<"pause">>}
      OBVIOUS
    <3>2. \A b : <<"resolve_approval", a>> = <<"resolve_approval", b>> => a = b
      OBVIOUS
    <3> QED BY <1>3, <3>1, <3>2 DEF Commands
  <2> QED BY <2>1, <2>4, <2>5, <2>6
<1>9. (view.status = "created") <=> \A i \in DOMAIN log : log[i].type \in Preparing
  BY <1>2 DEF StatusIsOf
<1> QED BY <1>1, <1>6, <1>7, <1>8, <1>9 DEF CommandsMatchTheLog, over, halted

\* The commands an operator is offered are those the last words of the log
\* allow, whatever order the runtime and the people wrote it in.
THEOREM OperatorsMayWhatTheLogSays == LogSpec => []CommandsMatchTheLog
BY ViewInit, ViewStep, ViewMatches, PTL DEF LogSpec

-----------------------------------------------------------------------------
\* The plan that workers share: selectNextBranches and revise.

\* A set that holds 0 and with a number the next holds every number.
LEMMA EveryNumber ==
  ASSUME NEW S, 0 \in S, \A n \in Nat : n \in S => n + 1 \in S
  PROVE  \A n \in Nat : n \in S
<1> SUFFICES ASSUME Nat \ S # {} PROVE FALSE
  OBVIOUS
<1>1. PICK n \in Nat \ S : \A m \in Nat \ S : n <= m
  BY Least
<1>2. n # 0 /\ n - 1 \in Nat
  BY <1>1
<1>3. n - 1 \notin S
  BY <1>2
<1> QED BY <1>1, <1>2, <1>3

-----------------------------------------------------------------------------
\* The order of selectNextBranches is one, so there is always a best branch.

Sound(b) == b \in PlanBranch /\ b.gain \in 0..10 /\ b.cost >= 0

LEMMA DivisorIsPositive ==
  ASSUME NEW b, Sound(b)
  PROVE  Divisor(b) \in Nat \ {0} /\ b.gain \in Nat
BY DEF Sound, Divisor, PlanBranch

LEMMA Cancelled ==
  ASSUME NEW x \in Int, NEW y \in Int, NEW k \in Nat \ {0}
  PROVE  /\ x * k >= y * k => x >= y
         /\ x * k > y * k => x > y
         /\ x >= y => x * k >= y * k
         /\ x > y => x * k > y * k
OBVIOUS

LEMMA RatiosAreOrdered ==
  ASSUME NEW g \in Nat, NEW h \in Nat, NEW i \in Nat,
         NEW d \in Nat \ {0}, NEW e \in Nat \ {0}, NEW f \in Nat \ {0},
         g * e >= h * d, h * f >= i * e
  PROVE  /\ g * f >= i * d
         /\ g * e > h * d \/ h * f > i * e => g * f > i * d
<1>1. (g * e) * f >= (h * d) * f /\ (h * f) * d >= (i * e) * d
  OBVIOUS
<1>2. /\ (g * e) * f = (g * f) * e
      /\ (h * d) * f = (h * f) * d
      /\ (i * e) * d = (i * d) * e
  OBVIOUS
<1>3. g * f \in Nat /\ i * d \in Nat /\ g * e \in Nat /\ h * d \in Nat /\ h * f \in Nat /\ i * e \in Nat
  OBVIOUS
<1>4. (g * f) * e >= (i * d) * e
  BY <1>1, <1>2, <1>3
<1>5. g * e > h * d => (g * e) * f > (h * d) * f
  BY <1>3, Cancelled
<1>6. h * f > i * e => (h * f) * d > (i * e) * d
  BY <1>3, Cancelled
<1>7. g * e > h * d \/ h * f > i * e => (g * f) * e > (i * d) * e
  BY <1>1, <1>2, <1>3, <1>5, <1>6
<1> QED BY <1>3, <1>4, <1>7, Cancelled

LEMMA BetterIsAnOrder ==
  ASSUME NEW b, NEW c, NEW d, Sound(b), Sound(c), Sound(d)
  PROVE  /\ Better(b, c) /\ Better(c, d) => Better(b, d)
         /\ b.id # c.id => Better(b, c) \/ Better(c, b)
<1>1. /\ b.gain \in Nat /\ c.gain \in Nat /\ d.gain \in Nat
      /\ Divisor(b) \in Nat \ {0} /\ Divisor(c) \in Nat \ {0} /\ Divisor(d) \in Nat \ {0}
      /\ b.id \in Int /\ c.id \in Int /\ d.id \in Int
  BY DivisorIsPositive, PlanAssumption DEF Sound, PlanBranch
<1>2. \A x, y \in {b, c, d} : x.gain * Divisor(y) \in Nat
  BY <1>1
<1>3. ASSUME Better(b, c), Better(c, d) PROVE Better(b, d)
  <2>1. b.gain * Divisor(c) >= c.gain * Divisor(b) /\ c.gain * Divisor(d) >= d.gain * Divisor(c)
    BY <1>2, <1>3 DEF Better
  <2>2. /\ b.gain * Divisor(d) >= d.gain * Divisor(b)
        /\ b.gain * Divisor(c) > c.gain * Divisor(b) \/ c.gain * Divisor(d) > d.gain * Divisor(c) =>
             b.gain * Divisor(d) > d.gain * Divisor(b)
    <3>1. PICK g \in Nat, h \in Nat, i \in Nat, l \in Nat \ {0}, m \in Nat \ {0}, n \in Nat \ {0} :
            /\ g = b.gain /\ h = c.gain /\ i = d.gain
            /\ l = Divisor(b) /\ m = Divisor(c) /\ n = Divisor(d)
      BY <1>1
    <3>2. g * m >= h * l /\ h * n >= i * m
      BY <2>1, <3>1
    <3>3. g * n >= i * l /\ (g * m > h * l \/ h * n > i * m => g * n > i * l)
      BY ONLY <3>2, RatiosAreOrdered
    <3> QED BY <3>1, <3>3
  <2>3. CASE b.gain * Divisor(c) > c.gain * Divisor(b) \/ c.gain * Divisor(d) > d.gain * Divisor(c)
    BY <2>2, <2>3 DEF Better
  <2>4. CASE ~(b.gain * Divisor(c) > c.gain * Divisor(b) \/ c.gain * Divisor(d) > d.gain * Divisor(c))
    <3>1. b.id < c.id /\ c.id < d.id
      BY <1>3, <2>4 DEF Better
    <3> QED BY <1>1, <1>2, <2>2, <3>1 DEF Better
  <2> QED BY <2>3, <2>4
<1>4. ASSUME b.id # c.id PROVE Better(b, c) \/ Better(c, b)
  <2>1. PICK p \in Nat, q \in Nat : p = b.gain * Divisor(c) /\ q = c.gain * Divisor(b)
    BY <1>2
  <2>2. p > q \/ q > p \/ p = q
    OBVIOUS
  <2>3. b.id < c.id \/ c.id < b.id
    BY <1>1, <1>4
  <2> QED BY <2>1, <2>2, <2>3 DEF Better
<1> QED BY <1>3, <1>4

Whole(branches) == IsFiniteSet(branches) /\ branches \subseteq PlanBranch /\ WellFormed(branches)

LEMMA SomeBranchIsBest ==
  ASSUME NEW branches, Whole(branches), NEW rest \in SUBSET branches, rest # {}
  PROVE  \E b \in rest : \A c \in rest \ {b} : Better(b, c)
<1> DEFINE HasBest(S) == \E b \in S : \A c \in S \ {b} : Better(b, c)
           good == {n \in Nat : \A S \in SUBSET branches :
                      IsFiniteSet(S) /\ Cardinality(S) = n + 1 => HasBest(S)}
<1>1. /\ \A b \in branches : Sound(b)
      /\ \A b, c \in branches : b # c => b.id # c.id
  BY DEF Whole, WellFormed, Sound
<1>2. 0 \in good
  <2> SUFFICES ASSUME NEW S \in SUBSET branches, IsFiniteSet(S), Cardinality(S) = 1 PROVE HasBest(S)
    OBVIOUS
  <2>1. PICK b : S = {b}
    BY FS_Singleton
  <2> QED BY <2>1
<1>3. ASSUME NEW n \in Nat, n \in good PROVE n + 1 \in good
  <2> SUFFICES ASSUME NEW S \in SUBSET branches, IsFiniteSet(S), Cardinality(S) = (n + 1) + 1 PROVE HasBest(S)
    OBVIOUS
  <2>1. S # {}
    BY FS_EmptySet
  <2>2. PICK x : x \in S
    BY <2>1
  <2>3. IsFiniteSet(S \ {x}) /\ Cardinality(S \ {x}) = n + 1
    BY <2>2, FS_RemoveElement
  <2>4. S \ {x} \in SUBSET branches
    OBVIOUS
  <2>5. PICK b \in S \ {x} : \A c \in (S \ {x}) \ {b} : Better(b, c)
    BY <1>3, <2>3, <2>4
  <2>6. b \in branches /\ x \in branches /\ b # x
    BY <2>2, <2>5
  <2>7. CASE Better(b, x)
    BY <2>5, <2>7
  <2>8. CASE ~Better(b, x)
    <3>1. Better(x, b)
      BY <1>1, <2>6, <2>8, BetterIsAnOrder
    <3>2. ASSUME NEW c \in S \ {x} PROVE Better(x, c)
      <4>1. c \in branches
        OBVIOUS
      <4> QED BY <1>1, <2>5, <2>6, <3>1, <4>1, BetterIsAnOrder
    <3> QED BY <2>2, <3>2
  <2> QED BY <2>7, <2>8
<1> HIDE DEF good
<1>4. \A n \in Nat : n \in good
  BY <1>2, <1>3, EveryNumber
<1>5. IsFiniteSet(rest) /\ Cardinality(rest) \in Nat /\ Cardinality(rest) # 0
  BY FS_Subset, FS_CardinalityType, FS_EmptySet DEF Whole
<1>6. Cardinality(rest) - 1 \in good
  BY <1>4, <1>5
<1> QED BY <1>5, <1>6 DEF good

-----------------------------------------------------------------------------
\* The loop of selectNextBranches, one branch at a time.

IsWalk(picked, start, n) ==
  picked = [k \in 0..n |-> IF k = 0 THEN start ELSE LookAtBest(picked[k - 1])]

LEMMA WalksExist ==
  ASSUME NEW start
  PROVE  \A n \in Nat : \E picked : IsWalk(picked, start, n)
<1> DEFINE good == {n \in Nat : \E picked : IsWalk(picked, start, n)}
<1>1. 0 \in good
  <2>1. IsWalk([k \in 0..0 |-> start], start, 0)
    BY DEF IsWalk
  <2> QED BY <2>1
<1>2. ASSUME NEW n \in Nat, n \in good PROVE n + 1 \in good
  <2>1. PICK picked : IsWalk(picked, start, n)
    BY <1>2
  <2> DEFINE longer == [k \in 0..n + 1 |-> IF k = n + 1 THEN LookAtBest(picked[n]) ELSE picked[k]]
  <2>2. /\ picked[0] = start
        /\ \A k \in 1..n : picked[k] = LookAtBest(picked[k - 1])
    BY <2>1 DEF IsWalk
  <2>3. /\ longer[n + 1] = LookAtBest(picked[n])
        /\ \A k \in 0..n : longer[k] = picked[k]
        /\ longer = [k \in 0..n + 1 |-> longer[k]]
    OBVIOUS
  <2> HIDE DEF longer
  <2>4. ASSUME NEW k \in 0..n + 1
        PROVE  longer[k] = IF k = 0 THEN start ELSE LookAtBest(longer[k - 1])
    <3>1. CASE k = 0
      <4>1. 0 \in 0..n
        OBVIOUS
      <4>2. longer[0] = start
        BY <2>2, <2>3, <4>1
      <4> QED BY <3>1, <4>2
    <3>2. CASE k \in 1..n
      <4>1. k \in 0..n /\ k - 1 \in 0..n /\ k # 0
        BY <3>2
      <4>2. longer[k] = picked[k] /\ longer[k - 1] = picked[k - 1]
        BY <2>3, <4>1
      <4>3. picked[k] = LookAtBest(picked[k - 1])
        BY <2>2, <3>2
      <4> QED BY <4>1, <4>2, <4>3
    <3>3. CASE k = n + 1
      <4>1. longer[k - 1] = picked[n] /\ k # 0
        BY <2>3, <3>3
      <4> QED BY <2>3, <3>3, <4>1
    <3> QED BY <3>1, <3>2, <3>3
  <2>5. IsWalk(longer, start, n + 1)
    BY <2>3, <2>4 DEF IsWalk
  <2> QED BY <2>5
<1> HIDE DEF good
<1>3. \A n \in Nat : n \in good
  BY <1>1, <1>2, EveryNumber
<1> QED BY <1>3 DEF good

\* What is chosen is pending and within the budget.
LEMMA SelectionFits ==
  ASSUME NEW branches, Whole(branches), NEW budget \in Nat,
         NEW choice, choice = SelectNextBranches(branches, budget)
  PROVE  /\ choice.branches \subseteq {b \in branches : b.status = "pending"}
         /\ choice.left \in Nat
<1> DEFINE candidates == {b \in branches : b.status = "pending" /\ b.gain >= MinGain}
           n == Cardinality(candidates)
           start == [branches |-> {}, left |-> budget, todo |-> candidates]
           walk == CHOOSE picked : IsWalk(picked, start, n)
<1>1. choice = walk[n]
  BY DEF SelectNextBranches, IsWalk
<1>2. candidates \subseteq branches /\ IsFiniteSet(candidates) /\ n \in Nat
  BY FS_Subset, FS_CardinalityType DEF Whole
<1>3. start.branches = {} /\ start.left = budget /\ start.todo = candidates
  OBVIOUS
<1>4. candidates \subseteq {b \in branches : b.status = "pending"}
  OBVIOUS
<1>5. n = Cardinality(candidates)
  OBVIOUS
<1> HIDE DEF candidates, n, start
<1>6. IsWalk(walk, start, n)
  BY <1>2, WalksExist
<1> HIDE DEF walk
<1>7. walk[0] = start /\ \A k \in 1..n : walk[k] = LookAtBest(walk[k - 1])
  BY <1>2, <1>6 DEF IsWalk
<1> DEFINE Fits(picked, k) ==
             /\ picked.branches \subseteq candidates /\ picked.left \in Nat
             /\ picked.todo \subseteq candidates /\ IsFiniteSet(picked.todo)
             /\ Cardinality(picked.todo) = n - k
           good == {k \in Nat : k <= n => Fits(walk[k], k)}
<1>8. 0 \in good
  BY <1>2, <1>3, <1>5, <1>7
<1>9. ASSUME NEW k \in Nat, k \in good PROVE k + 1 \in good
  <2> SUFFICES ASSUME k + 1 <= n PROVE Fits(walk[k + 1], k + 1)
    OBVIOUS
  <2>1. PICK picked : picked = walk[k]
    OBVIOUS
  <2>2. Fits(picked, k)
    BY <1>2, <1>9, <2>1
  <2>3. picked.todo # {}
    BY <1>2, <2>2, FS_EmptySet
  <2>4. PICK best : best = CHOOSE b \in picked.todo : \A c \in picked.todo \ {b} : Better(b, c)
    OBVIOUS
  <2>5. best \in picked.todo
    BY <1>2, <2>2, <2>3, <2>4, SomeBranchIsBest
  <2>6. PICK next : next = LookAtBest(picked)
    OBVIOUS
  <2>7. /\ next.branches \subseteq picked.branches \cup {best}
        /\ next.left = picked.left \/ (best.cost <= picked.left /\ next.left = picked.left - best.cost)
        /\ next.todo = picked.todo \ {best}
    BY <2>4, <2>6 DEF LookAtBest
  <2>8. best.cost \in Nat
    BY <1>2, <2>2, <2>5 DEF Whole, WellFormed, PlanBranch
  <2>9. IsFiniteSet(next.todo) /\ Cardinality(next.todo) = (n - k) - 1
    <3>1. PICK rest : rest = picked.todo
      OBVIOUS
    <3>2. IsFiniteSet(rest) /\ best \in rest
      BY <2>2, <2>5, <3>1
    <3>3. IsFiniteSet(rest \ {best}) /\ Cardinality(rest \ {best}) = Cardinality(rest) - 1
      BY ONLY <3>2, FS_RemoveElement
    <3> QED BY <2>2, <2>7, <3>1, <3>3
  <2>10. next.left \in Nat
    BY <2>2, <2>7, <2>8
  <2>11. Fits(next, k + 1)
    BY <1>2, <2>2, <2>5, <2>7, <2>9, <2>10
  <2>12. walk[k + 1] = next
    BY <1>2, <1>7, <2>1, <2>6
  <2> QED BY <2>11, <2>12
<1> HIDE DEF good, Fits
<1>10. n \in good
  BY <1>2, <1>8, <1>9, EveryNumber
<1>11. Fits(walk[n], n)
  BY <1>2, <1>10 DEF good
<1> QED BY <1>1, <1>4, <1>11 DEF Fits

-----------------------------------------------------------------------------
\* What a worker runs is in the current version, as running, and runs nowhere else.

RunningIsOnRecord ==
  \A w \in Workers :
    /\ running[w] \subseteq Ids(Last(versions))
    /\ \A b \in Last(versions) : b.id \in running[w] => b.status = "running"
    /\ \A v \in Workers \ {w} : running[w] \cap running[v] = {}

PlanInv ==
  /\ versions \in Seq(SUBSET PlanBranch) /\ versions # <<>>
  /\ Whole(Last(versions))
  /\ running \in [Workers -> SUBSET Int]
  /\ remaining \in [Workers -> Nat]
  /\ RunningIsOnRecord

LEMMA PlanInitInv == PlanInit => PlanInv
<1> SUFFICES ASSUME PlanInit PROVE PlanInv
  OBVIOUS
<1>1. FirstBranches \subseteq PlanBranch /\ IsFiniteSet(FirstBranches) /\ Budget \in Nat
  BY PlanAssumption
<1>2. Last(versions) = FirstBranches
  BY DEF PlanInit, Last
<1> QED BY <1>1, <1>2 DEF PlanInit, PlanInv, Whole, RunningIsOnRecord, Ids

\* A revision that is accepted.
LEMMA RevisionsAreWhole ==
  ASSUME PlanInv, NEW w \in Workers, NEW updates, NEW added, IsFiniteSet(added), added \subseteq PlanBranch,
         \A u \in updates : u.evidence \subseteq Evidence,
         Revise(w, updates, added), versions' # versions
  PROVE  /\ versions' \in Seq(SUBSET PlanBranch) /\ versions' # <<>>
         /\ Whole(Last(versions'))
         /\ Last(versions') = Revised(Last(versions), updates, added)
         /\ held[w] = Len(versions) /\ versions[held[w]] = Last(versions)
         /\ \A u \in updates : \E b \in Last(versions) : b.id = u.id /\ u.status \in AllowedTransitions[b.status]
<1>1. PICK current : current = Last(versions)
  OBVIOUS
<1>2. PICK next : next = Revised(current, updates, added)
  OBVIOUS
<1>3. /\ versions' = Append(versions, next) /\ Len(versions) = held[w] /\ WellFormed(next)
      /\ \A u \in updates : \E b \in current : b.id = u.id /\ u.status \in AllowedTransitions[b.status]
  BY <1>1, <1>2 DEF Revise, MayRevise
<1>4. Whole(current)
  BY <1>1 DEF PlanInv
<1> DEFINE Of(b) == IF \E u \in updates : u.id = b.id
                    THEN LET u == CHOOSE u \in updates : u.id = b.id
                         IN [b EXCEPT !.status = u.status, !.evidence = @ \cup u.evidence]
                    ELSE b
<1>5. PICK revised : revised = [b \in current |-> Of(b)]
  OBVIOUS
<1>6. next = {Of(b) : b \in current} \cup added
  BY <1>2 DEF Revised
<1>16. \A b \in current : revised[b] = Of(b)
  BY <1>5
<1> HIDE DEF Of
<1>17. next = {revised[b] : b \in current} \cup added
  BY <1>6, <1>16
<1>7. ASSUME NEW b \in current PROVE revised[b] \in PlanBranch
  <2>1. b \in PlanBranch
    BY <1>4 DEF Whole
  <2>2. CASE \E u \in updates : u.id = b.id
    <3>1. PICK u : u = CHOOSE v \in updates : v.id = b.id
      OBVIOUS
    <3>2. u \in updates /\ u.id = b.id
      BY <2>2, <3>1
    <3>3. revised[b] = [b EXCEPT !.status = u.status, !.evidence = @ \cup u.evidence]
      BY <1>16, <2>2, <3>1 DEF Of
    <3>4. PICK c \in current : c.id = u.id /\ u.status \in AllowedTransitions[c.status]
      BY <1>3, <3>2
    <3>5. c \in PlanBranch
      BY <1>4 DEF Whole
    <3>6. u.status \in Statuses
      BY <3>4, <3>5 DEF PlanBranch, Statuses, AllowedTransitions
    <3>7. b.evidence \cup u.evidence \in SUBSET Evidence
      BY <2>1, <3>2 DEF PlanBranch
    <3>8. revised[b] = [[b EXCEPT !.status = u.status] EXCEPT !.evidence = b.evidence \cup u.evidence]
      BY <2>1, <3>3 DEF PlanBranch
    <3>9. [b EXCEPT !.status = u.status] \in PlanBranch
      BY <2>1, <3>6 DEF PlanBranch
    <3> QED BY <3>7, <3>8, <3>9 DEF PlanBranch
  <2>3. CASE ~\E u \in updates : u.id = b.id
    BY <1>16, <2>1, <2>3 DEF Of
  <2> QED BY <2>2, <2>3
<1>8. IsFiniteSet(next)
  <2> DEFINE image == {revised[b] : b \in current}
  <2>0. revised \in Surjection(current, image)
    <3>1. revised \in [current -> image] /\ \A c \in image : \E b \in current : revised[b] = c
      BY <1>5
    <3> QED BY <3>1 DEF Surjection
  <2>1. IsFiniteSet(image)
    <3> HIDE DEF image
    <3> QED BY <1>4, <2>0, FS_Surjection DEF Whole
  <2> QED BY <1>17, <2>1, FS_Union
<1>9. Whole(next)
  BY <1>3, <1>7, <1>8, <1>17 DEF Whole
<1>10. versions \in Seq(SUBSET PlanBranch) /\ next \in SUBSET PlanBranch /\ versions # <<>>
  BY <1>9 DEF PlanInv, Whole
<1>11. versions' \in Seq(SUBSET PlanBranch) /\ versions' # <<>> /\ Last(versions') = next
  BY <1>3, <1>10, AppendProperties DEF Last
<1>12. versions[held[w]] = current
  BY <1>1, <1>3 DEF Last
<1> QED BY <1>1, <1>2, <1>3, <1>9, <1>11, <1>12

\* What an accepted revision makes of the branches it names, and of the others.
LEMMA RevisedBranches ==
  ASSUME NEW current, current \subseteq PlanBranch, NEW updates, NEW added
  PROVE  /\ \A b \in Revised(current, updates, added) \ added :
              /\ b.id \in Ids(current)
              /\ (\E u \in updates : u.id = b.id /\ u.status = b.status)
                 \/ (b \in current /\ \A u \in updates : u.id # b.id)
         /\ Ids(current) \subseteq Ids(Revised(current, updates, added))
         /\ \A c \in current : (\A u \in updates : u.id # c.id) => c \in Revised(current, updates, added)
<1> DEFINE Of(b) == IF \E u \in updates : u.id = b.id
                    THEN LET u == CHOOSE u \in updates : u.id = b.id
                         IN [b EXCEPT !.status = u.status, !.evidence = @ \cup u.evidence]
                    ELSE b
<1>1. Revised(current, updates, added) = {Of(b) : b \in current} \cup added
  BY DEF Revised
<1>2. ASSUME NEW b \in current
      PROVE  /\ Of(b).id = b.id
             /\ (\E u \in updates : u.id = b.id /\ u.status = Of(b).status)
                \/ (Of(b) = b /\ \A u \in updates : u.id # b.id)
  <2>1. b \in PlanBranch
    OBVIOUS
  <2>2. CASE \E u \in updates : u.id = b.id
    <3>1. PICK u : u = CHOOSE v \in updates : v.id = b.id
      OBVIOUS
    <3>2. u \in updates /\ u.id = b.id
      BY <2>2, <3>1
    <3>3. Of(b) = [b EXCEPT !.status = u.status, !.evidence = @ \cup u.evidence]
      BY <2>2, <3>1
    <3> HIDE DEF Of
    <3>4. Of(b).id = b.id /\ Of(b).status = u.status
      BY <2>1, <3>3 DEF PlanBranch
    <3> QED BY <3>2, <3>4
  <2>3. CASE ~\E u \in updates : u.id = b.id
    BY <2>3
  <2> QED BY <2>2, <2>3
<1> HIDE DEF Of
<1>3. ASSUME NEW b \in Revised(current, updates, added) \ added
      PROVE  /\ b.id \in Ids(current)
             /\ (\E u \in updates : u.id = b.id /\ u.status = b.status)
                \/ (b \in current /\ \A u \in updates : u.id # b.id)
  <2>1. PICK c \in current : b = Of(c)
    BY <1>1
  <2> QED BY <1>2, <2>1 DEF Ids
<1>4. ASSUME NEW id \in Ids(current) PROVE id \in Ids(Revised(current, updates, added))
  <2>1. PICK b \in current : id = b.id
    BY DEF Ids
  <2>2. Of(b) \in Revised(current, updates, added)
    BY <1>1
  <2> QED BY <1>2, <2>1, <2>2 DEF Ids
<1>5. ASSUME NEW c \in current, \A u \in updates : u.id # c.id PROVE c \in Revised(current, updates, added)
  BY <1>1, <1>2, <1>5
<1> QED BY <1>3, <1>4, <1>5

LEMMA StartKeepsInv ==
  ASSUME PlanInv, NEW w \in Workers, StartBranches(w)
  PROVE  PlanInv'
<1>1. PICK choice : choice = SelectNextBranches(versions[held[w]], remaining[w])
  OBVIOUS
<1>2. PICK updates : updates = {[id |-> b.id, status |-> "running", evidence |-> {}] : b \in choice.branches}
  OBVIOUS
<1>3. /\ Revise(w, updates, {})
      /\ IF versions' # versions
           THEN /\ running' = [running EXCEPT ![w] = @ \cup Ids(choice.branches)]
                /\ remaining' = [remaining EXCEPT ![w] = choice.left]
           ELSE UNCHANGED <<running, remaining>>
  BY <1>1, <1>2 DEF StartBranches
<1>4. CASE versions' = versions
  BY <1>3, <1>4 DEF PlanInv, Whole, RunningIsOnRecord
<1>5. CASE versions' # versions
  <2>1. PICK current : current = Last(versions)
    OBVIOUS
  <2>2. PICK next : next = Last(versions')
    OBVIOUS
  <2>3. \A u \in updates : u.evidence \subseteq Evidence
    BY <1>2
  <2>4. /\ versions' \in Seq(SUBSET PlanBranch) /\ versions' # <<>>
        /\ Whole(next) /\ next = Revised(current, updates, {})
        /\ versions[held[w]] = current
    <3>1. IsFiniteSet({}) /\ {} \subseteq PlanBranch
      BY FS_EmptySet
    <3> QED BY <1>3, <1>5, <2>1, <2>2, <2>3, <3>1, RevisionsAreWhole
  <2>5. Whole(current) /\ remaining[w] \in Nat
    BY <2>1 DEF PlanInv
  <2>6. choice.branches \subseteq {b \in current : b.status = "pending"} /\ choice.left \in Nat
    BY <1>1, <2>4, <2>5, SelectionFits
  <2>7. /\ \A u \in updates : u.status = "running"
        /\ \A u \in updates : u.id \in Ids(choice.branches)
        /\ \A b \in choice.branches : \E u \in updates : u.id = b.id
    <3>1. \A u \in updates : \E b \in choice.branches : u.id = b.id /\ u.status = "running"
      BY <1>2
    <3>2. ASSUME NEW b \in choice.branches PROVE \E u \in updates : u.id = b.id
      <4>1. [id |-> b.id, status |-> "running", evidence |-> {}] \in updates
        BY <1>2
      <4> QED BY <4>1
    <3> QED BY <3>1, <3>2 DEF Ids
  <2>8. /\ \A b \in next : b.id \in Ids(current)
        /\ \A b \in next : b.status = "running" \/ (b \in current /\ \A u \in updates : u.id # b.id)
        /\ Ids(current) \subseteq Ids(next)
    <3>1. current \subseteq PlanBranch
      BY <2>5 DEF Whole
    <3> QED BY <2>4, <2>7, <3>1, RevisedBranches
  <2>9. PICK chosen : chosen = Ids(choice.branches)
    OBVIOUS
  <2>10. /\ chosen \subseteq Ids(current) /\ chosen \subseteq Int
         /\ \A v \in Workers : running[v] \cap chosen = {}
    <3>1. ASSUME NEW id \in chosen
          PROVE  id \in Ids(current) /\ id \in Int /\ \A v \in Workers : id \notin running[v]
      <4>1. PICK b \in current : b.id = id /\ b.status = "pending"
        BY <2>6, <2>9 DEF Ids
      <4>2. b \in PlanBranch
        BY <2>5 DEF Whole
      <4>3. id \in Int
        BY <4>1, <4>2, PlanAssumption DEF PlanBranch
      <4>4. \A v \in Workers : id \notin running[v]
        BY <2>1, <4>1 DEF PlanInv, RunningIsOnRecord
      <4> QED BY <4>1, <4>3, <4>4 DEF Ids
    <3> QED BY <3>1
  <2>11. /\ running' \in [Workers -> SUBSET Int] /\ remaining' \in [Workers -> Nat]
         /\ running'[w] = running[w] \cup chosen
         /\ \A v \in Workers \ {w} : running'[v] = running[v]
    BY <1>3, <1>5, <2>6, <2>9, <2>10 DEF PlanInv
  <2>12. RunningIsOnRecord'
    <3>1. ASSUME NEW v \in Workers PROVE running'[v] \subseteq Ids(next)
      BY <2>1, <2>8, <2>10, <2>11 DEF PlanInv, RunningIsOnRecord
    <3>2. ASSUME NEW v \in Workers, NEW b \in next, b.id \in running'[v] PROVE b.status = "running"
      <4> SUFFICES ASSUME b.status # "running" PROVE FALSE
        OBVIOUS
      <4>1. b \in current /\ \A u \in updates : u.id # b.id
        BY <2>8
      <4>2. b.id \notin chosen
        <5> SUFFICES ASSUME b.id \in chosen PROVE FALSE
          OBVIOUS
        <5>1. PICK c \in choice.branches : c.id = b.id
          BY <2>9 DEF Ids
        <5> QED BY <2>7, <4>1, <5>1
      <4>3. b.id \in running[v]
        BY <2>11, <3>2, <4>2
      <4> QED BY <2>1, <4>1, <4>3 DEF PlanInv, RunningIsOnRecord
    <3>3. ASSUME NEW v \in Workers, NEW x \in Workers \ {v} PROVE running'[v] \cap running'[x] = {}
      BY <2>10, <2>11 DEF PlanInv, RunningIsOnRecord
    <3> QED BY <2>2, <3>1, <3>2, <3>3 DEF RunningIsOnRecord
  <2> QED BY <2>2, <2>4, <2>11, <2>12 DEF PlanInv
<1> QED BY <1>4, <1>5

LEMMA EndKeepsInv ==
  ASSUME PlanInv, NEW w \in Workers, EndBranch(w)
  PROVE  PlanInv'
<1>1. PICK id \in running[w], found \in SUBSET Evidence, added \in LaterBranches \cup {{}},
           status \in {"completed", "cancelled"} :
        /\ Revise(w, {[id |-> id, status |-> status, evidence |-> found]}, added)
        /\ running' = IF versions' # versions THEN [running EXCEPT ![w] = @ \ {id}] ELSE running
        /\ UNCHANGED remaining
  BY DEF EndBranch
<1>2. CASE versions' = versions
  BY <1>1, <1>2 DEF PlanInv, Whole, RunningIsOnRecord
<1>3. CASE versions' # versions
  <2>1. PICK current : current = Last(versions)
    OBVIOUS
  <2>2. PICK next : next = Last(versions')
    OBVIOUS
  <2>3. PICK updates : updates = {[id |-> id, status |-> status, evidence |-> found]}
    OBVIOUS
  <2>4. \A u \in updates : u.id = id /\ u.evidence \subseteq Evidence
    BY <2>3
  <2>5. IsFiniteSet(added) /\ added \subseteq PlanBranch
    BY PlanAssumption, FS_EmptySet
  <2>6. /\ versions' \in Seq(SUBSET PlanBranch) /\ versions' # <<>>
        /\ Whole(next) /\ next = Revised(current, updates, added)
    BY <1>1, <1>3, <2>1, <2>2, <2>3, <2>4, <2>5, RevisionsAreWhole
  <2>7. current \subseteq PlanBranch
    BY <2>1 DEF PlanInv, Whole
  <2>8. /\ \A b \in next \ added : b.id = id \/ b \in current
        /\ Ids(current) \subseteq Ids(next)
        /\ \A c \in current : c.id # id => c \in next
    <3>1. /\ \A b \in Revised(current, updates, added) \ added :
               (\E u \in updates : u.id = b.id) \/ b \in current
          /\ Ids(current) \subseteq Ids(Revised(current, updates, added))
          /\ \A c \in current : (\A u \in updates : u.id # c.id) => c \in Revised(current, updates, added)
      BY ONLY <2>7, RevisedBranches
    <3> QED BY <2>4, <2>6, <3>1
  <2>9. /\ running' \in [Workers -> SUBSET Int] /\ remaining' \in [Workers -> Nat]
        /\ running'[w] = running[w] \ {id}
        /\ \A v \in Workers \ {w} : running'[v] = running[v]
    BY <1>1, <1>3 DEF PlanInv
  <2>10. \A v \in Workers : running'[v] \subseteq running[v] /\ id \notin running'[v]
    BY <1>1, <2>9 DEF PlanInv, RunningIsOnRecord
  <2>11. RunningIsOnRecord'
    <3>1. ASSUME NEW v \in Workers PROVE running'[v] \subseteq Ids(next)
      BY <2>1, <2>8, <2>10 DEF PlanInv, RunningIsOnRecord
    <3>2. ASSUME NEW v \in Workers, NEW b \in next, b.id \in running'[v] PROVE b.status = "running"
      <4>1. b.id # id /\ b.id \in running[v]
        BY <2>10, <3>2
      <4>2. CASE b \in current
        BY <2>1, <4>1, <4>2 DEF PlanInv, RunningIsOnRecord
      <4>3. CASE b \notin current
        <5>1. b \in added
          BY <2>8, <4>1, <4>3
        <5>2. PICK c \in current : c.id = b.id
          BY <2>1, <4>1 DEF PlanInv, RunningIsOnRecord, Ids
        <5>3. c \in next /\ b \in next /\ c # b
          BY <2>8, <3>2, <4>1, <4>3, <5>2
        <5> QED BY <2>6, <5>2, <5>3 DEF Whole, WellFormed
      <4> QED BY <4>2, <4>3
    <3>3. ASSUME NEW v \in Workers, NEW x \in Workers \ {v} PROVE running'[v] \cap running'[x] = {}
      BY <2>10 DEF PlanInv, RunningIsOnRecord
    <3> QED BY <2>2, <3>1, <3>2, <3>3 DEF RunningIsOnRecord
  <2> QED BY <2>2, <2>6, <2>9, <2>11 DEF PlanInv
<1> QED BY <1>2, <1>3

LEMMA PlanStepInv == PlanInv /\ [PlanNext]_planVars => PlanInv'
<1> SUFFICES ASSUME PlanInv, [PlanNext]_planVars PROVE PlanInv'
  OBVIOUS
<1>1. ASSUME NEW w \in Workers, GetPlan(w) PROVE PlanInv'
  BY <1>1 DEF GetPlan, PlanInv, Whole, RunningIsOnRecord
<1>2. CASE UNCHANGED planVars
  BY <1>2 DEF planVars, PlanInv, Whole, RunningIsOnRecord
<1> QED BY <1>1, <1>2, StartKeepsInv, EndKeepsInv DEF PlanNext

LEMMA PlanInvHolds == PlanSpec => []PlanInv
BY PlanInitInv, PlanStepInv, PTL DEF PlanSpec

\* selectNextBranches and revise give a branch to one worker at a time, which is on record
\* with it, and let none spend more than its budget: for any number of workers, branches
\* and versions, whatever was revised between a worker's reading and its revision.
THEOREM OneWorkerEach == PlanSpec => []BranchesHaveOneWorker
<1>1. PlanInv => BranchesHaveOneWorker
  BY DEF PlanInv, RunningIsOnRecord, BranchesHaveOneWorker
<1> QED BY <1>1, PlanInvHolds, PTL

-----------------------------------------------------------------------------
\* The records of the control plane: publish and traverse, retention, backups.

\* Rounds that only add settle after as many as there are records.

IsRounds(visited, start, Round, n) ==
  visited = [k \in 0..n |-> IF k = 0 THEN start ELSE Round[visited[k - 1]]]

LEMMA RoundsExist ==
  ASSUME NEW start, NEW Round
  PROVE  \A n \in Nat : \E visited : IsRounds(visited, start, Round, n)
<1> DEFINE good == {n \in Nat : \E visited : IsRounds(visited, start, Round, n)}
<1>1. 0 \in good
  <2>1. IsRounds([k \in 0..0 |-> start], start, Round, 0)
    BY DEF IsRounds
  <2> QED BY <2>1
<1>2. ASSUME NEW n \in Nat, n \in good PROVE n + 1 \in good
  <2>1. PICK visited : IsRounds(visited, start, Round, n)
    BY <1>2
  <2> DEFINE longer == [k \in 0..n + 1 |-> IF k = n + 1 THEN Round[visited[n]] ELSE visited[k]]
  <2>2. /\ visited[0] = start
        /\ \A k \in 1..n : visited[k] = Round[visited[k - 1]]
    BY <2>1 DEF IsRounds
  <2>3. /\ longer[n + 1] = Round[visited[n]]
        /\ \A k \in 0..n : longer[k] = visited[k]
        /\ longer = [k \in 0..n + 1 |-> longer[k]]
    OBVIOUS
  <2> HIDE DEF longer
  <2>4. ASSUME NEW k \in 0..n + 1
        PROVE  longer[k] = IF k = 0 THEN start ELSE Round[longer[k - 1]]
    <3>1. CASE k = 0
      BY <2>2, <2>3, <3>1
    <3>2. CASE k \in 1..n
      <4>1. k \in 0..n /\ k - 1 \in 0..n /\ k # 0
        BY <3>2
      <4>2. longer[k] = visited[k] /\ longer[k - 1] = visited[k - 1]
        BY <2>3, <4>1
      <4> QED BY <2>2, <3>2, <4>1, <4>2
    <3>3. CASE k = n + 1
      <4>1. longer[k - 1] = visited[n] /\ k # 0
        BY <2>3, <3>3
      <4> QED BY <2>3, <3>3, <4>1
    <3> QED BY <3>1, <3>2, <3>3
  <2>5. IsRounds(longer, start, Round, n + 1)
    BY <2>3, <2>4 DEF IsRounds
  <2> QED BY <2>5
<1> HIDE DEF good
<1>3. \A n \in Nat : n \in good
  BY <1>1, <1>2, EveryNumber
<1> QED BY <1>3 DEF good

\* The last round adds nothing, and what has come together is in every set that holds the
\* start and that no round leads out of.
Settled(settled, start, Round, known) ==
  /\ settled \in SUBSET known /\ start \subseteq settled /\ Round[settled] = settled
  /\ \A S \in SUBSET known :
       start \subseteq S /\ (\A T \in SUBSET S : Round[T] \subseteq S) => settled \subseteq S

LEMMA RoundsSettle ==
  ASSUME NEW known, IsFiniteSet(known), NEW start \in SUBSET known,
         NEW Round \in [SUBSET known -> SUBSET known], \A S \in SUBSET known : S \subseteq Round[S],
         NEW settled, settled = Rounds(start, Round, known)
  PROVE  Settled(settled, start, Round, known)
<1> DEFINE n == Cardinality(known)
           visited == CHOOSE visited : IsRounds(visited, start, Round, n)
<1>1. settled = visited[n]
  BY DEF Rounds, IsRounds
<1>2. n \in Nat
  BY FS_CardinalityType
<1>3. n = Cardinality(known)
  OBVIOUS
<1> HIDE DEF n
<1>4. IsRounds(visited, start, Round, n)
  BY <1>2, RoundsExist
<1> HIDE DEF visited
<1>5. visited[0] = start /\ \A k \in 1..n : visited[k] = Round[visited[k - 1]]
  BY <1>2, <1>4 DEF IsRounds
<1>6. \A k \in Nat : k + 1 <= n => visited[k + 1] = Round[visited[k]]
  <2> SUFFICES ASSUME NEW k \in Nat, k + 1 <= n PROVE visited[k + 1] = Round[visited[k]]
    OBVIOUS
  <2>1. k + 1 \in 1..n /\ (k + 1) - 1 = k
    BY <1>2
  <2> QED BY <1>5, <2>1
<1> DEFINE Grown(k) == /\ visited[k] \in SUBSET known /\ start \subseteq visited[k]
                       /\ Round[visited[k]] = visited[k] \/ Cardinality(visited[k]) >= k
           grown == {k \in Nat : k <= n => Grown(k)}
<1>7. 0 \in grown
  <2>1. IsFiniteSet(start) /\ Cardinality(start) \in Nat
    BY FS_Subset, FS_CardinalityType
  <2> QED BY <1>5, <2>1
<1>8. ASSUME NEW k \in Nat, k \in grown PROVE k + 1 \in grown
  <2> SUFFICES ASSUME k + 1 <= n PROVE Grown(k + 1)
    OBVIOUS
  <2>1. Grown(k)
    BY <1>2, <1>8
  <2>2. PICK before \in SUBSET known : before = visited[k]
    BY <2>1
  <2>3. PICK after \in SUBSET known : after = Round[before]
    OBVIOUS
  <2>4. visited[k + 1] = after /\ before \subseteq after /\ start \subseteq after
    BY <1>6, <2>1, <2>2, <2>3
  <2>5. CASE after = before
    BY <2>2, <2>3, <2>4, <2>5
  <2>6. CASE after # before
    <3>1. Cardinality(before) >= k
      BY <2>1, <2>2, <2>3, <2>6
    <3>2. IsFiniteSet(after) /\ IsFiniteSet(before)
      BY FS_Subset
    <3>3. Cardinality(before) < Cardinality(after)
      <4>1. Cardinality(before) <= Cardinality(after)
        BY <2>4, <3>2, FS_Subset
      <4>2. Cardinality(before) # Cardinality(after)
        BY <2>4, <2>6, <3>2, FS_Subset
      <4> QED BY <3>2, <4>1, <4>2, FS_CardinalityType
    <3>4. Cardinality(after) \in Nat /\ Cardinality(before) \in Nat
      BY <3>2, FS_CardinalityType
    <3>5. Cardinality(after) >= k + 1
      BY <3>1, <3>3, <3>4
    <3> QED BY <2>4, <3>5
  <2> QED BY <2>5, <2>6
<1> HIDE DEF grown
<1>9. Grown(n)
  <2>1. n \in grown
    BY <1>2, <1>7, <1>8, EveryNumber
  <2> QED BY <1>2, <2>1 DEF grown
<1>10. Round[settled] = settled
  <2>1. CASE Cardinality(settled) >= n
    <3>1. settled \in SUBSET known /\ IsFiniteSet(settled)
      BY <1>1, <1>9, FS_Subset
    <3>2. Cardinality(settled) \in Nat /\ Cardinality(settled) <= Cardinality(known)
      BY <3>1, FS_CardinalityType, FS_Subset
    <3>3. Cardinality(settled) = Cardinality(known)
      BY <1>2, <1>3, <2>1, <3>2
    <3>4. settled = known
      BY <3>1, <3>3, FS_Subset
    <3> QED BY <3>1, <3>4
  <2> QED BY <1>1, <1>9, <2>1
<1>11. ASSUME NEW S \in SUBSET known, start \subseteq S, \A T \in SUBSET S : Round[T] \subseteq S
       PROVE  settled \subseteq S
  <2> DEFINE inside == {k \in Nat : k <= n => visited[k] \subseteq S}
  <2>1. 0 \in inside
    BY <1>5, <1>11
  <2>2. ASSUME NEW k \in Nat, k \in inside PROVE k + 1 \in inside
    <3> SUFFICES ASSUME k + 1 <= n PROVE visited[k + 1] \subseteq S
      OBVIOUS
    <3>1. visited[k] \in SUBSET S
      BY <1>2, <2>2
    <3> QED BY <1>6, <1>11, <3>1
  <2> HIDE DEF inside
  <2>3. n \in inside
    BY <1>2, <2>1, <2>2, EveryNumber
  <2> QED BY <1>1, <1>2, <2>3 DEF inside
<1> QED BY <1>1, <1>9, <1>10, <1>11 DEF Settled

\* A queue visits the least set that holds the start and what is adjacent to its members.
Reached(reached, from, Adjacent, known) ==
  /\ reached \in SUBSET known /\ from \subseteq reached
  /\ \A b \in reached : Adjacent[b] \subseteq reached
  /\ \A S \in SUBSET known :
       from \subseteq S /\ (\A b \in S : Adjacent[b] \subseteq S) => reached \subseteq S

LEMMA ReachIsLeast ==
  ASSUME NEW known, IsFiniteSet(known), NEW from \in SUBSET known,
         NEW Adjacent \in [known -> SUBSET known],
         NEW reached, reached = Reach(from, Adjacent, known)
  PROVE  Reached(reached, from, Adjacent, known)
<1> DEFINE Round == [S \in SUBSET known |-> S \cup UNION {Adjacent[b] : b \in S}]
<1>1. reached = Rounds(from, Round, known)
  BY DEF Reach
<1>2. ASSUME NEW S \in SUBSET known
      PROVE  Round[S] = S \cup UNION {Adjacent[b] : b \in S} /\ Round[S] \in SUBSET known
  OBVIOUS
<1>3. Round \in [SUBSET known -> SUBSET known]
  OBVIOUS
<1> HIDE DEF Round
<1>4. \A S \in SUBSET known : S \subseteq Round[S]
  BY <1>2
<1>5. /\ reached \in SUBSET known /\ from \subseteq reached /\ Round[reached] = reached
      /\ \A S \in SUBSET known :
           from \subseteq S /\ (\A T \in SUBSET S : Round[T] \subseteq S) => reached \subseteq S
  <2>1. Settled(reached, from, Round, known)
    BY <1>1, <1>3, <1>4, RoundsSettle
  <2> QED BY <2>1 DEF Settled
<1>6. \A b \in reached : Adjacent[b] \subseteq reached
  BY <1>2, <1>5
<1>7. ASSUME NEW S \in SUBSET known, from \subseteq S, \A b \in S : Adjacent[b] \subseteq S
      PROVE  reached \subseteq S
  <2>1. ASSUME NEW T \in SUBSET S PROVE Round[T] \subseteq S
    BY <1>2, <1>7
  <2> QED BY <1>5, <1>7, <2>1
<1> QED BY <1>5, <1>6, <1>7 DEF Reached

-----------------------------------------------------------------------------
\* A lineage: finite, an id names one artifact, and no artifacts go round.

Lineage(known) ==
  /\ IsFiniteSet(known)
  /\ \A a, b \in known : a.id = b.id => a = b
  /\ \A S \in SUBSET known : S # {} => \E a \in S : \A b \in S : b.id \notin a.parents

Up(known) == [b \in known |-> Parents(b, known)]
Down(known) == [b \in known |-> Children(b, known)]
UpFrom(a, known) == Reach({a}, Up(known), known)
DownFrom(a, known) == Reach({a}, Down(known), known)

\* What is visited upwards, and downwards, from an artifact.
LEMMA UpFromIsLeast ==
  ASSUME NEW known, IsFiniteSet(known), NEW a \in known
  PROVE  /\ UpFrom(a, known) \in SUBSET known /\ a \in UpFrom(a, known)
         /\ \A b \in UpFrom(a, known) : Parents(b, known) \subseteq UpFrom(a, known)
         /\ \A S \in SUBSET known :
              a \in S /\ (\A b \in S : Parents(b, known) \subseteq S) => UpFrom(a, known) \subseteq S
         /\ AncestorsOf(a, known) = UpFrom(a, known) \ {a}
<1>1. Up(known) \in [known -> SUBSET known] /\ \A b \in known : Up(known)[b] = Parents(b, known)
  BY DEF Up, Parents
<1>2. {a} \in SUBSET known
  OBVIOUS
<1>3. PICK reached : reached = Reach({a}, Up(known), known)
  OBVIOUS
<1>4. Reached(reached, {a}, Up(known), known)
  BY ONLY IsFiniteSet(known), <1>1, <1>2, <1>3, ReachIsLeast
<1>5. \A S \in SUBSET known :
        a \in S /\ (\A b \in S : Parents(b, known) \subseteq S) => reached \subseteq S
  BY <1>1, <1>4 DEF Reached
<1>6. AncestorsOf(a, known) = reached \ {a}
  BY <1>3 DEF AncestorsOf, Up
<1>7. UpFrom(a, known) = reached
  BY <1>3 DEF UpFrom
<1> QED BY <1>1, <1>4, <1>5, <1>6, <1>7 DEF Reached

LEMMA DownFromIsLeast ==
  ASSUME NEW known, IsFiniteSet(known), NEW a \in known
  PROVE  /\ DownFrom(a, known) \in SUBSET known /\ a \in DownFrom(a, known)
         /\ \A b \in DownFrom(a, known) : Children(b, known) \subseteq DownFrom(a, known)
         /\ \A S \in SUBSET known :
              a \in S /\ (\A b \in S : Children(b, known) \subseteq S) => DownFrom(a, known) \subseteq S
         /\ DescendantsOf(a, known) = DownFrom(a, known) \ {a}
<1>1. Down(known) \in [known -> SUBSET known] /\ \A b \in known : Down(known)[b] = Children(b, known)
  BY DEF Down, Children
<1>2. {a} \in SUBSET known
  OBVIOUS
<1>3. PICK reached : reached = Reach({a}, Down(known), known)
  OBVIOUS
<1>4. Reached(reached, {a}, Down(known), known)
  BY ONLY IsFiniteSet(known), <1>1, <1>2, <1>3, ReachIsLeast
<1>5. \A S \in SUBSET known :
        a \in S /\ (\A b \in S : Children(b, known) \subseteq S) => reached \subseteq S
  BY <1>1, <1>4 DEF Reached
<1>6. DescendantsOf(a, known) = reached \ {a}
  BY <1>3 DEF DescendantsOf, Down
<1>7. DownFrom(a, known) = reached
  BY <1>3 DEF DownFrom
<1> QED BY <1>1, <1>4, <1>5, <1>6, <1>7 DEF Reached

\* Who is above whom is below whom.
LEMMA WaysLeadBack ==
  ASSUME NEW known, IsFiniteSet(known), NEW a \in known, NEW b \in known
  PROVE  b \in UpFrom(a, known) <=> a \in DownFrom(b, known)
<1>1. \A x, p \in known : p \in Parents(x, known) <=> x \in Children(p, known)
  BY DEF Parents, Children
<1>2. ASSUME b \in UpFrom(a, known) PROVE a \in DownFrom(b, known)
  <2> DEFINE S == {x \in known : a \in DownFrom(x, known)}
  <2>1. a \in S
    BY DownFromIsLeast
  <2>2. ASSUME NEW x \in S, NEW p \in Parents(x, known) PROVE p \in S
    <3>1. p \in known
      BY DEF Parents
    <3>2. x \in DownFrom(p, known)
      BY <1>1, <3>1, DownFromIsLeast
    <3>3. DownFrom(x, known) \subseteq DownFrom(p, known)
      BY <3>1, <3>2, DownFromIsLeast
    <3> QED BY <3>1, <3>3
  <2>3. S \in SUBSET known
    OBVIOUS
  <2> HIDE DEF S
  <2>4. UpFrom(a, known) \subseteq S
    BY <2>1, <2>2, <2>3, UpFromIsLeast
  <2> QED BY <1>2, <2>4 DEF S
<1>3. ASSUME a \in DownFrom(b, known) PROVE b \in UpFrom(a, known)
  <2> DEFINE S == {x \in known : b \in UpFrom(x, known)}
  <2>1. b \in S
    BY UpFromIsLeast
  <2>2. ASSUME NEW p \in S, NEW x \in Children(p, known) PROVE x \in S
    <3>1. x \in known
      BY DEF Children
    <3>2. p \in UpFrom(x, known)
      BY <1>1, <3>1, UpFromIsLeast
    <3>3. UpFrom(p, known) \subseteq UpFrom(x, known)
      BY <3>1, <3>2, UpFromIsLeast
    <3> QED BY <3>1, <3>3
  <2>3. S \in SUBSET known
    OBVIOUS
  <2> HIDE DEF S
  <2>4. DownFrom(b, known) \subseteq S
    BY <2>1, <2>2, <2>3, DownFromIsLeast
  <2> QED BY <1>3, <2>4 DEF S
<1> QED BY <1>2, <1>3

\* Nothing is above and below the same, and nothing is its own parent.
LEMMA NothingIsBoth ==
  ASSUME NEW known, Lineage(known), NEW a \in known, NEW b \in known
  PROVE  /\ b \in UpFrom(a, known) /\ a \in UpFrom(b, known) => a = b
         /\ a \notin Parents(a, known)
<1>0. IsFiniteSet(known)
  BY DEF Lineage
<1>1. a \notin Parents(a, known)
  <2>1. {a} \in SUBSET known /\ {a} # {}
    OBVIOUS
  <2>2. \E x \in {a} : \A y \in {a} : y.id \notin x.parents
    BY <2>1 DEF Lineage
  <2> QED BY <2>2 DEF Parents
\* A way up of more than no step begins with a parent.
<1>2. ASSUME NEW x \in known, NEW y \in UpFrom(x, known), y # x
      PROVE  \E p \in Parents(x, known) : y \in UpFrom(p, known)
  <2> DEFINE S == {x} \cup UNION {UpFrom(p, known) : p \in Parents(x, known)}
  <2>1. \A p \in Parents(x, known) : p \in known /\ UpFrom(p, known) \in SUBSET known /\ p \in UpFrom(p, known)
    BY <1>0, UpFromIsLeast DEF Parents
  <2>2. S \in SUBSET known /\ x \in S
    BY <2>1
  <2>3. ASSUME NEW z \in S, NEW q \in Parents(z, known) PROVE q \in S
    <3>1. CASE z = x
      BY <2>1, <2>3, <3>1
    <3>2. CASE z # x
      <4>1. PICK p \in Parents(x, known) : z \in UpFrom(p, known)
        BY <3>2
      <4>2. q \in UpFrom(p, known)
        BY <1>0, <2>1, <4>1, UpFromIsLeast
      <4> QED BY <4>1, <4>2
    <3> QED BY <3>1, <3>2
  <2>4. y \in S
    <3> HIDE DEF S
    <3>1. UpFrom(x, known) \subseteq S
      BY <1>0, <2>2, <2>3, UpFromIsLeast
    <3> QED BY <3>1
  <2> QED BY <1>2, <2>4
<1>3. ASSUME b \in UpFrom(a, known), a \in UpFrom(b, known), a # b PROVE FALSE
  <2> DEFINE S == {x \in UpFrom(a, known) : a \in UpFrom(x, known)}
  <2>1. /\ UpFrom(a, known) \in SUBSET known /\ a \in UpFrom(a, known)
        /\ \A x \in UpFrom(a, known) : Parents(x, known) \subseteq UpFrom(a, known)
    BY <1>0, UpFromIsLeast
  <2>2. S \in SUBSET known /\ S # {}
    BY <1>3, <2>1
  <2>3. PICK m \in S : \A x \in S : x.id \notin m.parents
    BY <2>2 DEF Lineage
  <2>4. \A p \in Parents(m, known) : p \in UpFrom(a, known) /\ p \in known /\ p \notin S
    BY <2>1, <2>3 DEF Parents
  <2>5. m = a
    <3> SUFFICES ASSUME m # a PROVE FALSE
      OBVIOUS
    <3>1. PICK p \in Parents(m, known) : a \in UpFrom(p, known)
      BY <1>2, <2>1, <2>3
    <3> QED BY <2>4, <3>1
  <2>6. PICK p \in Parents(a, known) : b \in UpFrom(p, known)
    BY <1>2, <1>3
  <2>7. p \in known /\ p \notin S /\ p \in UpFrom(a, known)
    BY <2>4, <2>5, <2>6
  <2>8. UpFrom(b, known) \subseteq UpFrom(p, known)
    BY <1>0, <2>6, <2>7, UpFromIsLeast
  <2> QED BY <1>3, <2>7, <2>8
<1> QED BY <1>1, <1>3

\* A part of a lineage that has the parents of its artifacts is published in passes, and its
\* artifacts have there the ancestors they had.
LEMMA PartsOfLineages ==
  ASSUME NEW known, Lineage(known), NEW part \in SUBSET known,
         \A a \in part : a.parents \subseteq IdsOf(part)
  PROVE  /\ Lineage(part)
         /\ PublishedInPasses(part) = part
         /\ \A a \in part : AncestorsOf(a, part) = AncestorsOf(a, known)
<1>1. Lineage(part)
  <2>1. IsFiniteSet(part)
    BY FS_Subset DEF Lineage
  <2> QED BY <2>1 DEF Lineage
<1>2. IsFiniteSet(part) /\ IsFiniteSet(known)
  BY <1>1 DEF Lineage
<1>3. PublishedInPasses(part) = part
  <2> DEFINE Pass == [S \in SUBSET part |-> S \cup {a \in part : a.parents \subseteq IdsOf(S)}]
  <2>1. PICK published : published = Rounds({}, Pass, part)
    OBVIOUS
  <2>2. published = PublishedInPasses(part)
    BY <2>1 DEF PublishedInPasses
  <2>3. Pass \in [SUBSET part -> SUBSET part]
    OBVIOUS
  <2>4. \A S \in SUBSET part : Pass[S] = S \cup {a \in part : a.parents \subseteq IdsOf(S)}
    OBVIOUS
  <2> HIDE DEF Pass
  <2>5. published \in SUBSET part /\ Pass[published] = published
    <3>1. {} \in SUBSET part /\ \A S \in SUBSET part : S \subseteq Pass[S]
      BY <2>4
    <3>2. Settled(published, {}, Pass, part)
      BY <1>2, <2>1, <2>3, <3>1, RoundsSettle
    <3> QED BY <3>2 DEF Settled
  <2>6. ASSUME part \ published # {} PROVE FALSE
    <3>1. PICK a \in part \ published : \A b \in part \ published : b.id \notin a.parents
      BY <1>1, <2>6 DEF Lineage
    <3>2. a.parents \subseteq IdsOf(published)
      BY <3>1 DEF IdsOf
    <3> QED BY <2>4, <2>5, <3>1, <3>2
  <2> QED BY <2>2, <2>5, <2>6
<1>4. ASSUME NEW a \in part PROVE AncestorsOf(a, part) = AncestorsOf(a, known)
  <2>1. \A x \in part : Parents(x, part) = Parents(x, known)
    BY DEF Lineage, Parents, IdsOf
  <2>2. UpFrom(a, part) \subseteq UpFrom(a, known)
    <3> DEFINE S == UpFrom(a, known) \cap part
    <3>1. S \in SUBSET part /\ a \in S
      BY <1>2, UpFromIsLeast
    <3>2. \A b \in S : Parents(b, part) \subseteq S
      <4>1. \A b \in UpFrom(a, known) : Parents(b, known) \subseteq UpFrom(a, known)
        BY <1>2, UpFromIsLeast
      <4>2. \A b \in part : Parents(b, part) \subseteq part
        BY DEF Parents
      <4> QED BY <2>1, <4>1, <4>2
    <3> HIDE DEF S
    <3>3. UpFrom(a, part) \subseteq S
      BY <1>2, <3>1, <3>2, UpFromIsLeast
    <3> QED BY <3>3 DEF S
  <2>3. UpFrom(a, known) \subseteq UpFrom(a, part)
    <3>1. /\ UpFrom(a, part) \in SUBSET part /\ a \in UpFrom(a, part)
          /\ \A b \in UpFrom(a, part) : Parents(b, part) \subseteq UpFrom(a, part)
      BY <1>2, UpFromIsLeast
    <3>2. \A b \in UpFrom(a, part) : Parents(b, known) \subseteq UpFrom(a, part)
      BY <2>1, <3>1
    <3>3. UpFrom(a, part) \in SUBSET known
      BY <3>1
    <3> QED BY <1>2, <3>1, <3>2, <3>3, UpFromIsLeast
  <2>4. AncestorsOf(a, part) = UpFrom(a, part) \ {a} /\ AncestorsOf(a, known) = UpFrom(a, known) \ {a}
    BY <1>2, UpFromIsLeast
  <2> QED BY <2>2, <2>3, <2>4
<1> QED BY <1>1, <1>3, <1>4

-----------------------------------------------------------------------------
\* The stores, and what a backup was made of.

LineageInv ==
  /\ Lineage(artifacts)
  /\ \A a, b \in artifacts : a.hash = b.hash /\ a.tenant = b.tenant => a = b
  /\ \A a \in artifacts : \A p \in a.parents : \E b \in artifacts : b.id = p /\ b.tenant = a.tenant

\* The events of a run are numbered without gap.
NumberedFrom1(line) ==
  /\ \A e \in line : e.sequence \in 1..Cardinality(line)
  /\ \A e, f \in line : e.sequence = f.sequence => e = f

EventsInv ==
  /\ IsFiniteSet(events)
  /\ \A r \in RunIds : NumberedFrom1(EventsOf(events, r))

EvidenceInv ==
  \A b \in evidence : Cites(b) \subseteq IdsOf(OfTenant(artifacts, b.tenant))

ReadOf(list, store) == list = Unread \/ list \subseteq store

CollectedInv ==
  /\ collector = [tenant |-> collector.tenant, artifacts |-> collector.artifacts,
                  events |-> collector.events, evidence |-> collector.evidence]
  /\ ReadOf(collector.artifacts, artifacts)
  /\ ReadOf(collector.events, events)
  /\ ReadOf(collector.evidence, evidence)
  /\ backup # Unread =>
       /\ backup = [content |-> backup.content, digest |-> backup.digest]
       /\ ValidContent(backup.digest)
       /\ backup.digest.artifacts \subseteq artifacts /\ backup.digest.events \subseteq events

RecordsInv == LineageInv /\ EventsInv /\ EvidenceInv /\ CollectedInv

LEMMA RecordsInitInv == RecordsInit => RecordsInv
<1> SUFFICES ASSUME RecordsInit PROVE RecordsInv
  OBVIOUS
<1>1. IsFiniteSet({})
  BY FS_EmptySet
<1>2. LineageInv
  BY <1>1 DEF RecordsInit, LineageInv, Lineage
<1>3. EventsInv
  BY <1>1 DEF RecordsInit, EventsInv, NumberedFrom1, EventsOf
<1> QED BY <1>2, <1>3 DEF RecordsInit, RecordsInv, EvidenceInv, CollectedInv, ReadOf, NoCollection

LEMMA PublishKeepsInv ==
  ASSUME RecordsInv, NEW a, Publish(a)
  PROVE  RecordsInv'
<1>1. /\ a.id \notin IdsOf(artifacts)
      /\ \A b \in artifacts : b.hash # a.hash \/ b.tenant # a.tenant
      /\ \A p \in a.parents : \E b \in artifacts : b.id = p /\ b.tenant = a.tenant
      /\ artifacts' = artifacts \cup {a}
      /\ UNCHANGED <<events, evidence, collector, backup>>
  BY DEF Publish, MayPublish
<1>2. Lineage(artifacts')
  <2>1. IsFiniteSet(artifacts')
    BY <1>1, FS_AddElement DEF RecordsInv, LineageInv, Lineage
  <2>2. \A b, c \in artifacts' : b.id = c.id => b = c
    BY <1>1 DEF RecordsInv, LineageInv, Lineage, IdsOf
  <2>3. ASSUME NEW S \in SUBSET artifacts', S # {} PROVE \E b \in S : \A c \in S : c.id \notin b.parents
    <3>1. \A b \in artifacts' : a.id \notin b.parents
      BY <1>1 DEF RecordsInv, LineageInv, IdsOf
    <3>2. CASE S \ {a} = {}
      <4>1. S = {a}
        BY <2>3, <3>2
      <4> QED BY <1>1, <3>1, <4>1
    <3>3. CASE S \ {a} # {}
      <4>1. S \ {a} \in SUBSET artifacts
        BY <1>1
      <4>2. PICK b \in S \ {a} : \A c \in S \ {a} : c.id \notin b.parents
        BY <3>3, <4>1 DEF RecordsInv, LineageInv, Lineage
      <4> QED BY <3>1, <4>2
    <3> QED BY <3>2, <3>3
  <2> QED BY <2>1, <2>2, <2>3 DEF Lineage
<1>3. LineageInv'
  BY <1>1, <1>2 DEF RecordsInv, LineageInv
<1>4. EventsInv' /\ CollectedInv'
  BY <1>1 DEF RecordsInv, EventsInv, CollectedInv, ReadOf
<1>5. EvidenceInv'
  BY <1>1 DEF RecordsInv, EvidenceInv, IdsOf, OfTenant
<1> QED BY <1>3, <1>4, <1>5 DEF RecordsInv

LEMMA AppendKeepsInv ==
  ASSUME RecordsInv, NEW r \in RunIds, NEW t, NEW key, AppendTo(r, t, key)
  PROVE  RecordsInv'
<1> DEFINE line == EventsOf(events, r)
<1>1. PICK e : e = [run |-> r, tenant |-> t, key |-> key, sequence |-> Cardinality(line) + 1]
  OBVIOUS
<1>2. events' = events \cup {e} /\ UNCHANGED <<artifacts, evidence, collector, backup>>
  BY <1>1 DEF AppendTo
<1>3. IsFiniteSet(line) /\ Cardinality(line) \in Nat
  <2>1. line \subseteq events
    BY DEF EventsOf
  <2> QED BY <2>1, FS_Subset, FS_CardinalityType DEF RecordsInv, EventsInv
<1>4. NumberedFrom1(line)
  BY DEF RecordsInv, EventsInv
<1>5. e.run = r /\ e.sequence = Cardinality(line) + 1
  BY <1>1
<1>6. e \notin line
  BY <1>3, <1>4, <1>5 DEF NumberedFrom1
<1>7. EventsOf(events', r) = line \cup {e} /\ \A q \in RunIds \ {r} : EventsOf(events', q) = EventsOf(events, q)
  BY <1>2, <1>5 DEF EventsOf
<1>8. EventsInv'
  <2>1. IsFiniteSet(events')
    BY <1>2, FS_AddElement DEF RecordsInv, EventsInv
  <2>2. NumberedFrom1(line \cup {e})
    <3>1. Cardinality(line \cup {e}) = Cardinality(line) + 1
      BY <1>3, <1>6, FS_AddElement
    <3> HIDE DEF line
    <3> QED BY <1>3, <1>4, <1>5, <3>1 DEF NumberedFrom1
  <2>3. \A q \in RunIds : NumberedFrom1(EventsOf(events', q))
    <3> HIDE DEF line
    <3> QED BY <1>7, <2>2 DEF RecordsInv, EventsInv
  <2> QED BY <2>1, <2>3 DEF EventsInv
<1>9. LineageInv' /\ EvidenceInv' /\ CollectedInv'
  BY <1>2 DEF RecordsInv, LineageInv, EvidenceInv, CollectedInv, ReadOf
<1> QED BY <1>8, <1>9 DEF RecordsInv

LEMMA FileKeepsInv ==
  ASSUME RecordsInv, NEW id, NEW product \in artifacts, NEW cited, FileEvidence(id, product, cited)
  PROVE  RecordsInv'
<1>1. PICK b : b = [id |-> id, tenant |-> product.tenant, product |-> product.id, cited |-> cited]
  OBVIOUS
<1>2. evidence' = evidence \cup {b} /\ UNCHANGED <<artifacts, events, collector, backup>>
  BY <1>1 DEF FileEvidence
<1>3. Cites(b) \subseteq IdsOf(OfTenant(artifacts, b.tenant))
  <2>1. cited \subseteq IdsOf(OfTenant(artifacts, product.tenant))
    BY DEF FileEvidence, IdsOf, OfTenant
  <2>2. product.id \in IdsOf(OfTenant(artifacts, product.tenant))
    BY DEF IdsOf, OfTenant
  <2> QED BY <1>1, <2>1, <2>2 DEF Cites
<1>4. EvidenceInv'
  BY <1>2, <1>3 DEF RecordsInv, EvidenceInv
<1>5. LineageInv' /\ EventsInv' /\ CollectedInv'
  BY <1>2 DEF RecordsInv, LineageInv, EventsInv, CollectedInv, ReadOf
<1> QED BY <1>4, <1>5 DEF RecordsInv

\* The collector reads, a backup is made, and a kept one loses a record.
LEMMA BackupsKeepInv ==
  ASSUME RecordsInv, (\E t \in Tenants : StartCollecting(t)) \/ Collect \/ CreateBackup \/ DamageBackup
  PROVE  RecordsInv'
<1>1. UNCHANGED <<artifacts, events, evidence>>
  BY DEF StartCollecting, Collect, CreateBackup, DamageBackup
<1>2. LineageInv' /\ EventsInv' /\ EvidenceInv'
  BY <1>1 DEF RecordsInv, LineageInv, EventsInv, EvidenceInv
<1>3. ASSUME NEW t \in Tenants, StartCollecting(t) PROVE CollectedInv'
  BY <1>3 DEF StartCollecting, NoCollection, RecordsInv, CollectedInv, ReadOf
<1>4. ASSUME Collect PROVE CollectedInv'
  <2>1. /\ UNCHANGED backup
        /\ \/ collector' = [collector EXCEPT !.artifacts = OfTenant(artifacts, collector.tenant)]
           \/ collector' = [collector EXCEPT !.events = OfTenant(events, collector.tenant)]
           \/ collector' = [collector EXCEPT !.evidence = OfTenant(evidence, collector.tenant)]
    BY <1>4 DEF Collect
  <2>2. \A store, t : OfTenant(store, t) \subseteq store
    BY DEF OfTenant
  <2> QED BY <1>1, <2>1, <2>2 DEF RecordsInv, CollectedInv, ReadOf
<1>5. ASSUME CreateBackup PROVE CollectedInv'
  <2>1. collector' = NoCollection
    BY <1>5 DEF CreateBackup
  <2>2. CASE backup' = backup
    BY <1>1, <2>1, <2>2 DEF NoCollection, RecordsInv, CollectedInv, ReadOf
  <2>3. CASE backup' # backup
    <3>1. ValidContent(collector) /\ backup' = [content |-> collector, digest |-> collector]
      BY <1>5, <2>3 DEF CreateBackup
    <3>2. collector.artifacts \subseteq artifacts /\ collector.events \subseteq events
      BY <1>5 DEF CreateBackup, RecordsInv, CollectedInv, ReadOf
    <3> HIDE DEF ValidContent
    <3> QED BY <1>1, <2>1, <3>1, <3>2 DEF NoCollection, CollectedInv, ReadOf
  <2> QED BY <2>2, <2>3
<1>6. ASSUME DamageBackup PROVE CollectedInv'
  <2>1. backup # Unread /\ backup = [content |-> backup.content, digest |-> backup.digest]
    BY <1>6 DEF DamageBackup, RecordsInv, CollectedInv
  <2>2. collector' = collector /\ \E content : backup' = [backup EXCEPT !.content = content]
    BY <1>6, <2>1 DEF DamageBackup
  <2>3. PICK content : backup' = [backup EXCEPT !.content = content]
    BY <2>2
  <2>4. backup' = [content |-> content, digest |-> backup.digest]
    BY <2>1, <2>3
  <2> QED BY <1>1, <2>1, <2>2, <2>4 DEF RecordsInv, CollectedInv, ReadOf
<1> QED BY <1>2, <1>3, <1>4, <1>5, <1>6 DEF RecordsInv

LEMMA RecordsStepInv == RecordsInv /\ [RecordsNext]_recordVars => RecordsInv'
<1> SUFFICES ASSUME RecordsInv, [RecordsNext]_recordVars PROVE RecordsInv'
  OBVIOUS
<1>1. CASE UNCHANGED recordVars
  BY <1>1 DEF recordVars, RecordsInv, LineageInv, EventsInv, EvidenceInv, CollectedInv, ReadOf
<1> QED BY <1>1, PublishKeepsInv, AppendKeepsInv, FileKeepsInv, BackupsKeepInv DEF RecordsNext

LEMMA RecordsInvHolds == RecordsSpec => []RecordsInv
BY RecordsInitInv, RecordsStepInv, PTL DEF RecordsSpec

\* publish keeps each tenant's lineage a partial order, and the two directions of traverse
\* agree: for any number of artifacts with any parents.
THEOREM LineagesAreOrders == RecordsSpec => []LineageIsAnOrder
<1>1. ASSUME RecordsInv PROVE LineageIsAnOrder
  <2>0. Lineage(artifacts) /\ IsFiniteSet(artifacts)
    BY <1>1 DEF RecordsInv, LineageInv, Lineage
  <2> SUFFICES ASSUME NEW a \in artifacts
               PROVE  LET up == AncestorsOf(a, artifacts) IN
                      /\ \A b \in up : b.tenant = a.tenant /\ a \notin AncestorsOf(b, artifacts)
                      /\ \A b \in artifacts : b \in up <=> a \in DescendantsOf(b, artifacts)
                      /\ \A b \in up \cup {a} : Parents(b, artifacts) \subseteq up /\ IdsOf(Parents(b, artifacts)) = b.parents
    BY DEF LineageIsAnOrder
  <2>1. \A b \in artifacts : /\ AncestorsOf(b, artifacts) = UpFrom(b, artifacts) \ {b}
                             /\ DescendantsOf(b, artifacts) = DownFrom(b, artifacts) \ {b}
    BY <2>0, UpFromIsLeast, DownFromIsLeast
  <2>2. UpFrom(a, artifacts) \in SUBSET artifacts /\ a \in UpFrom(a, artifacts)
    BY <2>0, UpFromIsLeast
  <2>3. ASSUME NEW b \in artifacts
        PROVE  /\ IdsOf(Parents(b, artifacts)) = b.parents
               /\ \A p \in Parents(b, artifacts) : p \in artifacts /\ p.tenant = b.tenant
    BY <1>1 DEF RecordsInv, LineageInv, Lineage, Parents, IdsOf
  <2>4. ASSUME NEW b \in UpFrom(a, artifacts) PROVE b.tenant = a.tenant
    <3> DEFINE S == {x \in artifacts : x.tenant = a.tenant}
    <3>1. S \in SUBSET artifacts /\ a \in S /\ \A x \in S : Parents(x, artifacts) \subseteq S
      BY <2>3
    <3> HIDE DEF S
    <3>2. UpFrom(a, artifacts) \subseteq S
      BY <2>0, <3>1, UpFromIsLeast
    <3> QED BY <3>2 DEF S
  <2>5. ASSUME NEW b \in UpFrom(a, artifacts), b # a PROVE a \notin UpFrom(b, artifacts)
    BY <2>0, <2>2, <2>5, NothingIsBoth
  <2>6. ASSUME NEW b \in artifacts PROVE b \in UpFrom(a, artifacts) <=> a \in DownFrom(b, artifacts)
    BY <2>0, WaysLeadBack
  <2>7. ASSUME NEW b \in UpFrom(a, artifacts)
        PROVE  Parents(b, artifacts) \subseteq UpFrom(a, artifacts) \ {a}
    <3>1. Parents(b, artifacts) \subseteq UpFrom(a, artifacts)
      BY <2>0, UpFromIsLeast
    <3>2. ASSUME a \in Parents(b, artifacts) PROVE FALSE
      <4>1. b \in artifacts /\ b # a
        BY <2>0, <2>2, <3>2, NothingIsBoth
      <4>2. a \in UpFrom(b, artifacts)
        BY <2>0, <3>2, <4>1, UpFromIsLeast
      <4> QED BY <2>5, <4>1, <4>2
    <3> QED BY <3>1, <3>2
  <2> QED BY <2>1, <2>2, <2>3, <2>4, <2>5, <2>6, <2>7
<1> QED BY <1>1, RecordsInvHolds, PTL

\* validateContent of what is in a lineage: what it accepts has the parents of its artifacts.
LEMMA ValidIsPart ==
  ASSUME LineageInv, NEW content, ValidContent(content), content.artifacts \subseteq artifacts
  PROVE  /\ content.artifacts \in SUBSET artifacts /\ Lineage(artifacts) /\ Lineage(content.artifacts)
         /\ \A a \in content.artifacts : a.parents \subseteq IdsOf(content.artifacts)
         /\ PublishedInPasses(content.artifacts) = content.artifacts
         /\ \A a \in content.artifacts :
              AncestorsOf(a, content.artifacts) = AncestorsOf(a, artifacts)
<1>1. /\ content.artifacts \in SUBSET artifacts /\ Lineage(artifacts)
      /\ \A a \in content.artifacts : a.parents \subseteq IdsOf(content.artifacts)
  BY DEF LineageInv, ValidContent
<1> QED BY <1>1, PartsOfLineages

LEMMA ValidRepublishes ==
  ASSUME LineageInv, NEW content, ValidContent(content), content.artifacts \subseteq artifacts
  PROVE  CanRepublish(content.artifacts)
<1>1. PICK known : known = content.artifacts
  OBVIOUS
<1>2. /\ known \in SUBSET artifacts /\ Lineage(known)
      /\ \A a \in known : a.parents \subseteq IdsOf(known)
      /\ PublishedInPasses(known) = known
  BY <1>1, ValidIsPart
<1>3. \A a \in known : a.tenant = content.tenant
  BY <1>1 DEF ValidContent
<1>4. ASSUME NEW a \in known PROVE MayPublish(a, known \ ({a} \cup DescendantsOf(a, known)))
  <2> DEFINE before == known \ ({a} \cup DescendantsOf(a, known))
  <2>0. IsFiniteSet(known)
    BY <1>2 DEF Lineage
  <2>1. before \subseteq known /\ a \notin before
    OBVIOUS
  <2>2. a.id \notin IdsOf(before)
    BY <1>2, <2>1 DEF Lineage, IdsOf
  <2>3. \A b \in before : b.hash # a.hash \/ b.tenant # a.tenant
    BY <1>2, <2>1 DEF LineageInv
  <2>4. ASSUME NEW p \in a.parents PROVE \E b \in before : b.id = p /\ b.tenant = a.tenant
    <3>1. PICK b \in known : b.id = p
      BY <1>2 DEF IdsOf
    <3>2. b \in Parents(a, known) /\ b.tenant = a.tenant
      BY <1>3, <3>1 DEF Parents
    <3>3. b # a
      BY <1>2, <3>2, NothingIsBoth
    <3>4. b \in UpFrom(a, known)
      BY <2>0, <3>2, UpFromIsLeast
    <3>5. a \notin UpFrom(b, known)
      BY <1>2, <3>3, <3>4, NothingIsBoth
    <3>6. b \notin DownFrom(a, known)
      BY <2>0, <3>5, WaysLeadBack
    <3>7. DescendantsOf(a, known) \subseteq DownFrom(a, known)
      BY <2>0, DownFromIsLeast
    <3> QED BY <3>1, <3>2, <3>3, <3>6, <3>7
  <2> HIDE DEF before
  <2>5. MayPublish(a, before)
    BY <2>2, <2>3, <2>4 DEF MayPublish
  <2> QED BY <2>5 DEF before
<1> QED BY <1>1, <1>2, <1>4 DEF CanRepublish

\* Whatever is written between the reads of a collection and lost by the storage of a backup,
\* validateContent and the digest accept what restores the tenant as it was, only.
THEOREM BackupsAreFaithful == RecordsSpec => []BackupsRestoreFaithfully
<1>1. ASSUME RecordsInv PROVE BackupsRestoreFaithfully
  <2>1. CASE backup = Unread
    BY <2>1 DEF BackupsRestoreFaithfully
  <2>2. CASE backup # Unread
    <3>1. PICK kept : kept = backup.digest
      OBVIOUS
    <3>2. /\ ValidContent(kept) /\ kept.artifacts \subseteq artifacts /\ kept.events \subseteq events
          /\ LineageInv /\ EventsInv
      BY <1>1, <2>2, <3>1 DEF RecordsInv, CollectedInv
    <3>3. CanRepublish(kept.artifacts)
      BY <3>2, ValidRepublishes
    <3>4. \A a \in kept.artifacts : AncestorsOf(a, kept.artifacts) = AncestorsOf(a, artifacts)
      BY <3>2, ValidIsPart
    <3>5. ASSUME NEW r \in RunIds
          PROVE  EventsOf(kept.events, r) =
                   {e \in EventsOf(events, r) : e.sequence <= Cardinality(EventsOf(kept.events, r))}
      <4>1. PICK copy : copy = EventsOf(kept.events, r)
        OBVIOUS
      <4>2. PICK live : live = EventsOf(events, r)
        OBVIOUS
      <4>3. copy \subseteq live /\ NumberedFrom1(live) /\ IsFiniteSet(live)
        <5>1. live \subseteq events
          BY <4>2 DEF EventsOf
        <5> QED BY <3>2, <4>1, <4>2, <5>1, FS_Subset DEF EventsOf, EventsInv
      <4>4. {e.sequence : e \in copy} = 1..Cardinality(copy)
        BY <3>2, <4>1 DEF ValidContent
      <4>5. \A e \in copy : e.sequence \in 1..Cardinality(copy)
        BY <4>4
      <4>6. Cardinality(copy) \in Nat /\ Cardinality(live) \in Nat
        BY <4>3, FS_Subset, FS_CardinalityType
      <4>7. ASSUME NEW e \in live, e.sequence <= Cardinality(copy) PROVE e \in copy
        <5>1. e.sequence \in 1..Cardinality(copy)
          BY <4>3, <4>6, <4>7 DEF NumberedFrom1
        <5>2. PICK f \in copy : f.sequence = e.sequence
          BY <4>4, <5>1
        <5> QED BY <4>3, <5>2 DEF NumberedFrom1
      <4> QED BY <4>1, <4>2, <4>3, <4>5, <4>6, <4>7
    <3>6. \A b \in kept.evidence : Cites(b) \subseteq IdsOf(kept.artifacts)
      BY <3>2 DEF ValidContent
    <3> QED BY <3>1, <3>2, <3>3, <3>4, <3>5, <3>6 DEF BackupsRestoreFaithfully, Verifies
  <2> QED BY <2>1, <2>2
<1> QED BY <1>1, RecordsInvHolds, PTL

-----------------------------------------------------------------------------
\* What retention keeps.

LEMMA RetainedIsLeast ==
  ASSUME LineageInv, NEW policy, NEW kept, kept = Retained(artifacts, policy),
         NEW must, must = {a \in artifacts : BaseReason(a, policy) # "expired"}
  PROVE  /\ must \subseteq kept /\ kept \in SUBSET artifacts
         /\ \A a \in kept : Parents(a, artifacts) \subseteq kept
         /\ \A S \in SUBSET artifacts :
              must \subseteq S /\ (\A b \in S : Parents(b, artifacts) \subseteq S) => kept \subseteq S
<1>1. Up(artifacts) \in [artifacts -> SUBSET artifacts] /\ \A b \in artifacts : Up(artifacts)[b] = Parents(b, artifacts)
  BY DEF Up, Parents
<1>2. must \in SUBSET artifacts /\ kept = Reach(must, Up(artifacts), artifacts)
  BY DEF Retained, Up
<1>3. IsFiniteSet(artifacts)
  BY DEF LineageInv, Lineage
<1>4. Reached(kept, must, Up(artifacts), artifacts)
  BY ONLY <1>1, <1>2, <1>3, ReachIsLeast
<1>5. ASSUME NEW S \in SUBSET artifacts, must \subseteq S, \A b \in S : Parents(b, artifacts) \subseteq S
      PROVE  kept \subseteq S
  BY <1>1, <1>4, <1>5 DEF Reached
<1> QED BY <1>1, <1>4, <1>5 DEF Reached

\* planArtifactRetention keeps no more than what must stay and its ancestry, and the rest can
\* be deleted: for every policy and lineage.
THEOREM RetentionIsWhole == RecordsSpec => []RetentionLeavesAWhole
<1>1. ASSUME RecordsInv, NEW policy,
             NEW kept, kept = Retained(artifacts, policy),
             NEW must, must = {a \in artifacts : BaseReason(a, policy) # "expired"}
      PROVE  /\ must \subseteq kept
             /\ \A a \in kept : IdsOf(Parents(a, kept)) = a.parents
             /\ \A a \in kept \ must : DescendantsOf(a, artifacts) \cap must # {}
             /\ \A t \in Tenants :
                  UNION {Cites(b) : b \in OfTenant(evidence, t)} \subseteq policy.explicit =>
                    ValidContent([tenant |-> t, artifacts |-> OfTenant(kept, t), events |-> {},
                                  evidence |-> OfTenant(evidence, t)])
  <2>1. LineageInv /\ Lineage(artifacts) /\ IsFiniteSet(artifacts)
    BY <1>1 DEF RecordsInv, LineageInv, Lineage
  <2>2. /\ must \subseteq kept /\ kept \in SUBSET artifacts
        /\ \A a \in kept : Parents(a, artifacts) \subseteq kept
        /\ \A S \in SUBSET artifacts :
             must \subseteq S /\ (\A b \in S : Parents(b, artifacts) \subseteq S) => kept \subseteq S
    BY <1>1, <2>1, RetainedIsLeast
  <2>3. ASSUME NEW a \in kept, NEW p \in a.parents PROVE \E b \in kept : b.id = p /\ b.tenant = a.tenant
    <3>1. PICK b \in artifacts : b.id = p /\ b.tenant = a.tenant
      BY <2>1, <2>2 DEF LineageInv
    <3>2. b \in Parents(a, artifacts)
      BY <3>1 DEF Parents
    <3> QED BY <2>2, <3>1, <3>2
  <2>4. ASSUME NEW a \in kept PROVE IdsOf(Parents(a, kept)) = a.parents
    BY <2>3 DEF IdsOf, Parents
  <2>5. ASSUME NEW a \in kept \ must PROVE DescendantsOf(a, artifacts) \cap must # {}
    <3> DEFINE S == {x \in artifacts : DownFrom(x, artifacts) \cap must # {}}
    <3>1. S \in SUBSET artifacts
      OBVIOUS
    <3>2. must \subseteq S
      BY <2>1, <2>2, DownFromIsLeast
    <3>3. ASSUME NEW x \in S, NEW p \in Parents(x, artifacts) PROVE p \in S
      <4>1. p \in artifacts /\ x \in Children(p, artifacts)
        BY DEF Parents, Children
      <4>2. x \in DownFrom(p, artifacts)
        BY <2>1, <4>1, DownFromIsLeast
      <4>3. DownFrom(x, artifacts) \subseteq DownFrom(p, artifacts)
        BY <2>1, <4>1, <4>2, DownFromIsLeast
      <4> QED BY <4>1, <4>3
    <3> HIDE DEF S
    <3>4. kept \subseteq S
      BY <2>2, <3>1, <3>2, <3>3
    <3>5. a \in artifacts /\ DownFrom(a, artifacts) \cap must # {}
      BY <3>4 DEF S
    <3>6. DescendantsOf(a, artifacts) = DownFrom(a, artifacts) \ {a}
      BY <2>1, <3>5, DownFromIsLeast
    <3> QED BY <3>5, <3>6
  <2>6. ASSUME NEW t \in Tenants, UNION {Cites(b) : b \in OfTenant(evidence, t)} \subseteq policy.explicit
        PROVE  ValidContent([tenant |-> t, artifacts |-> OfTenant(kept, t), events |-> {},
                             evidence |-> OfTenant(evidence, t)])
    <3>1. PICK part : part = OfTenant(kept, t)
      OBVIOUS
    <3>2. part \in SUBSET artifacts /\ \A a \in part : a.tenant = t
      BY <2>2, <3>1 DEF OfTenant
    <3>3. ASSUME NEW a \in part PROVE a.parents \subseteq IdsOf(part)
      BY <2>3, <3>1 DEF OfTenant, IdsOf
    <3>4. PublishedInPasses(part) = part
      BY <2>1, <3>2, <3>3, PartsOfLineages
    <3>5. \A a, b \in part : a.id = b.id => a = b
      BY <2>1, <3>2 DEF Lineage
    <3>6. ASSUME NEW b \in OfTenant(evidence, t), NEW i \in Cites(b) PROVE i \in IdsOf(part)
      <4>1. b \in evidence /\ b.tenant = t
        BY DEF OfTenant
      <4>2. PICK a \in artifacts : a.id = i /\ a.tenant = t
        BY <1>1, <4>1 DEF RecordsInv, EvidenceInv, IdsOf, OfTenant
      <4>3. i \in policy.explicit
        BY <2>6
      <4>4. a \in must
        BY <1>1, <4>2, <4>3 DEF BaseReason
      <4> QED BY <2>2, <3>1, <4>2, <4>4 DEF OfTenant, IdsOf
    <3>7. PICK content : content = [tenant |-> t, artifacts |-> part, events |-> {},
                                    evidence |-> OfTenant(evidence, t)]
      OBVIOUS
    <3>8. \A r \in RunIds : EventsOf({}, r) = {} /\ {e.sequence : e \in EventsOf({}, r)} = 1..Cardinality({})
      BY FS_EmptySet DEF EventsOf
    <3>9. /\ content.tenant = t /\ content.artifacts = part /\ content.events = {}
          /\ content.evidence = OfTenant(evidence, t)
      BY <3>7
    <3>10. \A b \in OfTenant(evidence, t) : b.tenant = t
      BY DEF OfTenant
    <3>11. ValidContent(content)
      BY <3>2, <3>3, <3>4, <3>5, <3>6, <3>8, <3>9, <3>10 DEF ValidContent
    <3> QED BY <3>1, <3>7, <3>11
  <2> QED BY <2>2, <2>4, <2>5, <2>6
<1>2. RecordsInv => RetentionLeavesAWhole
  BY <1>1 DEF RetentionLeavesAWhole
<1> QED BY <1>2, RecordsInvHolds, PTL

-----------------------------------------------------------------------------
\* The workflow editor: what validateWorkflow accepts.

\* The graph of a workflow, as far as a run sees it.
Connected(w) ==
  /\ IsWorkflow(w)
  /\ \A n, m \in w.nodes : n.id = m.id => n = m
  /\ KnownEdges(w) = w.edges

LEMMA ValidIsWhole ==
  ASSUME NEW w, IsWorkflow(w), IsValid(w)
  PROVE  /\ Connected(w)
         /\ \A n \in w.nodes : \A p \in DOMAIN n.inputs :
              Producers(w, n.id, p) # {} /\ ~(Cardinality(Producers(w, n.id, p)) > 1)
         /\ \A p \in DOMAIN w.outputs : ~(Cardinality(Producers(w, "out", p)) > 1)
         /\ \A id \in NodeIds(w) : ~CanReach(id, id, Adjacency(w))
         /\ ~WriteConflict(w)
         /\ w.limit # NoLimit => ~(Total([n \in w.nodes |-> NodeCost(n)]) > w.limit)
<1>1. /\ CheckNames(w) = {} /\ CheckEdges(w) = {} /\ DetectCycles(w) = {}
      /\ When(WriteConflict(w), "WRITE_CONFLICT") = {} /\ AnalyzeBudget(w) = {}
  <2>0. ValidateWorkflow(w) = {}
    BY DEF IsValid
  <2>1. CheckNames(w) \subseteq ValidateWorkflow(w)
    BY DEF ValidateWorkflow
  <2>2. CheckEdges(w) \subseteq ValidateWorkflow(w)
    BY DEF ValidateWorkflow
  <2>3. DetectCycles(w) \subseteq ValidateWorkflow(w)
    BY DEF ValidateWorkflow
  <2>4. When(WriteConflict(w), "WRITE_CONFLICT") \subseteq ValidateWorkflow(w)
    BY Zenon DEF ValidateWorkflow
  <2>5. AnalyzeBudget(w) \subseteq ValidateWorkflow(w)
    <3> SUFFICES ASSUME NEW x \in AnalyzeBudget(w) PROVE x \in ValidateWorkflow(w)
      OBVIOUS
    <3> QED BY Zenon DEF ValidateWorkflow
  <2> QED BY <2>0, <2>1, <2>2, <2>3, <2>4, <2>5, Zenon
<1>2. \A n, m \in w.nodes : n.id = m.id => n = m
  BY <1>1 DEF CheckNames, When
<1>3. KnownEdges(w) = w.edges
  BY <1>1 DEF CheckEdges, When
<1>4. \A n \in w.nodes : \A p \in DOMAIN n.inputs :
        Producers(w, n.id, p) # {} /\ ~(Cardinality(Producers(w, n.id, p)) > 1)
  BY <1>1 DEF CheckEdges, When
<1>5. \A p \in DOMAIN w.outputs : ~(Cardinality(Producers(w, "out", p)) > 1)
  BY <1>1 DEF CheckEdges, When
<1>6. \A id \in NodeIds(w) : ~CanReach(id, id, Adjacency(w))
  BY <1>1 DEF DetectCycles, When
<1>7. ~WriteConflict(w)
  BY <1>1 DEF When
<1>8. w.limit # NoLimit => ~(Total([n \in w.nodes |-> NodeCost(n)]) > w.limit)
  BY <1>1 DEF AnalyzeBudget, When
<1> QED BY <1>2, <1>3, <1>4, <1>5, <1>6, <1>7, <1>8 DEF Connected

LEMMA NodesHaveIds ==
  ASSUME NEW w, IsWorkflow(w)
  PROVE  /\ IsFiniteSet(NodeIds(w)) /\ "in" \notin NodeIds(w) /\ "out" \notin NodeIds(w)
         /\ \A n \in w.nodes : n.id \in NodeIds(w)
<1> DEFINE IdOf == [n \in w.nodes |-> n.id]
<1>1. IdOf \in Surjection(w.nodes, NodeIds(w))
  <2>1. IdOf \in [w.nodes -> NodeIds(w)] /\ \A id \in NodeIds(w) : \E n \in w.nodes : IdOf[n] = id
    BY DEF NodeIds
  <2> QED BY <2>1 DEF Surjection
<1>2. IsFiniteSet(NodeIds(w))
  <2> HIDE DEF IdOf
  <2> QED BY <1>1, FS_Surjection DEF IsWorkflow
<1> QED BY <1>2 DEF NodeIds, IsWorkflow, IsNode

\* An edge of a whole workflow leads from the input or a node to a node or the output.
LEMMA EdgesHaveEnds ==
  ASSUME NEW w, Connected(w), NEW e \in w.edges
  PROVE  /\ e.source.node \in NodeIds(w) \cup {"in"}
         /\ e.target.node \in NodeIds(w) \cup {"out"}
<1>1. SourcePort(w, e) # <<>> /\ TargetPort(w, e) # <<>>
  BY DEF Connected, KnownEdges
<1> QED BY <1>1 DEF SourcePort, TargetPort

LEMMA UpstreamIsBack ==
  ASSUME NEW w, Connected(w)
  PROVE  /\ Adjacency(w) \in [NodeIds(w) -> SUBSET NodeIds(w)]
         /\ \A x, y \in NodeIds(w) : y \in Adjacency(w)[x] <=> x \in Upstream(w, y)
         /\ \A y \in NodeIds(w) : Upstream(w, y) \subseteq NodeIds(w)
<1>0. KnownEdges(w) = w.edges /\ "in" \notin NodeIds(w) /\ "out" \notin NodeIds(w)
  BY NodesHaveIds DEF Connected
<1>1. Adjacency(w) = [id \in NodeIds(w) |->
        {e.target.node : e \in {f \in w.edges : f.source.node = id /\ f.target.node # "out"}}]
  BY <1>0 DEF Adjacency
<1>2. \A x \in NodeIds(w) :
        Adjacency(w)[x] = {e.target.node : e \in {f \in w.edges : f.source.node = x /\ f.target.node # "out"}}
  BY <1>1
<1>3. \A x \in NodeIds(w) : Adjacency(w)[x] \subseteq NodeIds(w)
  BY <1>2, EdgesHaveEnds
<1>4. ASSUME NEW y \in NodeIds(w)
      PROVE  /\ Upstream(w, y) \subseteq NodeIds(w)
             /\ \A x \in NodeIds(w) : x \in Upstream(w, y) <=>
                  \E e \in w.edges : e.source.node = x /\ e.target.node = y
  BY <1>0, EdgesHaveEnds DEF Upstream, IncomingEdges
<1>5. ASSUME NEW x \in NodeIds(w), NEW y \in NodeIds(w)
      PROVE  y \in Adjacency(w)[x] <=> \E e \in w.edges : e.source.node = x /\ e.target.node = y
  BY <1>0, <1>2
<1> QED BY <1>1, <1>3, <1>4, <1>5

\* All that a node leads to.
Leads(w, id) == ReachableFrom(Adjacency(w), Adjacency(w)[id])

LEMMA LeadsIsLeast ==
  ASSUME NEW w, Connected(w), NEW x \in NodeIds(w)
  PROVE  /\ Leads(w, x) \in SUBSET NodeIds(w) /\ Adjacency(w)[x] \subseteq Leads(w, x)
         /\ \A b \in Leads(w, x) : Adjacency(w)[b] \subseteq Leads(w, x)
         /\ \A S \in SUBSET NodeIds(w) :
              Adjacency(w)[x] \subseteq S /\ (\A b \in S : Adjacency(w)[b] \subseteq S) => Leads(w, x) \subseteq S
<1>1. PICK ids : ids = NodeIds(w)
  OBVIOUS
<1>2. PICK adjacent : adjacent = Adjacency(w)
  OBVIOUS
<1>3. adjacent \in [ids -> SUBSET ids] /\ DOMAIN adjacent = ids
  BY <1>1, <1>2, UpstreamIsBack
<1>4. PICK reached : reached = Reach(adjacent[x], adjacent, ids)
  OBVIOUS
<1>5. IsFiniteSet(ids) /\ adjacent[x] \in SUBSET ids
  BY <1>1, <1>3, NodesHaveIds DEF Connected
<1>6. Reached(reached, adjacent[x], adjacent, ids)
  BY ONLY <1>3, <1>4, <1>5, ReachIsLeast
<1>7. Leads(w, x) = reached
  BY <1>2, <1>3, <1>4 DEF Leads, ReachableFrom
<1> QED BY <1>1, <1>2, <1>6, <1>7 DEF Reached

LEMMA AboveIsLeast ==
  ASSUME NEW w, Connected(w), NEW x \in NodeIds(w)
  PROVE  /\ Above(w, x) \in SUBSET NodeIds(w) /\ Upstream(w, x) \subseteq Above(w, x)
         /\ \A b \in Above(w, x) : Upstream(w, b) \subseteq Above(w, x)
         /\ \A S \in SUBSET NodeIds(w) :
              Upstream(w, x) \subseteq S /\ (\A b \in S : Upstream(w, b) \subseteq S) => Above(w, x) \subseteq S
<1>1. PICK ids : ids = NodeIds(w)
  OBVIOUS
<1>2. PICK adjacent : adjacent = [u \in NodeIds(w) |-> Upstream(w, u)]
  OBVIOUS
<1>3. adjacent \in [ids -> SUBSET ids] /\ \A b \in ids : adjacent[b] = Upstream(w, b)
  BY <1>1, <1>2, UpstreamIsBack
<1>4. PICK reached : reached = Reach(adjacent[x], adjacent, ids)
  OBVIOUS
<1>5. IsFiniteSet(ids) /\ adjacent[x] \in SUBSET ids
  BY <1>1, <1>3, NodesHaveIds DEF Connected
<1>6. Reached(reached, adjacent[x], adjacent, ids)
  BY ONLY <1>3, <1>4, <1>5, ReachIsLeast
<1>7. Above(w, x) = reached
  BY <1>1, <1>2, <1>3, <1>4 DEF Above
<1>8. ASSUME NEW S \in SUBSET ids, Upstream(w, x) \subseteq S, \A b \in S : Upstream(w, b) \subseteq S
      PROVE  reached \subseteq S
  BY <1>1, <1>3, <1>6, <1>8 DEF Reached
<1> QED BY <1>1, <1>3, <1>6, <1>7, <1>8 DEF Reached

LEMMA LeadsFromAbove ==
  ASSUME NEW w, Connected(w), NEW x \in NodeIds(w), NEW y \in NodeIds(w), y \in Leads(w, x)
  PROVE  x \in Above(w, y)
<1> DEFINE S == {z \in NodeIds(w) : x \in Above(w, z)}
<1>1. ASSUME NEW z \in Adjacency(w)[x] PROVE z \in S
  <2>1. z \in NodeIds(w) /\ x \in Upstream(w, z)
    BY UpstreamIsBack
  <2> QED BY <2>1, AboveIsLeast
<1>2. ASSUME NEW b \in S, NEW z \in Adjacency(w)[b] PROVE z \in S
  <2>1. b \in NodeIds(w) /\ z \in NodeIds(w) /\ b \in Upstream(w, z)
    BY UpstreamIsBack
  <2>2. b \in Above(w, z) /\ Above(w, z) \in SUBSET NodeIds(w)
    BY <2>1, AboveIsLeast
  <2>3. Above(w, b) \subseteq Above(w, z)
    BY <2>1, <2>2, AboveIsLeast
  <2> QED BY <2>1, <2>3
<1> HIDE DEF S
<1>3. S \in SUBSET NodeIds(w)
  BY DEF S
<1>4. Leads(w, x) \subseteq S
  BY <1>1, <1>2, <1>3, LeadsIsLeast
<1> QED BY <1>4 DEF S

\* Without a cycle every node is started: of those that are not, one that leads to the most
\* would lead to one that leads to less.
LEMMA AllAreStarted ==
  ASSUME NEW w, Connected(w), \A id \in NodeIds(w) : ~CanReach(id, id, Adjacency(w))
  PROVE  Started(w) = NodeIds(w)
<1>1. PICK ids : ids = NodeIds(w)
  OBVIOUS
<1>2. IsFiniteSet(ids)
  BY <1>1, NodesHaveIds DEF Connected
<1> DEFINE Turn == [S \in SUBSET ids |-> S \cup {id \in ids : Upstream(w, id) \subseteq S}]
<1>3. Turn \in [SUBSET ids -> SUBSET ids]
  OBVIOUS
<1>4. \A S \in SUBSET ids : Turn[S] = S \cup {id \in ids : Upstream(w, id) \subseteq S}
  OBVIOUS
<1>5. Started(w) = Rounds({}, Turn, ids)
  BY <1>1 DEF Started
<1> HIDE DEF Turn
<1>6. PICK started : started = Started(w)
  OBVIOUS
<1>7. started \in SUBSET ids /\ Turn[started] = started
  <2>1. {} \in SUBSET ids /\ \A S \in SUBSET ids : S \subseteq Turn[S]
    BY <1>4
  <2>2. Settled(started, {}, Turn, ids)
    BY <1>2, <1>3, <1>5, <1>6, <2>1, RoundsSettle
  <2> QED BY <2>2 DEF Settled
<1>8. ASSUME NEW x \in ids \ started PROVE \E u \in ids \ started : x \in Adjacency(w)[u]
  <2>1. ~(Upstream(w, x) \subseteq started)
    BY <1>4, <1>7
  <2> QED BY <1>1, <2>1, UpstreamIsBack
<1>9. \A x \in ids : x \notin Leads(w, x)
  BY <1>1 DEF CanReach, Leads
<1>10. \A x \in ids : /\ Leads(w, x) \in SUBSET ids /\ IsFiniteSet(Leads(w, x))
                      /\ Cardinality(Leads(w, x)) \in Nat /\ Cardinality(Leads(w, x)) <= Cardinality(ids)
  BY <1>1, <1>2, LeadsIsLeast, FS_Subset, FS_CardinalityType
<1>11. ASSUME NEW u \in ids, NEW x \in Adjacency(w)[u]
       PROVE  x \in ids /\ Cardinality(Leads(w, x)) < Cardinality(Leads(w, u))
  <2>1. x \in ids /\ x \in Leads(w, u)
    BY <1>1, LeadsIsLeast
  <2>2. Leads(w, x) \subseteq Leads(w, u)
    BY <1>1, <2>1, LeadsIsLeast
  <2>3. Leads(w, x) # Leads(w, u)
    BY <1>9, <2>1
  <2>4. /\ IsFiniteSet(Leads(w, u)) /\ Cardinality(Leads(w, u)) \in Nat /\ Cardinality(Leads(w, x)) \in Nat
    BY <1>10, <2>1
  <2>5. Cardinality(Leads(w, x)) <= Cardinality(Leads(w, u)) /\ Cardinality(Leads(w, x)) # Cardinality(Leads(w, u))
    BY <2>2, <2>3, <2>4, FS_Subset
  <2> QED BY <2>1, <2>4, <2>5
<1>12. ASSUME ids \ started # {} PROVE FALSE
  <2> DEFINE Fewer(x) == Cardinality(ids) - Cardinality(Leads(w, x))
             fewer == {Fewer(x) : x \in ids \ started}
  <2>1. Cardinality(ids) \in Nat
    BY <1>2, FS_CardinalityType
  <2>2. fewer \subseteq Nat /\ fewer # {}
    BY <1>10, <1>12, <2>1
  <2> HIDE DEF fewer
  <2>3. PICK least \in fewer : \A n \in fewer : least <= n
    BY <2>2, Least
  <2>4. PICK x \in ids \ started : least = Fewer(x)
    BY <2>3 DEF fewer
  <2>5. PICK u \in ids \ started : x \in Adjacency(w)[u]
    BY <1>8
  <2>6. Fewer(u) \in fewer
    BY DEF fewer
  <2>7. Cardinality(Leads(w, x)) < Cardinality(Leads(w, u))
    BY <1>11, <2>5
  <2> QED BY <1>10, <2>1, <2>3, <2>4, <2>6, <2>7
<1> QED BY <1>1, <1>6, <1>7, <1>12

-----------------------------------------------------------------------------
LEMMA OnlyOne ==
  ASSUME NEW S, IsFiniteSet(S), ~(Cardinality(S) > 1), NEW e \in S, NEW f \in S
  PROVE  e = f
<1> SUFFICES ASSUME e # f PROVE FALSE
  OBVIOUS
<1>1. IsFiniteSet({e}) /\ Cardinality({e}) = 1 /\ f \notin {e}
  BY FS_Singleton
<1>2. Cardinality({e} \cup {f}) = Cardinality({e}) + 1
  BY ONLY <1>1, FS_AddElement
<1>3. Cardinality({e} \cup {f}) <= Cardinality(S) /\ Cardinality(S) \in Nat
  BY FS_Subset, FS_CardinalityType
<1> QED BY <1>1, <1>2, <1>3

\* An edge into a node feeds one of its inputs, and each input has one such edge.
LEMMA InputsHaveOneEdge ==
  ASSUME NEW w, Connected(w), NEW n \in w.nodes,
         \A p \in DOMAIN n.inputs :
           Producers(w, n.id, p) # {} /\ ~(Cardinality(Producers(w, n.id, p)) > 1)
  PROVE  /\ {e.target.port : e \in IncomingEdges(w, n.id)} = DOMAIN n.inputs
         /\ Cardinality(IncomingEdges(w, n.id)) = Cardinality(DOMAIN n.inputs)
<1> DEFINE incoming == IncomingEdges(w, n.id)
           PortOf == [e \in incoming |-> e.target.port]
<1>1. incoming \subseteq w.edges /\ IsFiniteSet(incoming) /\ \A e \in incoming : e.target.node = n.id
  BY FS_Subset DEF IncomingEdges, Connected, IsWorkflow
<1>2. n.id \in NodeIds(w) /\ n.id # "out" /\ NodeOf(w, n.id) = n
  BY NodesHaveIds DEF NodeOf, Connected
<1>3. ASSUME NEW e \in incoming
      PROVE  e.target.port \in DOMAIN n.inputs /\ e \in Producers(w, n.id, e.target.port)
  <2>1. e \in KnownEdges(w) /\ e.target \in Endpoint
    BY <1>1 DEF Connected, IsWorkflow, IsEdge
  <2>2. e.target = [node |-> n.id, port |-> e.target.port]
    BY <1>1, <2>1 DEF Endpoint
  <2>3. TargetPort(w, e) = PortIn(n.inputs, e.target.port) /\ TargetPort(w, e) # <<>>
    BY <1>1, <1>2, <2>1 DEF TargetPort, KnownEdges
  <2> QED BY <2>1, <2>2, <2>3 DEF PortIn, Producers
<1>4. ASSUME NEW p \in DOMAIN n.inputs
      PROVE  \E e \in incoming : e.target.port = p
  <2>1. PICK e \in Producers(w, n.id, p) : TRUE
    OBVIOUS
  <2>2. e \in w.edges /\ e.target = [node |-> n.id, port |-> p]
    BY <2>1 DEF Producers, Connected
  <2> QED BY <2>2 DEF IncomingEdges
<1>5. ASSUME NEW e \in incoming, NEW f \in incoming, e.target.port = f.target.port
      PROVE  e = f
  <2> DEFINE made == Producers(w, n.id, e.target.port)
  <2>1. e \in made /\ f \in made /\ ~(Cardinality(made) > 1)
    BY <1>3, <1>5
  <2>2. IsFiniteSet(made)
    BY FS_Subset DEF Producers, Connected, IsWorkflow
  <2> HIDE DEF made
  <2> QED BY <2>1, <2>2, OnlyOne
<1>6. PortOf \in Bijection(incoming, DOMAIN n.inputs)
  <2>1. PortOf \in [incoming -> DOMAIN n.inputs]
    BY <1>3
  <2>2. PortOf \in Injection(incoming, DOMAIN n.inputs)
    BY <1>5, <2>1 DEF Injection, IsInjective
  <2>3. PortOf \in Surjection(incoming, DOMAIN n.inputs)
    BY <1>4, <2>1 DEF Surjection
  <2> QED BY <2>2, <2>3 DEF Bijection
<1>7. ExistsBijection(incoming, DOMAIN n.inputs)
  BY <1>6 DEF ExistsBijection
<1>8. Cardinality(DOMAIN n.inputs) = Cardinality(incoming)
  BY <1>1, <1>7, FS_Bijection
<1> QED BY <1>3, <1>4, <1>8

-----------------------------------------------------------------------------
\* Patterns that match one file overlap.

LEMMA PrefixesAgree ==
  ASSUME NEW S, NEW s \in Seq(S), NEW t \in Seq(S)
  PROVE  IsPrefix(s, t) <=> Len(s) <= Len(t) /\ \A i \in 1..Len(s) : s[i] = t[i]
<1>1. /\ SubSeq(s, 1, Len(s)) = [i \in 1..Len(s) |-> s[i]]
      /\ SubSeq(t, 1, Len(s)) = [i \in 1..Len(s) |-> t[i]]
  BY DEF SubSeq
<1> QED BY <1>1 DEF IsPrefix

LEMMA PrefixesMeet ==
  ASSUME NEW S, NEW s \in Seq(S), NEW t \in Seq(S), NEW file \in Seq(S),
         IsPrefix(s, file), IsPrefix(t, file)
  PROVE  IsPrefix(s, t) \/ IsPrefix(t, s)
<1>1. Len(s) \in Nat /\ Len(t) \in Nat
  OBVIOUS
<1>2. /\ \A i \in 1..Len(s) : s[i] = file[i]
      /\ \A i \in 1..Len(t) : t[i] = file[i]
  BY PrefixesAgree
<1>3. CASE Len(s) <= Len(t)
  <2>1. \A i \in 1..Len(s) : i \in 1..Len(t)
    BY <1>1, <1>3
  <2>2. \A i \in 1..Len(s) : s[i] = t[i]
    BY <1>2, <2>1
  <2> QED BY <1>3, <2>2, PrefixesAgree
<1>4. CASE Len(t) <= Len(s)
  <2>1. \A i \in 1..Len(t) : i \in 1..Len(s)
    BY <1>1, <1>4
  <2>2. \A i \in 1..Len(t) : t[i] = s[i]
    BY <1>2, <2>1
  <2> QED BY <1>4, <2>2, PrefixesAgree
<1> QED BY <1>1, <1>3, <1>4

LEMMA MeetingPatternsOverlap ==
  ASSUME NEW left \in Pattern, NEW right \in Pattern, NEW S, STRING \subseteq S, NEW file \in Seq(S),
         PatternMatches(left, file), PatternMatches(right, file)
  PROVE  WritePatternsOverlap(left, right)
<1>0. left.names \in Seq(S) /\ right.names \in Seq(S)
  <2>1. left.names \in Seq(STRING) /\ right.names \in Seq(STRING)
    BY DEF Pattern
  <2> QED BY <2>1, SeqMonotonic
<1>1. CASE ~left.deep
  <2>1. AsPath(left) = file
    BY <1>1 DEF AsPath, PatternMatches
  <2> QED BY <2>1 DEF WritePatternsOverlap
<1>2. CASE ~right.deep
  <2>1. AsPath(right) = file
    BY <1>2 DEF AsPath, PatternMatches
  <2> QED BY <2>1 DEF WritePatternsOverlap
<1>3. CASE left.deep /\ right.deep
  <2>1. IsPrefix(left.names, file) /\ IsPrefix(right.names, file)
    BY <1>3 DEF PatternMatches, IsStrictPrefix
  <2>2. RecursivePatternsOverlap(left, right)
    BY <1>0, <2>1, PrefixesMeet DEF RecursivePatternsOverlap
  <2>3. ASSUME NEW x \in Pattern, NEW y \in Pattern, x.deep, y.deep, x.names = <<>>
        PROVE  PatternMatches(x, AsPath(y))
    <3>1. PICK T : T = STRING \cup {"*", "**"}
      OBVIOUS
    <3>2. PICK names \in Seq(T) : y.names = names
      <4>1. y.names \in Seq(STRING) /\ STRING \subseteq T
        BY <3>1 DEF Pattern
      <4> QED BY <4>1, SeqMonotonic
    <3>3. AsPath(y) = Append(names, "*") \/ AsPath(y) = Append(names, "**")
      BY <2>3, <3>2 DEF AsPath
    <3>4. \A last \in T : Append(names, last) \in Seq(T) /\ Append(names, last) # <<>>
      BY AppendProperties
    <3>5. AsPath(y) \in Seq(T) /\ AsPath(y) # <<>>
      BY <3>1, <3>3, <3>4
    <3>6. IsPrefix(<<>>, AsPath(y))
      <4>1. PICK none \in Seq(T) : none = <<>> /\ Len(none) = 0
        BY EmptySeq
      <4>2. PICK path \in Seq(T) : path = AsPath(y)
        BY <3>5
      <4>3. Len(none) <= Len(path) /\ \A i \in 1..Len(none) : none[i] = path[i]
        BY <4>1
      <4>4. IsPrefix(none, path)
        BY <4>3, PrefixesAgree
      <4> QED BY <4>1, <4>2, <4>4
    <3> QED BY <2>3, <3>5, <3>6 DEF PatternMatches, IsStrictPrefix
  <2> QED BY <1>3, <2>2, <2>3 DEF WritePatternsOverlap
<1> QED BY <1>1, <1>2, <1>3

LEMMA FilesAreNames == Files \subseteq Seq(STRING \cup {"a", "b", "c"})
<1>1. PICK S : S = STRING \cup {"a", "b", "c"}
  OBVIOUS
<1>2. "a" \in S /\ "b" \in S /\ "c" \in S
  BY <1>1
<1>3. <<"a">> \in Seq(S) /\ <<"a", "b">> \in Seq(S) /\ <<"a", "b", "c">> \in Seq(S) /\ <<"c">> \in Seq(S)
  BY <1>2
<1> QED BY <1>1, <1>3 DEF Files

-----------------------------------------------------------------------------
\* A total does not exceed that of costs that are no less.

IsSum(sum, cost, members, n) ==
  sum = [k \in 0..n |-> IF k = 0 THEN 0 ELSE sum[k - 1] + cost[members[k]]]

LEMMA SumsExist ==
  ASSUME NEW cost, NEW members
  PROVE  \A n \in Nat : \E sum : IsSum(sum, cost, members, n)
<1> DEFINE good == {n \in Nat : \E sum : IsSum(sum, cost, members, n)}
<1>1. 0 \in good
  <2>1. IsSum([k \in 0..0 |-> 0], cost, members, 0)
    BY DEF IsSum
  <2> QED BY <2>1
<1>2. ASSUME NEW n \in Nat, n \in good PROVE n + 1 \in good
  <2>1. PICK sum : IsSum(sum, cost, members, n)
    BY <1>2
  <2> DEFINE last == sum[n] + cost[members[n + 1]]
             longer == [k \in 0..n + 1 |-> IF k = n + 1 THEN last ELSE sum[k]]
  <2>2. sum[0] = 0 /\ \A k \in 1..n : sum[k] = sum[k - 1] + cost[members[k]]
    BY <2>1 DEF IsSum
  <2>3. /\ longer[n + 1] = last
        /\ \A k \in 0..n : longer[k] = sum[k]
        /\ longer = [k \in 0..n + 1 |-> longer[k]]
    OBVIOUS
  <2> HIDE DEF longer, last
  <2>4. ASSUME NEW k \in 0..n + 1
        PROVE  longer[k] = IF k = 0 THEN 0 ELSE longer[k - 1] + cost[members[k]]
    <3>1. CASE k = 0
      <4>1. 0 \in 0..n
        OBVIOUS
      <4> QED BY <2>2, <2>3, <3>1, <4>1
    <3>2. CASE k \in 1..n
      <4>1. k \in 0..n /\ k - 1 \in 0..n /\ k # 0
        BY <3>2
      <4>2. longer[k] = sum[k] /\ longer[k - 1] = sum[k - 1]
        BY <2>3, <4>1
      <4> QED BY <2>2, <3>2, <4>1, <4>2
    <3>3. CASE k = n + 1
      <4>1. k - 1 = n /\ n \in 0..n /\ k # 0
        BY <3>3
      <4>2. longer[k - 1] = sum[n] /\ longer[k] = last
        BY <2>3, <3>3, <4>1
      <4>3. last = sum[n] + cost[members[k]]
        BY <3>3 DEF last
      <4> QED BY <4>1, <4>2, <4>3
    <3> QED BY <3>1, <3>2, <3>3
  <2>5. IsSum(longer, cost, members, n + 1)
    BY <2>3, <2>4 DEF IsSum
  <2> QED BY <2>5
<1> HIDE DEF good
<1>3. \A n \in Nat : n \in good
  BY <1>1, <1>2, EveryNumber
<1> QED BY <1>3 DEF good

LEMMA TotalIsMonotone ==
  ASSUME NEW S, IsFiniteSet(S), NEW cost \in [S -> Nat], NEW more \in [S -> Nat],
         \A x \in S : cost[x] <= more[x]
  PROVE  Total(cost) \in Nat /\ Total(more) \in Nat /\ Total(cost) <= Total(more)
<1> DEFINE members == SetToSeq(S)
           n == Cardinality(S)
<1>1. n \in Nat /\ ExistsBijection(1..n, S)
  BY FS_CardinalityType
<1>2. members \in [1..n -> S]
  <2>1. \E f \in [1..n -> S] : IsInjective(f)
    BY <1>1 DEF ExistsBijection, Bijection, Injection
  <2> QED BY <2>1 DEF SetToSeq
<1>3. DOMAIN members = 1..n /\ Len(members) = n
  BY <1>1, <1>2
<1> HIDE DEF members, n
<1> DEFINE SumOf(c) == CHOOSE sum : IsSum(sum, c, members, n)
<1>4. Total(cost) = SumOf(cost)[n] /\ Total(more) = SumOf(more)[n]
  <2>1. DOMAIN cost = S /\ DOMAIN more = S
    OBVIOUS
  <2>2. SetToSeq(DOMAIN cost) = members /\ SetToSeq(DOMAIN more) = members
    BY <2>1 DEF members
  <2> QED BY <1>3, <2>2 DEF Total, IsSum
<1>5. IsSum(SumOf(cost), cost, members, n) /\ IsSum(SumOf(more), more, members, n)
  BY <1>1, SumsExist
<1>6. PICK low : low = SumOf(cost)
  OBVIOUS
<1>7. PICK high : high = SumOf(more)
  OBVIOUS
<1>8. /\ low[0] = 0 /\ \A k \in 1..n : low[k] = low[k - 1] + cost[members[k]]
      /\ high[0] = 0 /\ \A k \in 1..n : high[k] = high[k - 1] + more[members[k]]
  <2>1. IsSum(low, cost, members, n) /\ IsSum(high, more, members, n)
    BY <1>5, <1>6, <1>7
  <2> HIDE DEF SumOf
  <2>2. ASSUME NEW c, NEW sum, IsSum(sum, c, members, n)
        PROVE  sum[0] = 0 /\ \A k \in 1..n : sum[k] = sum[k - 1] + c[members[k]]
    BY ONLY <1>1, <2>2 DEF IsSum
  <2> QED BY <2>1, <2>2
<1> DEFINE ordered == {k \in Nat : k <= n => low[k] \in Nat /\ high[k] \in Nat /\ low[k] <= high[k]}
<1>9. 0 \in ordered
  BY <1>8
<1>10. ASSUME NEW k \in Nat, k \in ordered PROVE k + 1 \in ordered
  <2> SUFFICES ASSUME k + 1 <= n
               PROVE  low[k + 1] \in Nat /\ high[k + 1] \in Nat /\ low[k + 1] <= high[k + 1]
    OBVIOUS
  <2>1. k + 1 \in 1..n /\ (k + 1) - 1 = k /\ k <= n
    BY <1>1
  <2>2. low[k] \in Nat /\ high[k] \in Nat /\ low[k] <= high[k]
    BY <1>10, <2>1
  <2>3. members[k + 1] \in S
    BY <1>2, <2>1
  <2>4. PICK x \in S : x = members[k + 1]
    BY <2>3
  <2>5. cost[x] \in Nat /\ more[x] \in Nat /\ cost[x] <= more[x]
    OBVIOUS
  <2>6. low[k + 1] = low[k] + cost[x] /\ high[k + 1] = high[k] + more[x]
    BY <1>8, <2>1, <2>4
  <2> QED BY <2>2, <2>5, <2>6
<1> HIDE DEF ordered
<1>11. n \in ordered
  BY <1>1, <1>9, <1>10, EveryNumber
<1> QED BY <1>1, <1>4, <1>6, <1>7, <1>11 DEF ordered

-----------------------------------------------------------------------------
\* Ids name one node and one edge.
Distinct(w) ==
  /\ \A n, m \in w.nodes : n.id = m.id => n = m
  /\ \A e, f \in w.edges : EdgeId(e) = EdgeId(f) => e = f

\* A document has at most one edge to each end, so one between two.
LEMMA ValidIsDistinct ==
  ASSUME NEW w, IsWorkflow(w), IsValid(w)
  PROVE  Distinct(w)
<1>1. Connected(w)
  BY ValidIsWhole
<1>2. ASSUME NEW e \in w.edges, NEW f \in w.edges, EdgeId(e) = EdgeId(f)
      PROVE  e = f
  <2>1. e.target = f.target /\ e \in KnownEdges(w) /\ f \in KnownEdges(w) /\ e.target \in Endpoint
    BY <1>1, <1>2 DEF EdgeId, Connected, IsWorkflow, IsEdge
  <2> DEFINE made == Producers(w, e.target.node, e.target.port)
  <2>2. e \in made /\ f \in made
    <3>1. e.target = [node |-> e.target.node, port |-> e.target.port]
      BY <2>1 DEF Endpoint
    <3> QED BY <2>1, <3>1 DEF Producers
  <2>3. IsFiniteSet(made)
    BY FS_Subset, <1>1 DEF Producers, Connected, IsWorkflow
  <2>4. ~(Cardinality(made) > 1)
    <3>1. TargetPort(w, e) # <<>>
      BY <2>1 DEF KnownEdges
    <3>2. CASE e.target.node = "out"
      <4>1. e.target.port \in DOMAIN w.outputs
        BY <3>1, <3>2 DEF TargetPort, PortIn
      <4> QED BY <3>2, <4>1, ValidIsWhole
    <3>3. CASE e.target.node # "out"
      <4>1. PICK n \in w.nodes : n.id = e.target.node
        BY <3>1, <3>3 DEF TargetPort, NodeIds
      <4>2. NodeOf(w, e.target.node) = n
        BY <1>1, <4>1 DEF NodeOf, Connected
      <4>3. e.target.port \in DOMAIN n.inputs
        BY <3>1, <3>3, <4>2 DEF TargetPort, PortIn
      <4>4. ~(Cardinality(Producers(w, n.id, e.target.port)) > 1)
        BY <4>3, ValidIsWhole
      <4> QED BY <4>1, <4>4
    <3> QED BY <3>2, <3>3
  <2> HIDE DEF made
  <2> QED BY <2>2, <2>3, <2>4, OnlyOne
<1> QED BY <1>1, <1>2 DEF Connected, Distinct

Operations ==
  {EditOf("upsert_node", n) : n \in NodeEdits} \cup {EditOf("remove_node", n.id) : n \in NodeEdits}
  \cup {EditOf("upsert_edge", e) : e \in EdgeEdits} \cup {EditOf("remove_edge", EdgeId(e)) : e \in EdgeEdits}
  \cup {EditOf("replace_contracts", c) : c \in Contracts}

\* A workflow keeps its shape and its ids through an edit.
LEMMA EditsKeepShape ==
  ASSUME NEW w, IsWorkflow(w), Distinct(w), NEW operation \in Operations
  PROVE  IsWorkflow(Edited(w, operation)) /\ Distinct(Edited(w, operation))
<1> DEFINE v == Edited(w, operation)
<1>0. /\ DOMAIN w = WorkflowFields /\ w = [field \in WorkflowFields |-> w[field]]
      /\ IsFiniteSet(w.nodes) /\ (\A n \in w.nodes : IsNode(n))
      /\ IsFiniteSet(w.edges) /\ (\A e \in w.edges : IsEdge(e)) /\ w.limit \in Int
      /\ \A n, m \in w.nodes : n.id = m.id => n = m
      /\ \A e, f \in w.edges : EdgeId(e) = EdgeId(f) => e = f
  BY Zenon DEF IsWorkflow, Distinct
<1> DEFINE Shaped(x) == /\ x = [field \in WorkflowFields |-> x[field]]
                        /\ IsFiniteSet(x.nodes) /\ (\A n \in x.nodes : IsNode(n))
                        /\ IsFiniteSet(x.edges) /\ (\A e \in x.edges : IsEdge(e)) /\ x.limit \in Int
                        /\ \A n, m \in x.nodes : n.id = m.id => n = m
                        /\ \A e, f \in x.edges : EdgeId(e) = EdgeId(f) => e = f
<1>1. ASSUME NEW n \in NodeEdits, operation = EditOf("upsert_node", n) PROVE Shaped(v)
  <2>1. v = [w EXCEPT !.nodes = {m \in @ : m.id # n.id} \cup {n}]
    BY <1>1 DEF Edited, EditOf, UpsertNode
  <2>2. /\ v = [field \in WorkflowFields |-> v[field]]
        /\ v.nodes = {m \in w.nodes : m.id # n.id} \cup {n}
        /\ v.edges = w.edges /\ v.limit = w.limit
    BY <1>0, <2>1 DEF WorkflowFields
  <2>3. IsFiniteSet({m \in w.nodes : m.id # n.id} \cup {n})
    BY <1>0, FS_Subset, FS_AddElement
  <2>4. IsNode(n)
    BY EditorAssumption
  <2> HIDE DEF v
  <2> QED BY <1>0, <2>2, <2>3, <2>4
<1>2. ASSUME NEW n \in NodeEdits, operation = EditOf("remove_node", n.id) PROVE Shaped(v)
  <2>1. v = [w EXCEPT !.nodes = {m \in @ : m.id # n.id},
                      !.edges = {e \in @ : e.source.node # n.id /\ e.target.node # n.id}]
    BY <1>2 DEF Edited, EditOf, RemoveNode
  <2>2. /\ v = [field \in WorkflowFields |-> v[field]]
        /\ v.nodes = {m \in w.nodes : m.id # n.id} /\ v.limit = w.limit
        /\ v.edges = {e \in w.edges : e.source.node # n.id /\ e.target.node # n.id}
    BY <1>0, <2>1 DEF WorkflowFields
  <2>3. v.nodes \subseteq w.nodes /\ v.edges \subseteq w.edges
    BY <2>2
  <2>4. IsFiniteSet(v.nodes) /\ IsFiniteSet(v.edges)
    BY <1>0, <2>3, FS_Subset
  <2> HIDE DEF v
  <2> QED BY <1>0, <2>2, <2>3, <2>4
<1>3. ASSUME NEW e \in EdgeEdits, operation = EditOf("upsert_edge", e) PROVE Shaped(v)
  <2>1. v = [w EXCEPT !.edges = {f \in @ : EdgeId(f) # EdgeId(e)} \cup {e}]
    BY <1>3 DEF Edited, EditOf, UpsertEdge
  <2>2. /\ v = [field \in WorkflowFields |-> v[field]]
        /\ v.edges = {f \in w.edges : EdgeId(f) # EdgeId(e)} \cup {e}
        /\ v.nodes = w.nodes /\ v.limit = w.limit
    BY <1>0, <2>1 DEF WorkflowFields
  <2>3. IsFiniteSet({f \in w.edges : EdgeId(f) # EdgeId(e)} \cup {e})
    BY <1>0, FS_Subset, FS_AddElement
  <2>4. IsEdge(e)
    BY EditorAssumption
  <2> HIDE DEF v
  <2> QED BY <1>0, <2>2, <2>3, <2>4
<1>4. ASSUME NEW e \in EdgeEdits, operation = EditOf("remove_edge", EdgeId(e)) PROVE Shaped(v)
  <2>1. v = [w EXCEPT !.edges = {f \in @ : EdgeId(f) # EdgeId(e)}]
    BY <1>4 DEF Edited, EditOf, RemoveEdge
  <2>2. /\ v = [field \in WorkflowFields |-> v[field]]
        /\ v.edges = {f \in w.edges : EdgeId(f) # EdgeId(e)}
        /\ v.nodes = w.nodes /\ v.limit = w.limit
    BY <1>0, <2>1 DEF WorkflowFields
  <2>3. v.edges \subseteq w.edges
    BY <2>2
  <2>4. IsFiniteSet(v.edges)
    BY <1>0, <2>3, FS_Subset
  <2> HIDE DEF v
  <2> QED BY <1>0, <2>2, <2>3, <2>4
<1>5. ASSUME NEW c \in Contracts, operation = EditOf("replace_contracts", c) PROVE Shaped(v)
  <2>1. v = [field \in DOMAIN w |-> IF field \in ContractFields THEN c[field] ELSE w[field]]
    BY <1>5 DEF Edited, EditOf, ReplaceContracts
  <2>2. /\ v = [field \in WorkflowFields |-> v[field]]
        /\ v.nodes = w.nodes /\ v.edges = w.edges /\ v.limit = c.limit
    BY <1>0, <2>1 DEF WorkflowFields, ContractFields
  <2>3. c.limit \in Int
    BY EditorAssumption
  <2> HIDE DEF v
  <2> QED BY <1>0, <2>2, <2>3
<1> HIDE DEF v
<1>6. Shaped(v)
  BY <1>1, <1>2, <1>3, <1>4, <1>5 DEF Operations
<1>7. IsWorkflow(v) /\ Distinct(v)
  BY <1>6, Zenon DEF IsWorkflow, Distinct
<1> QED BY <1>7 DEF v

-----------------------------------------------------------------------------
\* A document is valid and nothing is pending on it; a candidate is what the last edit made.
EditorInv ==
  /\ IsWorkflow(draft) /\ IsWorkflow(previous)
  /\ Distinct(draft) /\ Distinct(previous)
  /\ edit = Opened => IsValid(draft) /\ previous = draft
  /\ edit # Opened => edit \in Operations /\ draft = Edited(previous, edit)

LEMMA EditorInitInv == EditorInit => EditorInv
<1> SUFFICES ASSUME EditorInit PROVE EditorInv
  OBVIOUS
<1>1. IsWorkflow(draft) /\ IsValid(draft) /\ previous = draft /\ edit = Opened
  BY EditorAssumption DEF EditorInit
<1> QED BY <1>1, ValidIsDistinct DEF EditorInv

LEMMA EditorStepInv == EditorInv /\ [EditorNext]_editorVars => EditorInv'
<1> SUFFICES ASSUME EditorInv, [EditorNext]_editorVars PROVE EditorInv'
  OBVIOUS
<1>1. CASE PublishDocument
  BY <1>1 DEF EditorInv, PublishDocument
<1>2. ASSUME NEW operation \in Operations, ApplyWorkflowEdit(operation) PROVE EditorInv'
  <2>1. draft' = Edited(draft, operation) /\ previous' = draft /\ edit' = operation
    BY <1>2 DEF ApplyWorkflowEdit
  <2>2. edit' # Opened
    BY <2>1 DEF Operations, EditOf, Opened
  <2>3. IsWorkflow(draft') /\ Distinct(draft')
    BY <2>1, EditsKeepShape DEF EditorInv
  <2> QED BY <2>1, <2>2, <2>3 DEF EditorInv
<1>3. CASE UNCHANGED editorVars
  BY <1>3 DEF EditorInv, editorVars
<1>4. CASE \E operation \in Operations : ApplyWorkflowEdit(operation)
  BY <1>2, <1>4
<1>5. EditorNext => PublishDocument \/ \E operation \in Operations : ApplyWorkflowEdit(operation)
  BY DEF EditorNext, Operations
<1> QED BY <1>1, <1>3, <1>4, <1>5

LEMMA EditorInvariant == EditorSpec => []EditorInv
<1> QED BY EditorInitInv, EditorStepInv, PTL DEF EditorSpec

-----------------------------------------------------------------------------
\* What an operator is shown costs no more than what was checked.
LEMMA ShownCostsNoMore ==
  ASSUME NEW w, IsWorkflow(w)
  PROVE  /\ GraphCost(w) \in Nat /\ Total([n \in w.nodes |-> NodeCost(n)]) \in Nat
         /\ GraphCost(w) <= Total([n \in w.nodes |-> NodeCost(n)])
<1> DEFINE shown == [n \in w.nodes |-> GraphNodeCost(n)]
           checked == [n \in w.nodes |-> NodeCost(n)]
<1>1. ASSUME NEW n \in w.nodes
      PROVE  GraphNodeCost(n) \in Nat /\ NodeCost(n) \in Nat /\ GraphNodeCost(n) <= NodeCost(n)
  <2>1. n.cost \in Nat /\ n.attempts \in Nat /\ n.rounds \in Nat
    BY DEF IsWorkflow, IsNode
  <2>2. PICK each \in Nat : each = n.cost * n.attempts
    BY <2>1
  <2>3. PICK fewer \in Nat : fewer = IF n.kind # "loop" \/ n.rounds = 0 THEN 1 ELSE n.rounds
    BY <2>1
  <2>4. PICK more \in Nat : more = IF n.kind # "loop" THEN 1 ELSE IF n.rounds = 0 THEN 51 ELSE n.rounds
    BY <2>1
  <2>5. GraphNodeCost(n) = each * fewer /\ NodeCost(n) = each * more
    BY <2>2, <2>3, <2>4 DEF GraphNodeCost, NodeCost
  <2>6. fewer <= more
    BY <2>1, <2>3, <2>4
  <2>7. each * fewer \in Nat /\ each * more \in Nat /\ each * fewer <= each * more
    BY <2>6
  <2> QED BY <2>5, <2>7
<1>2. shown \in [w.nodes -> Nat] /\ checked \in [w.nodes -> Nat] /\ \A n \in w.nodes : shown[n] <= checked[n]
  BY <1>1
<1>3. IsFiniteSet(w.nodes)
  BY DEF IsWorkflow
<1> HIDE DEF shown, checked
<1>4. Total(shown) \in Nat /\ Total(checked) \in Nat /\ Total(shown) <= Total(checked)
  BY <1>2, <1>3, TotalIsMonotone
<1> QED BY <1>4 DEF shown, checked, GraphCost

LEMMA ValidCanBeRun == EditorInv => DocumentsCanBeRun
<1> SUFFICES ASSUME EditorInv, edit = Opened
             PROVE  DocumentsCanBeRun
  BY DEF DocumentsCanBeRun
<1>1. PICK w : w = draft
  OBVIOUS
<1>2. IsWorkflow(w) /\ IsValid(w)
  BY <1>1 DEF EditorInv
<1>3. Connected(w)
  BY <1>2, ValidIsWhole
<1>4. Started(w) = NodeIds(w)
  BY <1>2, <1>3, ValidIsWhole, AllAreStarted
<1>5. \A n \in w.nodes :
        /\ {e.target.port : e \in IncomingEdges(w, n.id)} = DOMAIN n.inputs
        /\ Cardinality(IncomingEdges(w, n.id)) = Cardinality(DOMAIN n.inputs)
  BY <1>2, <1>3, ValidIsWhole, InputsHaveOneEdge
<1>6. ASSUME NEW n \in w.nodes, NEW m \in w.nodes, n # m, NEW file \in Files,
             NEW p \in n.writes, PatternMatches(p, file),
             NEW q \in m.writes, PatternMatches(q, file)
      PROVE  n.id \in Above(w, m.id) \/ m.id \in Above(w, n.id)
  <2>0. PICK S : S = STRING \cup {"a", "b", "c"}
    OBVIOUS
  <2>1. p \in Pattern /\ q \in Pattern /\ STRING \subseteq S /\ file \in Seq(S)
    BY <1>2, <2>0, FilesAreNames DEF IsWorkflow, IsNode
  <2>2. WritePatternsOverlap(p, q)
    BY <1>6, <2>1, MeetingPatternsOverlap
  <2>3. n.id # m.id /\ n.id \in NodeIds(w) /\ m.id \in NodeIds(w)
    BY <1>2, <1>3, <1>6, NodesHaveIds DEF Connected
  <2>4. ~WriteConflict(w)
    BY <1>2, ValidIsWhole
  <2>5. CanReach(n.id, m.id, Adjacency(w)) \/ CanReach(m.id, n.id, Adjacency(w))
    BY <2>2, <2>3, <2>4 DEF WriteConflict
  <2> QED BY <1>3, <2>3, <2>5, LeadsFromAbove DEF CanReach, Leads
<1>7. w.limit # NoLimit => GraphCost(w) <= w.limit
  <2>1. w.limit # NoLimit => ~(Total([n \in w.nodes |-> NodeCost(n)]) > w.limit)
    BY <1>2, ValidIsWhole
  <2>2. w.limit \in Int
    BY <1>2 DEF IsWorkflow
  <2> QED BY <1>2, <2>1, <2>2, ShownCostsNoMore
<1> QED BY <1>1, <1>4, <1>5, <1>6, <1>7 DEF DocumentsCanBeRun

-----------------------------------------------------------------------------
\* A change is of something that is on one side only or differs; there is none exactly when
\* both sides have the same.
LEMMA ChangesAreReal ==
  ASSUME NEW type, NEW before, NEW after
  PROVE  /\ \A c \in DiffMap(type, before, after) :
              /\ c.id \in DOMAIN before \/ c.id \in DOMAIN after
              /\ ~(c.id \in DOMAIN before /\ c.id \in DOMAIN after /\ before[c.id] = after[c.id])
              /\ c.id \notin DOMAIN after => c.kind = "removed"
         /\ DiffMap(type, before, after) = {} =>
              DOMAIN before = DOMAIN after /\ \A id \in DOMAIN before : before[id] = after[id]
         /\ before = after => DiffMap(type, before, after) = {}
<1>1. ASSUME NEW c \in DiffMap(type, before, after)
      PROVE  /\ c.id \in DOMAIN before \/ c.id \in DOMAIN after
             /\ ~(c.id \in DOMAIN before /\ c.id \in DOMAIN after /\ before[c.id] = after[c.id])
             /\ c.id \notin DOMAIN after => c.kind = "removed"
  BY DEF DiffMap, Change
<1>2. ASSUME DiffMap(type, before, after) = {}
      PROVE  DOMAIN before = DOMAIN after /\ \A id \in DOMAIN before : before[id] = after[id]
  BY <1>2 DEF DiffMap
<1>3. before = after => DiffMap(type, before, after) = {}
  BY DEF DiffMap
<1> QED BY <1>1, <1>2, <1>3

\* The changes, type by type.
LEMMA DiffByType ==
  ASSUME NEW before, NEW after, NEW changes, changes = SemanticDiff(before, after)
  PROVE  /\ DOMAIN changes = {"node", "edge", "artifact_schema", "verifier", "contract", "workflow"}
         /\ \A type \in {"node", "edge", "artifact_schema", "verifier", "contract"} :
              changes[type] = DiffMap(type, Entities(before)[type], Entities(after)[type])
         /\ changes["workflow"] = {} <=> WorkflowIdentity(before) = WorkflowIdentity(after)
  BY DEF SemanticDiff

Named(S, id) == {n \in S : n.id = id}
Joining(S, id) == {e \in S : EdgeId(e) = id}
NodesById(S) == [id \in {n.id : n \in S} |-> OneOf({n \in S : n.id = id})]
EdgesById(S) == [id \in {EdgeId(e) : e \in S} |-> OneOf({e \in S : EdgeId(e) = id})]
SchemasById(S) == [id \in {s.type : s \in S} |-> OneOf({s \in S : s.type = id})]
ContractOf(w) ==
  [inputs |-> <<w.inputs>>, outputs |-> <<w.outputs>>,
   scopePolicy |-> <<w.allowedSecrets, w.allowedNetworkHosts, w.limit>>,
   releasePolicy |-> <<w.requiredVerifiers>>]

LEMMA EntitiesById ==
  ASSUME NEW w
  PROVE  /\ Entities(w)["node"] = NodesById(w.nodes)
         /\ Entities(w)["edge"] = EdgesById(w.edges)
         /\ Entities(w)["artifact_schema"] = SchemasById(w.schemas)
         /\ Entities(w)["verifier"] = NodesById(w.verifiers)
         /\ Entities(w)["contract"] = ContractOf(w)
  BY DEF Entities, ById, Identified, SchemaId, NodesById, EdgesById, SchemasById, ContractOf

LEMMA ByIdHolds ==
  ASSUME NEW S, NEW id
  PROVE  /\ id \in DOMAIN NodesById(S) <=> Named(S, id) # {}
         /\ id \in DOMAIN NodesById(S) => NodesById(S)[id] = OneOf(Named(S, id))
         /\ id \in DOMAIN EdgesById(S) <=> Joining(S, id) # {}
         /\ id \in DOMAIN EdgesById(S) => EdgesById(S)[id] = OneOf(Joining(S, id))
<1>1. DOMAIN NodesById(S) = {n.id : n \in S} /\ DOMAIN EdgesById(S) = {EdgeId(e) : e \in S}
  BY DEF NodesById, EdgesById
<1>2. /\ id \in DOMAIN NodesById(S) <=> Named(S, id) # {}
      /\ id \in DOMAIN EdgesById(S) <=> Joining(S, id) # {}
  BY <1>1 DEF Named, Joining
<1>3. id \in {n.id : n \in S} => NodesById(S)[id] = OneOf(Named(S, id))
  BY DEF NodesById, Named
<1>4. id \in {EdgeId(e) : e \in S} => EdgesById(S)[id] = OneOf(Joining(S, id))
  BY DEF EdgesById, Joining
<1> QED BY <1>1, <1>2, <1>3, <1>4

\* What stays the same makes no change.
LEMMA SameMakesNoChange ==
  ASSUME NEW before, NEW after, NEW changes, changes = SemanticDiff(before, after)
  PROVE  /\ before.nodes = after.nodes => changes["node"] = {}
         /\ before.edges = after.edges => changes["edge"] = {}
         /\ before.schemas = after.schemas => changes["artifact_schema"] = {}
         /\ before.verifiers = after.verifiers => changes["verifier"] = {}
         /\ (/\ before.inputs = after.inputs /\ before.outputs = after.outputs
             /\ before.allowedSecrets = after.allowedSecrets /\ before.limit = after.limit
             /\ before.allowedNetworkHosts = after.allowedNetworkHosts
             /\ before.requiredVerifiers = after.requiredVerifiers) => changes["contract"] = {}
         /\ (before.version = after.version /\ before.mode = after.mode) => changes["workflow"] = {}
<1>1. ASSUME NEW type \in {"node", "edge", "artifact_schema", "verifier", "contract"},
             Entities(before)[type] = Entities(after)[type]
      PROVE  changes[type] = {}
  BY <1>1, DiffByType, ChangesAreReal
<1>2. before.version = after.version /\ before.mode = after.mode => changes["workflow"] = {}
  BY DiffByType DEF WorkflowIdentity
<1>3. before.nodes = after.nodes => Entities(before)["node"] = Entities(after)["node"]
  BY EntitiesById
<1>4. before.edges = after.edges => Entities(before)["edge"] = Entities(after)["edge"]
  BY EntitiesById
<1>5. before.schemas = after.schemas => Entities(before)["artifact_schema"] = Entities(after)["artifact_schema"]
  BY EntitiesById
<1>6. before.verifiers = after.verifiers => Entities(before)["verifier"] = Entities(after)["verifier"]
  BY EntitiesById
<1>7. (/\ before.inputs = after.inputs /\ before.outputs = after.outputs
       /\ before.allowedSecrets = after.allowedSecrets /\ before.limit = after.limit
       /\ before.allowedNetworkHosts = after.allowedNetworkHosts
       /\ before.requiredVerifiers = after.requiredVerifiers)
      => Entities(before)["contract"] = Entities(after)["contract"]
  BY EntitiesById DEF ContractOf
<1> QED BY <1>1, <1>2, <1>3, <1>4, <1>5, <1>6, <1>7

\* Where ids are distinct, no change means the same.
LEMMA NoChangeMeansTheSame ==
  ASSUME NEW before, NEW after, NEW changes, changes = SemanticDiff(before, after)
  PROVE  /\ Distinct(before) /\ Distinct(after) =>
              /\ changes["node"] = {} => before.nodes = after.nodes
              /\ changes["edge"] = {} => before.edges = after.edges
         /\ ("DUPLICATE_ARTIFACT_SCHEMA" \notin CheckNames(before) \cup CheckNames(after)
             /\ changes["artifact_schema"] = {}) => before.schemas = after.schemas
         /\ ("DUPLICATE_VERIFIER_DEFINITION" \notin CheckVerifiers(before) \cup CheckVerifiers(after)
             /\ changes["verifier"] = {}) => before.verifiers = after.verifiers
         /\ changes["contract"] = {} =>
              /\ before.inputs = after.inputs /\ before.outputs = after.outputs
              /\ before.allowedSecrets = after.allowedSecrets /\ before.limit = after.limit
              /\ before.allowedNetworkHosts = after.allowedNetworkHosts
              /\ before.requiredVerifiers = after.requiredVerifiers
         /\ changes["workflow"] = {} => before.version = after.version /\ before.mode = after.mode
<1>1. ASSUME NEW type \in {"node", "edge", "artifact_schema", "verifier", "contract"}, changes[type] = {},
             NEW b, b = Entities(before)[type], NEW a, a = Entities(after)[type]
      PROVE  DOMAIN b = DOMAIN a /\ \A id \in DOMAIN b : b[id] = a[id]
  BY <1>1, DiffByType, ChangesAreReal
<1>2. ASSUME NEW type \in {"node", "edge", "artifact_schema", "verifier", "contract"}, changes[type] = {},
             NEW S, S = {Entities(before)[type][id] : id \in DOMAIN Entities(before)[type]},
             NEW T, T = {Entities(after)[type][id] : id \in DOMAIN Entities(after)[type]}
      PROVE  S = T
  <2>1. PICK b : b = Entities(before)[type]
    OBVIOUS
  <2>2. PICK a : a = Entities(after)[type]
    OBVIOUS
  <2>3. DOMAIN b = DOMAIN a /\ \A id \in DOMAIN b : b[id] = a[id]
    BY ONLY <1>1, <1>2, <2>1, <2>2
  <2> QED BY ONLY <1>2, <2>1, <2>2, <2>3
<1>3. ASSUME NEW w, Distinct(w)
      PROVE  w.nodes = {Entities(w)["node"][id] : id \in DOMAIN Entities(w)["node"]}
  <2>1. PICK m : m = NodesById(w.nodes)
    OBVIOUS
  <2>2. \A n \in w.nodes : m[n.id] = n
    BY <1>3, <2>1 DEF Distinct, OneOf, NodesById
  <2>3. DOMAIN m = {n.id : n \in w.nodes}
    BY <2>1 DEF NodesById
  <2>4. w.nodes = {m[id] : id \in DOMAIN m}
    BY ONLY <2>2, <2>3
  <2> QED BY <2>1, <2>4, EntitiesById
<1>4. ASSUME NEW w, Distinct(w)
      PROVE  w.edges = {Entities(w)["edge"][id] : id \in DOMAIN Entities(w)["edge"]}
  <2>1. PICK m : m = EdgesById(w.edges)
    OBVIOUS
  <2>2. \A e \in w.edges : m[EdgeId(e)] = e
    BY <1>4, <2>1 DEF Distinct, OneOf, EdgesById
  <2>3. DOMAIN m = {EdgeId(e) : e \in w.edges}
    BY <2>1 DEF EdgesById
  <2>4. w.edges = {m[id] : id \in DOMAIN m}
    BY ONLY <2>2, <2>3
  <2> QED BY <2>1, <2>4, EntitiesById
<1>5. ASSUME NEW w, "DUPLICATE_ARTIFACT_SCHEMA" \notin CheckNames(w)
      PROVE  w.schemas = {Entities(w)["artifact_schema"][id] : id \in DOMAIN Entities(w)["artifact_schema"]}
  <2>1. PICK m : m = SchemasById(w.schemas)
    OBVIOUS
  <2>0. \A s, t \in w.schemas : s.type = t.type => s = t
    BY <1>5 DEF CheckNames, When
  <2>2. \A s \in w.schemas : m[s.type] = s
    BY <2>0, <2>1 DEF OneOf, SchemasById
  <2>3. DOMAIN m = {s.type : s \in w.schemas}
    BY <2>1 DEF SchemasById
  <2>4. w.schemas = {m[id] : id \in DOMAIN m}
    BY ONLY <2>2, <2>3
  <2> QED BY <2>1, <2>4, EntitiesById
<1>6. ASSUME NEW w, "DUPLICATE_VERIFIER_DEFINITION" \notin CheckVerifiers(w)
      PROVE  w.verifiers = {Entities(w)["verifier"][id] : id \in DOMAIN Entities(w)["verifier"]}
  <2>1. PICK m : m = NodesById(w.verifiers)
    OBVIOUS
  <2>0. \A u, v \in w.verifiers : u.id = v.id => u = v
    BY <1>6 DEF CheckVerifiers, When
  <2>2. \A v \in w.verifiers : m[v.id] = v
    BY <2>0, <2>1 DEF OneOf, NodesById
  <2>3. DOMAIN m = {v.id : v \in w.verifiers}
    BY <2>1 DEF NodesById
  <2>4. w.verifiers = {m[id] : id \in DOMAIN m}
    BY ONLY <2>2, <2>3
  <2> QED BY <2>1, <2>4, EntitiesById
<1>7. ASSUME changes["contract"] = {}
      PROVE  /\ before.inputs = after.inputs /\ before.outputs = after.outputs
             /\ before.allowedSecrets = after.allowedSecrets /\ before.limit = after.limit
             /\ before.allowedNetworkHosts = after.allowedNetworkHosts
             /\ before.requiredVerifiers = after.requiredVerifiers
  <2>1. PICK b : b = Entities(before)["contract"]
    OBVIOUS
  <2>2. PICK a : a = Entities(after)["contract"]
    OBVIOUS
  <2>3. DOMAIN b = DOMAIN a /\ \A id \in DOMAIN b : b[id] = a[id]
    BY <1>1, <1>7, <2>1, <2>2
  <2>4. b = ContractOf(before) /\ a = ContractOf(after)
    BY <2>1, <2>2, EntitiesById
  <2>5. b["inputs"] = a["inputs"] /\ b["outputs"] = a["outputs"]
        /\ b["scopePolicy"] = a["scopePolicy"] /\ b["releasePolicy"] = a["releasePolicy"]
    BY <2>3, <2>4 DEF ContractOf
  <2> QED BY <2>4, <2>5 DEF ContractOf
<1>8. ASSUME changes["workflow"] = {}
      PROVE  before.version = after.version /\ before.mode = after.mode
  <2>1. WorkflowIdentity(before) = WorkflowIdentity(after)
    BY <1>8, DiffByType
  <2>2. \A w : WorkflowIdentity(w)["version"] = w.version /\ WorkflowIdentity(w)["mode"] = w.mode
    BY DEF WorkflowIdentity
  <2> QED BY <2>1, <2>2
<1>9. Distinct(before) /\ Distinct(after) =>
        /\ changes["node"] = {} => before.nodes = after.nodes
        /\ changes["edge"] = {} => before.edges = after.edges
  BY <1>2, <1>3, <1>4
<1>10. ("DUPLICATE_ARTIFACT_SCHEMA" \notin CheckNames(before) \cup CheckNames(after)
        /\ changes["artifact_schema"] = {}) => before.schemas = after.schemas
  BY <1>2, <1>5
<1>11. ("DUPLICATE_VERIFIER_DEFINITION" \notin CheckVerifiers(before) \cup CheckVerifiers(after)
        /\ changes["verifier"] = {}) => before.verifiers = after.verifiers
  BY <1>2, <1>6
<1> QED BY <1>7, <1>8, <1>9, <1>10, <1>11

\* A change of a node or an edge is of an id under which the two sides do not hold the same.
LEMMA ChangesAreWhereSidesDiffer ==
  ASSUME NEW before, NEW after, NEW changes, changes = SemanticDiff(before, after)
  PROVE  /\ \A c \in changes["node"] : Named(before.nodes, c.id) # Named(after.nodes, c.id)
         /\ \A c \in changes["edge"] :
              /\ Joining(before.edges, c.id) # Joining(after.edges, c.id)
              /\ Joining(after.edges, c.id) = {} => c.kind = "removed"
<1>1. ASSUME NEW type \in {"node", "edge"}, NEW c \in changes[type],
             NEW b, b = Entities(before)[type], NEW a, a = Entities(after)[type]
      PROVE  /\ c.id \in DOMAIN b \/ c.id \in DOMAIN a
             /\ ~(c.id \in DOMAIN b /\ c.id \in DOMAIN a /\ b[c.id] = a[c.id])
             /\ c.id \notin DOMAIN a => c.kind = "removed"
  BY <1>1, DiffByType, ChangesAreReal
<1>2. ASSUME NEW c \in changes["node"]
      PROVE  Named(before.nodes, c.id) # Named(after.nodes, c.id)
  <2>1. PICK b : b = NodesById(before.nodes)
    OBVIOUS
  <2>2. PICK a : a = NodesById(after.nodes)
    OBVIOUS
  <2>3. c.id \in DOMAIN b \/ c.id \in DOMAIN a
    BY <1>1, <2>1, <2>2, EntitiesById
  <2>4. ~(c.id \in DOMAIN b /\ c.id \in DOMAIN a /\ b[c.id] = a[c.id])
    BY <1>1, <2>1, <2>2, EntitiesById
  <2> QED BY <2>1, <2>2, <2>3, <2>4, ByIdHolds
<1>3. ASSUME NEW c \in changes["edge"]
      PROVE  /\ Joining(before.edges, c.id) # Joining(after.edges, c.id)
             /\ Joining(after.edges, c.id) = {} => c.kind = "removed"
  <2>1. PICK b : b = EdgesById(before.edges)
    OBVIOUS
  <2>2. PICK a : a = EdgesById(after.edges)
    OBVIOUS
  <2>3. c.id \in DOMAIN b \/ c.id \in DOMAIN a
    BY <1>1, <2>1, <2>2, EntitiesById
  <2>4. /\ ~(c.id \in DOMAIN b /\ c.id \in DOMAIN a /\ b[c.id] = a[c.id])
        /\ c.id \notin DOMAIN a => c.kind = "removed"
    BY <1>1, <2>1, <2>2, EntitiesById
  <2> QED BY <2>1, <2>2, <2>3, <2>4, ByIdHolds
<1> QED BY <1>2, <1>3

-----------------------------------------------------------------------------
\* Each edit, and the changes that are told of it.

LEMMA EditsAccount == EditorInv => ChangesAccountForEdits
<1> SUFFICES ASSUME EditorInv PROVE ChangesAccountForEdits
  OBVIOUS
<1>1. PICK before : before = previous
  OBVIOUS
<1>2. PICK after : after = draft
  OBVIOUS
<1>3. PICK changes : changes = SemanticDiff(before, after)
  OBVIOUS
<1> DEFINE Only(types) == \A type \in DOMAIN changes \ types : changes[type] = {}
<1>4. DOMAIN changes = {"node", "edge", "artifact_schema", "verifier", "contract", "workflow"}
  BY <1>3, DiffByType
<1>5. /\ before = [field \in WorkflowFields |-> before[field]] /\ Distinct(before) /\ DOMAIN before = WorkflowFields
      /\ after = [field \in WorkflowFields |-> after[field]] /\ Distinct(after) /\ DOMAIN after = WorkflowFields
  BY <1>1, <1>2 DEF EditorInv, IsWorkflow
<1>6. ASSUME before = after PROVE Only({})
  BY <1>3, <1>4, <1>6, SameMakesNoChange
<1>7. ASSUME Only({}),
             {"DUPLICATE_ARTIFACT_SCHEMA", "DUPLICATE_VERIFIER_DEFINITION"}
               \cap (ValidateWorkflow(before) \cup ValidateWorkflow(after)) = {}
      PROVE  before = after
  <2>1. /\ changes["node"] = {} /\ changes["edge"] = {} /\ changes["artifact_schema"] = {}
        /\ changes["verifier"] = {} /\ changes["contract"] = {} /\ changes["workflow"] = {}
    BY <1>4, <1>7
  <2>2. \A w : CheckNames(w) \subseteq ValidateWorkflow(w) /\ CheckVerifiers(w) \subseteq ValidateWorkflow(w)
    BY Zenon DEF ValidateWorkflow
  <2>3. /\ "DUPLICATE_ARTIFACT_SCHEMA" \notin CheckNames(before) \cup CheckNames(after)
        /\ "DUPLICATE_VERIFIER_DEFINITION" \notin CheckVerifiers(before) \cup CheckVerifiers(after)
    BY <1>7, <2>2
  <2>4. before.nodes = after.nodes /\ before.edges = after.edges
    BY <1>3, <1>5, <2>1, NoChangeMeansTheSame
  <2>5. before.schemas = after.schemas /\ before.verifiers = after.verifiers
    BY <1>3, <2>1, <2>3, NoChangeMeansTheSame
  <2>6. /\ before.inputs = after.inputs /\ before.outputs = after.outputs
        /\ before.allowedSecrets = after.allowedSecrets /\ before.limit = after.limit
        /\ before.allowedNetworkHosts = after.allowedNetworkHosts
        /\ before.requiredVerifiers = after.requiredVerifiers
        /\ before.version = after.version /\ before.mode = after.mode
    BY <1>3, <2>1, NoChangeMeansTheSame
  <2>7. \A field \in WorkflowFields : before[field] = after[field]
    BY <2>4, <2>5, <2>6 DEF WorkflowFields
  <2> QED BY <1>5, <2>7
<1> HIDE DEF Only
<1>8. ASSUME edit # Opened PROVE edit \in Operations /\ after = Edited(before, edit)
  BY <1>1, <1>2, <1>8 DEF EditorInv
<1>9. ASSUME NEW n \in NodeEdits, edit = EditOf("upsert_node", n), after = Edited(before, edit)
      PROVE  Only({"node"}) /\ \A c \in changes["node"] : c.id = edit.value.id
  <2>1. after = [before EXCEPT !.nodes = {m \in @ : m.id # n.id} \cup {n}] /\ edit.value = n
    BY <1>9 DEF Edited, EditOf, UpsertNode
  <2>2. /\ after.nodes = {m \in before.nodes : m.id # n.id} \cup {n}
        /\ \A field \in WorkflowFields \ {"nodes"} : after[field] = before[field]
    BY <1>5, <2>1 DEF WorkflowFields
  <2>3. Only({"node"})
    BY <1>3, <1>4, <2>2, SameMakesNoChange DEF Only, WorkflowFields
  <2>4. ASSUME NEW c \in changes["node"], c.id # n.id PROVE FALSE
    <3>1. Named(before.nodes, c.id) = Named(after.nodes, c.id)
      BY <2>2, <2>4 DEF Named
    <3> QED BY <1>3, <3>1, ChangesAreWhereSidesDiffer
  <2> QED BY <2>1, <2>3, <2>4
<1>10. ASSUME NEW n \in NodeEdits, edit = EditOf("remove_node", n.id), after = Edited(before, edit)
       PROVE  /\ Only({"node", "edge"})
              /\ \A c \in changes["node"] : c.id = edit.value
              /\ \A c \in changes["edge"] : edit.value \in {c.id[1].node, c.id[2].node} /\ c.kind = "removed"
  <2>1. /\ after = [before EXCEPT !.nodes = {m \in @ : m.id # n.id},
                                  !.edges = {e \in @ : e.source.node # n.id /\ e.target.node # n.id}]
        /\ edit.value = n.id
    BY <1>10 DEF Edited, EditOf, RemoveNode
  <2>2. /\ after.nodes = {m \in before.nodes : m.id # n.id}
        /\ after.edges = {e \in before.edges : e.source.node # n.id /\ e.target.node # n.id}
        /\ \A field \in WorkflowFields \ {"nodes", "edges"} : after[field] = before[field]
    BY <1>5, <2>1 DEF WorkflowFields
  <2>3. Only({"node", "edge"})
    BY <1>3, <1>4, <2>2, SameMakesNoChange DEF Only, WorkflowFields
  <2>4. ASSUME NEW c \in changes["node"], c.id # n.id PROVE FALSE
    <3>1. Named(before.nodes, c.id) = Named(after.nodes, c.id)
      BY <2>2, <2>4 DEF Named
    <3> QED BY <1>3, <3>1, ChangesAreWhereSidesDiffer
  <2>5. ASSUME NEW c \in changes["edge"]
        PROVE  n.id \in {c.id[1].node, c.id[2].node} /\ c.kind = "removed"
    <3>1. Joining(before.edges, c.id) # Joining(after.edges, c.id)
      BY <1>3, ChangesAreWhereSidesDiffer
    <3>2. PICK e \in before.edges : EdgeId(e) = c.id /\ (e.source.node = n.id \/ e.target.node = n.id)
      BY <2>2, <3>1 DEF Joining
    <3>3. c.id[1] = e.source /\ c.id[2] = e.target
      BY <3>2 DEF EdgeId
    <3>4. ASSUME NEW f \in after.edges, EdgeId(f) = c.id PROVE FALSE
      <4>1. f.source = e.source /\ f.target = e.target
        BY <3>2, <3>4 DEF EdgeId
      <4> QED BY <2>2, <3>2, <3>4, <4>1
    <3>5. Joining(after.edges, c.id) = {}
      BY <3>4 DEF Joining
    <3>6. c.kind = "removed"
      BY <1>3, <3>5, ChangesAreWhereSidesDiffer
    <3> QED BY <3>2, <3>3, <3>6
  <2> QED BY <2>1, <2>3, <2>4, <2>5
<1>11. ASSUME NEW e \in EdgeEdits, edit = EditOf("upsert_edge", e), after = Edited(before, edit)
       PROVE  Only({"edge"}) /\ \A c \in changes["edge"] : c.id = EdgeId(edit.value)
  <2>1. after = [before EXCEPT !.edges = {f \in @ : EdgeId(f) # EdgeId(e)} \cup {e}] /\ edit.value = e
    BY <1>11 DEF Edited, EditOf, UpsertEdge
  <2>2. /\ after.edges = {f \in before.edges : EdgeId(f) # EdgeId(e)} \cup {e}
        /\ \A field \in WorkflowFields \ {"edges"} : after[field] = before[field]
    BY <1>5, <2>1 DEF WorkflowFields
  <2>3. Only({"edge"})
    BY <1>3, <1>4, <2>2, SameMakesNoChange DEF Only, WorkflowFields
  <2>4. ASSUME NEW c \in changes["edge"], c.id # EdgeId(e) PROVE FALSE
    <3>1. Joining(before.edges, c.id) = Joining(after.edges, c.id)
      BY <2>2, <2>4 DEF Joining
    <3> QED BY <1>3, <3>1, ChangesAreWhereSidesDiffer
  <2> QED BY <2>1, <2>3, <2>4
<1>12. ASSUME NEW e \in EdgeEdits, edit = EditOf("remove_edge", EdgeId(e)), after = Edited(before, edit)
       PROVE  Only({"edge"}) /\ \A c \in changes["edge"] : c.id = edit.value /\ c.kind = "removed"
  <2>1. after = [before EXCEPT !.edges = {f \in @ : EdgeId(f) # EdgeId(e)}] /\ edit.value = EdgeId(e)
    BY <1>12 DEF Edited, EditOf, RemoveEdge
  <2>2. /\ after.edges = {f \in before.edges : EdgeId(f) # EdgeId(e)}
        /\ \A field \in WorkflowFields \ {"edges"} : after[field] = before[field]
    BY <1>5, <2>1 DEF WorkflowFields
  <2>3. Only({"edge"})
    BY <1>3, <1>4, <2>2, SameMakesNoChange DEF Only, WorkflowFields
  <2>4. ASSUME NEW c \in changes["edge"] PROVE c.id = EdgeId(e) /\ c.kind = "removed"
    <3>1. c.id = EdgeId(e)
      <4> SUFFICES ASSUME c.id # EdgeId(e) PROVE FALSE
        OBVIOUS
      <4>1. Joining(before.edges, c.id) = Joining(after.edges, c.id)
        BY <2>2 DEF Joining
      <4> QED BY <1>3, <4>1, ChangesAreWhereSidesDiffer
    <3>2. Joining(after.edges, c.id) = {}
      BY <2>2, <3>1 DEF Joining
    <3> QED BY <1>3, <3>1, <3>2, ChangesAreWhereSidesDiffer
  <2> QED BY <2>1, <2>3, <2>4
<1>13. ASSUME NEW c \in Contracts, edit = EditOf("replace_contracts", c), after = Edited(before, edit)
       PROVE  Only({"artifact_schema", "verifier", "contract"})
  <2>1. after = [field \in DOMAIN before |-> IF field \in ContractFields THEN c[field] ELSE before[field]]
    BY <1>13 DEF Edited, EditOf, ReplaceContracts
  <2>2. \A field \in {"nodes", "edges", "version", "mode"} : after[field] = before[field]
    BY <1>5, <2>1 DEF WorkflowFields, ContractFields
  <2> QED BY <1>3, <1>4, <2>2, SameMakesNoChange DEF Only
<1>14. PICK kind : kind = edit.kind
  OBVIOUS
<1>15. /\ kind = "upsert_node" => Only({"node"}) /\ \A c \in changes["node"] : c.id = edit.value.id
       /\ kind = "remove_node" =>
            /\ Only({"node", "edge"})
            /\ \A c \in changes["node"] : c.id = edit.value
            /\ \A c \in changes["edge"] : edit.value \in {c.id[1].node, c.id[2].node} /\ c.kind = "removed"
       /\ kind = "upsert_edge" => Only({"edge"}) /\ \A c \in changes["edge"] : c.id = EdgeId(edit.value)
       /\ kind = "remove_edge" =>
            Only({"edge"}) /\ \A c \in changes["edge"] : c.id = edit.value /\ c.kind = "removed"
       /\ kind = "replace_contracts" => Only({"artifact_schema", "verifier", "contract"})
  <2>1. CASE edit = Opened
    <3>1. kind = "opened"
      BY <1>14, <2>1 DEF Opened
    <3> QED BY <3>1
  <2>2. CASE \E n \in NodeEdits : edit = EditOf("upsert_node", n)
    <3>1. kind = "upsert_node" /\ edit # Opened
      BY <1>14, <2>2 DEF EditOf, Opened
    <3> QED BY <1>8, <1>9, <2>2, <3>1
  <2>3. CASE \E n \in NodeEdits : edit = EditOf("remove_node", n.id)
    <3>1. kind = "remove_node" /\ edit # Opened
      BY <1>14, <2>3 DEF EditOf, Opened
    <3> QED BY <1>8, <1>10, <2>3, <3>1
  <2>4. CASE \E e \in EdgeEdits : edit = EditOf("upsert_edge", e)
    <3>1. kind = "upsert_edge" /\ edit # Opened
      BY <1>14, <2>4 DEF EditOf, Opened
    <3> QED BY <1>8, <1>11, <2>4, <3>1
  <2>5. CASE \E e \in EdgeEdits : edit = EditOf("remove_edge", EdgeId(e))
    <3>1. kind = "remove_edge" /\ edit # Opened
      BY <1>14, <2>5 DEF EditOf, Opened
    <3> QED BY <1>8, <1>12, <2>5, <3>1
  <2>6. CASE \E c \in Contracts : edit = EditOf("replace_contracts", c)
    <3>1. kind = "replace_contracts" /\ edit # Opened
      BY <1>14, <2>6 DEF EditOf, Opened
    <3> QED BY <1>8, <1>13, <2>6, <3>1
  <2>7. edit \in Operations => \/ \E n \in NodeEdits : edit = EditOf("upsert_node", n)
                               \/ \E n \in NodeEdits : edit = EditOf("remove_node", n.id)
                               \/ \E e \in EdgeEdits : edit = EditOf("upsert_edge", e)
                               \/ \E e \in EdgeEdits : edit = EditOf("remove_edge", EdgeId(e))
                               \/ \E c \in Contracts : edit = EditOf("replace_contracts", c)
    BY DEF Operations
  <2> QED BY <1>8, <2>1, <2>2, <2>3, <2>4, <2>5, <2>6, <2>7
<1>16. changes.node = changes["node"] /\ changes.edge = changes["edge"]
  OBVIOUS
<1> QED BY <1>1, <1>2, <1>3, <1>6, <1>7, <1>14, <1>15, <1>16 DEF ChangesAccountForEdits, Only

\* What is published runs: all its nodes get done, each input has one value, writers of one
\* file are ordered, and its cost is the one shown and within the limit (validate.ts, graph.ts).
THEOREM DocumentsRun == EditorSpec => []DocumentsCanBeRun
<1> QED BY EditorInvariant, ValidCanBeRun, PTL

\* The changes shown of an edit are of what it names, and there are some unless nothing changed
\* or a thing that the contracts name twice is reported (semantic-diff.ts, editor.ts).
THEOREM EditsAreAccounted == EditorSpec => []ChangesAccountForEdits
<1> QED BY EditorInvariant, EditsAccount, PTL
=============================================================================
