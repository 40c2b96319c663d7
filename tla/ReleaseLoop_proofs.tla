------------------------- MODULE ReleaseLoop_proofs -------------------------
(***************************************************************************)
(* Releases and repair rounds, for any branches, verdicts, promoters and   *)
(* policy.                                                                 *)
(*                                                                         *)
(* A careful promoter is safe because the generation it expects stands for *)
(* the active branch it has read: generations only grow, and the branch    *)
(* changes only with the generation (ReadingsAreCurrent).  A round counts  *)
(* each of its targets, and a refused request counts without granting, so  *)
(* the rounds of a finding never exceed its occurrences (RoundsAreCounted).*)
(***************************************************************************)
EXTENDS ReleaseLoop, FiniteSetTheorems, TLAPS

\* The bundle of a branch is about that branch; one that passes is about its product.
EvidenceIsOwn ==
  \A b \in Branches : evidence[b] # NoBundle =>
    /\ b \in branches
    /\ evidence[b].branch = b
    /\ evidence[b].result.outcome = "passed" => evidence[b].result.content = content[b]

\* What a promoter holds is what is stored, and its generation stands for the branch
\* it compares with.
ReadingsAreCurrent ==
  \A p \in Promoters : call[p].at = "promote" =>
    /\ call[p].candidate.branch \in branches
    /\ call[p].candidate = evidence[call[p].candidate.branch]
    /\ p \notin Careless =>
         /\ call[p].expected <= pointer.generation
         /\ call[p].expected = pointer.generation => call[p].baseline = evidence[pointer.branch]

RoundsAreCounted ==
  /\ Len(granted) = round
  /\ \A f \in FindingIds : Cardinality(Targeting(f)) <= occurrences[f]

IInv == TypeOK /\ EvidenceIsOwn /\ ReadingsAreCurrent /\ RoundsAreCounted /\ ReleasedWereGranted

-----------------------------------------------------------------------------
LEMMA InitIInv == Init => IInv
<1> SUFFICES ASSUME Init PROVE IInv
  OBVIOUS
<1> USE DEF Init, RepairInit, Idle
<1>1. TypeOK
  BY ReleaseAssumption, RepairAssumption, FindingAssumption DEF TypeOK, RepairTypeOK
<1>2. EvidenceIsOwn /\ ReadingsAreCurrent /\ ReleasedWereGranted
  BY DEF EvidenceIsOwn, ReadingsAreCurrent, ReleasedWereGranted
<1>3. RoundsAreCounted
  <2>1. \A f \in FindingIds : Targeting(f) = {}
    BY DEF Targeting
  <2>2. Len(granted) = round /\ \A f \in FindingIds : occurrences[f] = 0
    OBVIOUS
  <2>3. \A f \in FindingIds : Cardinality(Targeting(f)) = 0
    BY <2>1, FS_EmptySet, Zenon
  <2> QED BY <2>2, <2>3 DEF RoundsAreCounted
<1> QED BY <1>1, <1>2, <1>3 DEF IInv

-----------------------------------------------------------------------------
\* A verdict about a product, decoded or not, is a result about it.
LEMMA DecodedResult ==
  ASSUME NEW c \in Contents, NEW result \in Verdicts(c)
  PROVE  result \in Result /\ result.content = c
<1>1. \A id \in FindingIds, class \in {"policy_violation", "harness_defect"} :
        /\ FailureOutput(id, class, c) \in Result
        /\ FailureOutput(id, class, c).content = c
  BY DEF FailureOutput, Result, Finding, Gate, NoFinding, Classes, Severities
<1>2. CASE result = Undecodable(c)
  BY <1>1, <1>2, FindingAssumption DEF Undecodable
<1>3. ASSUME NEW output \in Outputs, NEW exitedZero \in BOOLEAN,
             result = DecodeOutput(output, exitedZero, c)
      PROVE  result \in Result /\ result.content = c
  BY <1>1, <1>3, ReleaseAssumption, FindingAssumption DEF DecodeOutput
<1> QED BY <1>2, <1>3 DEF Verdicts

LEMMA TargetingIsFinite ==
  ASSUME RepairTypeOK, NEW f \in FindingIds
  PROVE  IsFiniteSet(Targeting(f))
<1>1. Len(granted) \in Int /\ Targeting(f) \in SUBSET (1..Len(granted))
  BY DEF Targeting, RepairTypeOK
<1>2. IsFiniteSet(1..Len(granted))
  BY <1>1, FS_Interval
<1> QED BY <1>1, <1>2, FS_Subset

\* A repair keeps the types and the counts.
LEMMA AuthorizeStep ==
  ASSUME RepairTypeOK, RoundsAreCounted,
         NEW findings \in [FindingIds -> Finding], NEW role \in Roles, NEW writes \in SUBSET Paths,
         Authorize(findings, role, writes)
  PROVE  /\ RepairTypeOK' /\ RoundsAreCounted'
         /\ Len(granted') >= Len(granted)
         /\ \A i \in 1..Len(granted) : granted'[i] = granted[i]
<1> DEFINE counted == Counted(findings, role, writes)
           allowed == UNION {AllowedWrites(findings[f]) : f \in Open(findings)}
<1>1. \A f \in FindingIds : occurrences'[f] = IF f \in counted THEN occurrences[f] + 1 ELSE occurrences[f]
  BY DEF Authorize
<1>2. \A f \in counted : f \in FindingIds /\ occurrences[f] + 1 <= MaxRepeatedFinding
  <2>1. \A f \in counted : f \in Open(findings) /\ f \in FindingIds
    BY DEF Counted, Open, WithStatus
  <2>2. \A f \in counted : f \notin Refused(findings, role, writes)
    <3> SUFFICES ASSUME NEW f \in counted, f \in Refused(findings, role, writes) PROVE FALSE
      OBVIOUS
    <3>1. f < f
      BY DEF Counted
    <3>2. f \in Nat
      BY <2>1, FindingAssumption
    <3> HIDE DEF counted
    <3> QED BY <3>1, <3>2
  <2> QED BY <2>1, <2>2, RepairAssumption DEF Refused, RepeatedTooOften, RepairTypeOK
<1>3. occurrences' \in [FindingIds -> 0..MaxRepeatedFinding]
  BY <1>2, RepairAssumption DEF Authorize, RepairTypeOK
<1>4. CASE Refused(findings, role, writes) # {}
  <2>1. UNCHANGED <<round, granted>>
    BY <1>4 DEF Authorize
  <2>2. \A f \in FindingIds : Targeting(f)' = Targeting(f) /\ IsFiniteSet(Targeting(f))
    BY <2>1, TargetingIsFinite DEF Targeting
  <2>3. RepairTypeOK'
    BY <2>1, <1>3 DEF RepairTypeOK
  <2>4. \A f \in FindingIds : Cardinality(Targeting(f)) \in Nat /\ occurrences'[f] >= occurrences[f]
    BY <2>2, <1>1, FS_CardinalityType, RepairAssumption DEF RepairTypeOK
  <2>5. RoundsAreCounted'
    BY <2>1, <2>2, <2>4, <1>3, RepairAssumption DEF RoundsAreCounted, RepairTypeOK
  <2> QED BY <2>1, <2>3, <2>5 DEF RepairTypeOK
<1>5. CASE Refused(findings, role, writes) = {}
  <2>1. round' = round + 1 /\ granted' = Append(granted, [targets |-> Open(findings), allowed |-> allowed])
    BY <1>5 DEF Authorize, Grant
  <2>2. [targets |-> Open(findings), allowed |-> allowed] \in Round
    BY DEF Round, Open, WithStatus, AllowedWrites, Finding
  <2>3. counted = Open(findings)
    BY <1>5 DEF Counted
  <2>4. RepairTypeOK'
    BY <2>1, <2>2, <1>3, RepairAssumption DEF RepairTypeOK, Authorize
  <2>5. /\ Len(granted') = Len(granted) + 1
        /\ \A i \in 1..Len(granted) : granted'[i] = granted[i]
        /\ granted'[Len(granted) + 1].targets = Open(findings)
    BY <2>1, <2>2 DEF RepairTypeOK
  <2>6. ASSUME NEW f \in FindingIds PROVE Cardinality(Targeting(f)') <= occurrences'[f]
    <3>1. Targeting(f) \subseteq 1..Len(granted) /\ IsFiniteSet(Targeting(f))
      BY TargetingIsFinite DEF Targeting
    <3>2. Targeting(f)' = IF f \in Open(findings) THEN Targeting(f) \cup {Len(granted) + 1}
                          ELSE Targeting(f)
      BY <2>5 DEF Targeting, RepairTypeOK
    <3>3. Cardinality(Targeting(f)) \in Nat
      BY <3>1, FS_CardinalityType
    <3>4. Cardinality(Targeting(f) \cup {Len(granted) + 1}) <= Cardinality(Targeting(f)) + 1
      <4>1. Cardinality(Targeting(f) \cup {Len(granted) + 1}) =
              IF Len(granted) + 1 \in Targeting(f) THEN Cardinality(Targeting(f))
              ELSE Cardinality(Targeting(f)) + 1
        BY <3>1, FS_AddElement, Zenon
      <4> QED BY <4>1, <3>3
    <3>5. Cardinality(Targeting(f)) <= occurrences[f] /\ occurrences[f] \in Nat
      BY RepairAssumption DEF RoundsAreCounted, RepairTypeOK
    <3>6. Cardinality(Targeting(f) \cup {Len(granted) + 1}) \in Nat
      BY <3>1, FS_AddElement, FS_CardinalityType
    <3> QED BY <3>2, <3>3, <3>4, <3>5, <3>6, <1>1, <2>3
  <2>7. RoundsAreCounted'
    BY <2>1, <2>5, <2>6 DEF RoundsAreCounted, RepairTypeOK
  <2> QED BY <2>4, <2>5, <2>7 DEF RepairTypeOK
<1> QED BY <1>4, <1>5

-----------------------------------------------------------------------------
LEMMA TypeStep == IInv /\ [Next]_vars => TypeOK'
<1> SUFFICES ASSUME IInv, [Next]_vars PROVE TypeOK'
  OBVIOUS
<1> USE DEF IInv
<1>1. ASSUME NEW b \in Branches, NEW parent \in Branches, CreateRevision(b, parent) PROVE TypeOK'
  BY <1>1 DEF CreateRevision, TypeOK, repairVars, RepairTypeOK
<1>2. ASSUME NEW b \in Branches, NEW v \in Verifiers, Verify(b, v) PROVE TypeOK'
  <2>1. PICK result \in Verdicts(content[b]) :
          evidence' = [evidence EXCEPT ![b] = [branch |-> b, verifier |-> v,
                                               required |-> RequiredOf[v], result |-> result]]
    BY <1>2 DEF Verify
  <2>2. content[b] \in Contents
    BY DEF TypeOK
  <2>3. result \in Result
    BY <2>2, DecodedResult
  <2>4. [branch |-> b, verifier |-> v, required |-> RequiredOf[v], result |-> result] \in Bundle
    BY <2>3, ReleaseAssumption DEF Bundle
  <2>5. evidence' \in [Branches -> Bundle \cup {NoBundle}]
    BY <2>1, <2>4 DEF TypeOK
  <2> QED BY <1>2, <2>5 DEF Verify, TypeOK, repairVars, RepairTypeOK
<1>3. ASSUME NEW role \in Roles, NEW writes \in SUBSET Paths, Repair(role, writes) PROVE TypeOK'
  <2>1. evidence[pointer.branch].result.findings \in [FindingIds -> Finding]
    BY <1>3 DEF Repair, Verified, TypeOK, Bundle, Result
  <2>2. RepairTypeOK /\ Authorize(evidence[pointer.branch].result.findings, role, writes)
    BY <1>3 DEF Repair, TypeOK
  <2>3. RepairTypeOK' /\ Len(granted') >= Len(granted)
    BY <2>1, <2>2, AuthorizeStep
  <2>4. Len(granted) \in Nat /\ Len(granted') \in Nat
    BY <2>2, <2>3 DEF RepairTypeOK
  <2> QED BY <1>3, <2>3, <2>4 DEF Repair, releaseVars, TypeOK
<1>4. ASSUME NEW p \in Promoters, NEW b \in Branches, NEW base \in Branches, NEW i \in 1..MaxRounds,
             Prepare(p, b, base, i)
      PROVE  TypeOK'
  <2>1. evidence[b] \in Bundle /\ evidence[base] \in Bundle /\ NoBundle \notin {evidence[b], evidence[base]}
    BY <1>4 DEF Prepare, Verified, TypeOK
  <2>2. call'[p] = [at |-> "promote", baseline |-> evidence[base], candidate |-> evidence[b],
                    expected |-> pointer.generation, round |-> i]
        /\ \A q \in Promoters : q # p => call'[q] = call[q]
    BY <1>4 DEF Prepare, TypeOK
  <2> QED BY <1>4, <2>1, <2>2 DEF Prepare, TypeOK, repairVars, RepairTypeOK
<1>5. ASSUME NEW p \in Promoters, Promote(p) \/ PromoteFails(p) PROVE TypeOK'
  <2>1. Idle \in [at : {"idle", "promote"}, baseline : Bundle \cup {NoBundle},
                  candidate : Bundle \cup {NoBundle}, expected : 0..MaxGeneration,
                  round : 0..MaxRounds]
    BY ReleaseAssumption, RepairAssumption DEF Idle
  <2>2. CASE Promote(p)
    <3>1. call[p].candidate.branch \in branches
      BY <2>2 DEF Promote, ReadingsAreCurrent
    <3>2. pointer' \in [branch : branches', generation : 0..MaxGeneration] /\ released' \subseteq branches'
      BY <2>2, <3>1, ReleaseAssumption DEF Promote, CompareAndSwap, TypeOK
    <3> QED BY <2>1, <2>2, <3>2 DEF Promote, Done, Idle, TypeOK, repairVars, RepairTypeOK
  <2>3. CASE PromoteFails(p)
    BY <2>1, <2>3 DEF PromoteFails, Done, Idle, TypeOK, repairVars, RepairTypeOK
  <2> QED BY <1>5, <2>2, <2>3
<1>6. ASSUME NEW b \in Branches, Rollback(b) PROVE TypeOK'
  BY <1>6, ReleaseAssumption DEF Rollback, CompareAndSwap, TypeOK, repairVars, RepairTypeOK
<1>7. CASE UNCHANGED vars
  BY <1>7 DEF vars, releaseVars, repairVars, TypeOK, RepairTypeOK
<1> QED BY <1>1, <1>2, <1>3, <1>4, <1>5, <1>6, <1>7 DEF Next

LEMMA NextIInv == IInv /\ [Next]_vars => IInv'
<1> SUFFICES ASSUME IInv, [Next]_vars PROVE IInv'
  OBVIOUS
<1>1. TypeOK'
  BY TypeStep
<1> USE DEF IInv
<1>2. ASSUME UNCHANGED repairVars PROVE RoundsAreCounted'
  BY <1>2 DEF RoundsAreCounted, Targeting, repairVars
<1>3. ASSUME NEW b \in Branches, NEW parent \in Branches, CreateRevision(b, parent) PROVE IInv'
  <2>1. EvidenceIsOwn' /\ ReadingsAreCurrent' /\ ReleasedWereGranted'
    BY <1>3 DEF CreateRevision, EvidenceIsOwn, ReadingsAreCurrent, ReleasedWereGranted, repairVars
  <2> QED BY <1>1, <1>2, <1>3, <2>1 DEF CreateRevision
<1>4. ASSUME NEW b \in Branches, NEW v \in Verifiers, Verify(b, v) PROVE IInv'
  <2>1. PICK result \in Verdicts(content[b]) :
          evidence' = [evidence EXCEPT ![b] = [branch |-> b, verifier |-> v,
                                               required |-> RequiredOf[v], result |-> result]]
    BY <1>4 DEF Verify
  <2>2. result.content = content[b]
    <3>1. content[b] \in Contents
      BY DEF TypeOK
    <3> QED BY <3>1, DecodedResult
  <2>3. /\ evidence'[b].branch = b /\ evidence'[b].result.content = content[b]
        /\ \A other \in Branches : other # b => evidence'[other] = evidence[other]
    BY <2>1, <2>2 DEF TypeOK
  <2>4. EvidenceIsOwn'
    BY <1>4, <2>3 DEF Verify, EvidenceIsOwn
  <2>5. ReadingsAreCurrent'
    <3>1. ASSUME NEW p \in Promoters, call[p].at = "promote"
          PROVE /\ call[p].candidate = evidence'[call[p].candidate.branch]
                /\ p \notin Careless /\ call[p].expected = pointer.generation
                     => call[p].baseline = evidence'[pointer.branch]
      BY <1>4, <2>3, <3>1 DEF ReadingsAreCurrent, Verify, TypeOK
    <3> QED BY <1>4, <3>1 DEF ReadingsAreCurrent, Verify
  <2>6. ReleasedWereGranted'
    <3>1. \A r \in released : r \in Branches /\ evidence'[r] = evidence[r]
      BY <1>4, <2>3 DEF ReleasedWereGranted, Verify, TypeOK
    <3> QED BY <1>4, <3>1 DEF ReleasedWereGranted, Verify, repairVars
  <2> QED BY <1>1, <1>2, <1>4, <2>4, <2>5, <2>6 DEF Verify
<1>5. ASSUME NEW role \in Roles, NEW writes \in SUBSET Paths, Repair(role, writes) PROVE IInv'
  <2>1. evidence[pointer.branch].result.findings \in [FindingIds -> Finding]
    BY <1>5 DEF Repair, Verified, TypeOK, Bundle, Result
  <2>2. /\ RoundsAreCounted' /\ Len(granted') >= Len(granted)
        /\ \A i \in 1..Len(granted) : granted'[i] = granted[i]
    BY <1>5, <2>1, AuthorizeStep DEF Repair, TypeOK
  <2>3. Len(granted) \in Nat /\ Len(granted') \in Nat
    BY <1>1 DEF TypeOK, RepairTypeOK
  <2>4. ReleasedWereGranted'
    <3>1. ASSUME NEW b \in released
          PROVE  \E i \in 1..Len(granted') :
                   /\ evidence[b].result.writes \subseteq granted'[i].allowed
                   /\ granted'[i].targets \subseteq Settled(evidence[b].result.findings)
      <4>1. PICK i \in 1..Len(granted) :
               /\ evidence[b].result.writes \subseteq granted[i].allowed
               /\ granted[i].targets \subseteq Settled(evidence[b].result.findings)
        BY DEF ReleasedWereGranted
      <4>2. i \in 1..Len(granted') /\ granted'[i] = granted[i]
        BY <2>2, <2>3
      <4> QED BY <4>1, <4>2
    <3> QED BY <1>5, <3>1 DEF Repair, releaseVars, ReleasedWereGranted
  <2>5. EvidenceIsOwn' /\ ReadingsAreCurrent'
    BY <1>5 DEF Repair, releaseVars, EvidenceIsOwn, ReadingsAreCurrent
  <2> QED BY <1>1, <2>2, <2>4, <2>5
<1>6. ASSUME NEW p \in Promoters, NEW b \in Branches, NEW base \in Branches, NEW i \in 1..MaxRounds,
             Prepare(p, b, base, i)
      PROVE  IInv'
  <2>1. call'[p] = [at |-> "promote", baseline |-> evidence[base], candidate |-> evidence[b],
                    expected |-> pointer.generation, round |-> i]
        /\ \A q \in Promoters : q # p => call'[q] = call[q]
    BY <1>6 DEF Prepare, TypeOK
  <2>2. evidence[b].branch = b /\ b \in branches /\ pointer.generation \in Int
    BY <1>6, ReleaseAssumption DEF Prepare, Verified, EvidenceIsOwn, TypeOK
  <2>3. ReadingsAreCurrent'
    BY <1>6, <2>1, <2>2 DEF Prepare, ReadingsAreCurrent
  <2>4. EvidenceIsOwn' /\ ReleasedWereGranted'
    BY <1>6 DEF Prepare, EvidenceIsOwn, ReleasedWereGranted, repairVars
  <2> QED BY <1>1, <1>2, <1>6, <2>3, <2>4 DEF Prepare
<1>7. ASSUME pointer'.generation = pointer.generation + 1, UNCHANGED <<branches, content, evidence>>,
             \A p \in Promoters : call'[p] \in {call[p], Idle}
      PROVE  EvidenceIsOwn' /\ ReadingsAreCurrent'
  <2>1. \A p \in Promoters : call[p].expected \in Int /\ pointer.generation \in Int
    BY DEF TypeOK
  <2> QED BY <1>7, <2>1 DEF EvidenceIsOwn, ReadingsAreCurrent, Idle
<1>8. ASSUME NEW p \in Promoters, Promote(p) PROVE IInv'
  <2>1. EvidenceIsOwn' /\ ReadingsAreCurrent'
    BY <1>7, <1>8 DEF Promote, CompareAndSwap, Done, TypeOK
  <2>2. LET b == call[p].candidate.branch
        IN  /\ b \in branches /\ evidence[b] = call[p].candidate /\ evidence[b] # NoBundle
            /\ b \in Branches /\ call[p].round \in 1..Len(granted)
    BY <1>8 DEF Promote, ReadingsAreCurrent, TypeOK
  <2>3. LET b == call[p].candidate.branch
        IN  /\ evidence[b].result.outcome = "passed"
            /\ evidence[b].result.content = content[b]
            /\ \A g \in RequiredGates : Passed(evidence[b].result, g)
            /\ evidence[b].result.writes \subseteq granted[call[p].round].allowed
            /\ granted[call[p].round].targets \subseteq Settled(evidence[b].result.findings)
    BY <1>8, <2>2 DEF Promote, Accepted, EvaluateMonotonicCandidate, OutcomeNotPassed,
         RequiredGateNotPassed, UnauthorizedWrite, TargetUnresolved, EvidenceIsOwn
  <2>4. ReleasedWereGranted'
    BY <1>8, <2>2, <2>3 DEF Promote, ReleasedWereGranted, repairVars
  <2> QED BY <1>1, <1>2, <1>8, <2>1, <2>4 DEF Promote
<1>9. ASSUME NEW p \in Promoters, PromoteFails(p) PROVE IInv'
  <2>1. \A q \in Promoters : call'[q] \in {call[q], Idle}
    BY <1>9 DEF PromoteFails, Done, TypeOK
  <2>2. UNCHANGED <<branches, content, evidence, pointer, released, repairVars>>
    BY <1>9 DEF PromoteFails
  <2>3. ReadingsAreCurrent'
    BY <2>1, <2>2 DEF ReadingsAreCurrent, Idle
  <2>4. EvidenceIsOwn'
    BY <2>2 DEF EvidenceIsOwn
  <2>5. ReleasedWereGranted'
    BY <2>2 DEF ReleasedWereGranted, repairVars
  <2> QED BY <1>1, <1>2, <1>9, <2>3, <2>4, <2>5 DEF PromoteFails
<1>10. ASSUME NEW b \in Branches, Rollback(b) PROVE IInv'
  <2>1. EvidenceIsOwn' /\ ReadingsAreCurrent'
    BY <1>7, <1>10 DEF Rollback, CompareAndSwap, TypeOK
  <2>2. ReleasedWereGranted'
    BY <1>10 DEF Rollback, ReleasedWereGranted, repairVars
  <2> QED BY <1>1, <1>2, <1>10, <2>1, <2>2 DEF Rollback
<1>11. CASE UNCHANGED vars
  <2>1. EvidenceIsOwn' /\ ReadingsAreCurrent' /\ ReleasedWereGranted' /\ UNCHANGED repairVars
    BY <1>11 DEF vars, releaseVars, EvidenceIsOwn, ReadingsAreCurrent, ReleasedWereGranted, repairVars
  <2> QED BY <1>1, <1>2, <2>1
<1> QED BY <1>3, <1>4, <1>5, <1>6, <1>8, <1>9, <1>10, <1>11 DEF Next

LEMMA Invariance == Spec => []IInv
<1> QED BY InitIInv, NextIInv, PTL DEF Spec

-----------------------------------------------------------------------------
\* Branches, evidence, pointer, calls and rounds keep their types.
THEOREM TypeCorrect == Spec => []TypeOK
<1>1. IInv => TypeOK
  BY DEF IInv
<1> QED BY <1>1, Invariance, PTL

\* BoundedRepairController never grants more rounds, or repeats a finding in more of
\* them, than its policy allows.
THEOREM RepairIsBounded == Spec => []RoundsAreBounded
<1>1. IInv => RoundsAreBounded
  <2> SUFFICES ASSUME IInv PROVE RoundsAreBounded
    OBVIOUS
  <2>1. ASSUME NEW f \in FindingIds
        PROVE  /\ Cardinality(Targeting(f)) \in Nat
               /\ Cardinality(Targeting(f)) <= occurrences[f]
               /\ occurrences[f] \in 0..MaxRepeatedFinding
    BY TargetingIsFinite, FS_CardinalityType DEF IInv, TypeOK, RepairTypeOK, RoundsAreCounted
  <2>2. \A f \in FindingIds : Cardinality(Targeting(f)) <= MaxRepeatedFinding
    BY <2>1, RepairAssumption
  <2> QED BY <2>2, RepairAssumption DEF IInv, RoundsAreCounted, RoundsAreBounded, TypeOK, RepairTypeOK
<1> QED BY <1>1, Invariance, PTL

\* A branch released by VerifiedCandidatePromoter passed on its own product, within a
\* granted round.
THEOREM ReleasesWereGranted == Spec => []ReleasedWereGranted
<1>1. IInv => ReleasedWereGranted
  BY DEF IInv
<1> QED BY <1>1, Invariance, PTL

\* A promoter that compares with the active branch it has read releases nothing worse,
\* whatever moved the pointer in between: then its swap fails.
THEOREM CarefulPromotion == Spec => CarefulNeverRegresses
<1>1. ASSUME IInv, NEW p \in Promoters \ Careless, Promote(p)
      PROVE  /\ evidence[pointer.branch] # NoBundle
             /\ NoWorse(evidence[pointer.branch], evidence[pointer'.branch])
  <2>1. /\ call[p].baseline = evidence[pointer.branch]
        /\ call[p].candidate = evidence[pointer'.branch]
        /\ call[p].baseline # NoBundle
    BY <1>1 DEF IInv, ReadingsAreCurrent, Promote, CompareAndSwap, TypeOK
  <2>2. NoWorse(call[p].baseline, call[p].candidate)
    BY <1>1 DEF Promote, Accepted, EvaluateMonotonicCandidate, NoWorse, ScoreNotImproved,
         RequiredEvidenceLost, OpenFindingDisappeared
  <2> QED BY <2>1, <2>2
<1>2. IInv /\ [Next]_vars =>
        [\A p \in Promoters \ Careless :
           Promote(p) => /\ evidence[pointer.branch] # NoBundle
                         /\ NoWorse(evidence[pointer.branch], evidence[pointer'.branch])]_vars
  BY <1>1
<1> QED BY <1>2, Invariance, PTL DEF Spec, CarefulNeverRegresses

-----------------------------------------------------------------------------
(* Releases and the rounds behind them (repair.ts, promotion.ts).          *)
THEOREM ReleasesAreBounded == Spec => []ReleasesWithinLimits
BY RepairIsBounded, ReleasesWereGranted, PTL DEF ReleasesWithinLimits
=============================================================================
