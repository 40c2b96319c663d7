--------------------------- MODULE EvidenceGuard ----------------------------
(***************************************************************************)
(* Evidence bundles of one tenant and run, what a failing verifier leaves  *)
(* in them, who may repair a finding, and the guard that compares a        *)
(* candidate's bundle with its baseline's before a release.                *)
(*                                                                         *)
(* A write pattern stands for the paths it matches; the digests, identity  *)
(* and requirement of a finding that never differ between two bundles with *)
(* the same class and severity are left out, and so are the tenant and run *)
(* comparisons, which are between equal values here.                       *)
(***************************************************************************)
EXTENDS Integers, FiniteSets, FiniteSetsExt

CONSTANTS
  FindingIds,      \* finding ids, as their rank in the UTF-16 order
  HarnessFailure,  \* the finding of a verifier that gave no usable verdict
  PolicyFailure,   \* the finding of a verdict on another product
  GateIds, EvidenceIds, Paths, Contents, Verifiers, Branches,
  RequiredGates,   \* policy.requiredGateIds
  MaxBlocking      \* policy.maxBlockingFindings

ASSUME FindingAssumption ==
  /\ FindingIds \subseteq Nat /\ IsFiniteSet(FindingIds)
  /\ {HarnessFailure, PolicyFailure} \subseteq FindingIds
ASSUME GuardAssumption == RequiredGates \subseteq GateIds /\ MaxBlocking \in Nat

Classes == {"product_defect", "test_contract_defect", "harness_defect", "infra_capacity",
            "policy_violation", "inconclusive"}
Severities == {"blocking", "high", "medium", "low"}
Roles == {"builder", "verifier", "operator", "policy_owner"}

\* A finding or a gate of a result; present is FALSE where the result has none.
Finding == [present : BOOLEAN, class : Classes, severity : Severities,
            status : {"open", "resolved", "waived"}, allowed : SUBSET Paths]
Gate == [status : {"passed", "failed", "error", "inconclusive", "absent"}, hard : BOOLEAN]

Result == [outcome : {"passed", "failed", "error", "inconclusive"}, content : Contents,
           findings : [FindingIds -> Finding], gates : [GateIds -> Gate],
           evidence : SUBSET EvidenceIds, marked : SUBSET EvidenceIds,  \* of them, marked required
           writes : SUBSET Paths, scopeViolations : Nat, withinLimits : BOOLEAN]
Bundle == [branch : Branches, verifier : Verifiers, required : SUBSET EvidenceIds,
           result : Result]

NoFinding == [present |-> FALSE, class |-> "inconclusive", severity |-> "low",
              status |-> "resolved", allowed |-> {}]

-----------------------------------------------------------------------------
(* VerifierWorker.run: the verdict that reaches the bundle.                *)

FailureOutput(id, class, content) ==
  [outcome |-> "error", content |-> content,
   findings |-> [f \in FindingIds |->
     IF f = id THEN [present |-> TRUE, class |-> class, severity |-> "blocking",
                     status |-> "open", allowed |-> {}]
     ELSE NoFinding],
   gates |-> [g \in GateIds |-> [status |-> "absent", hard |-> FALSE]],
   evidence |-> {}, marked |-> {}, writes |-> {},
   scopeViolations |-> IF class = "policy_violation" THEN 1 ELSE 0,
   withinLimits |-> TRUE]

\* Variant: the verdict is taken whatever product it is about.
DecodeAnyProduct(output, exitedZero, content) ==
  IF ~exitedZero /\ output.outcome = "passed"
  THEN FailureOutput(HarnessFailure, "harness_defect", content)
  ELSE output

\* A structured verdict counts if it is about this product and, when it passes, the
\* process agreed.
DecodeOutput(output, exitedZero, content) ==
  IF output.content # content
  THEN FailureOutput(PolicyFailure, "policy_violation", content)
  ELSE IF ~exitedZero /\ output.outcome = "passed"
  THEN FailureOutput(HarnessFailure, "harness_defect", content)
  ELSE output

Undecodable(content) == FailureOutput(HarnessFailure, "harness_defect", content)

-----------------------------------------------------------------------------
(* Findings                                                                *)

WithStatus(findings, S) == {f \in FindingIds : findings[f].present /\ findings[f].status \in S}
Open(findings) == WithStatus(findings, {"open"})
Settled(findings) == WithStatus(findings, {"resolved", "waived"})
OpenBlocking(findings) == {f \in Open(findings) : findings[f].severity = "blocking"}

SeverityWeight(severity) ==
  CASE severity = "blocking" -> 1000 [] severity = "high" -> 100
    [] severity = "medium" -> 10 [] OTHER -> 1

BlockingScore(findings) ==
  MapThenSumSet(LAMBDA f : SeverityWeight(findings[f].severity), Open(findings))

RequiredRole(class) ==
  CASE class = "product_defect" -> {"builder"}
    [] class = "test_contract_defect" -> {"verifier"}
    [] class \in {"harness_defect", "infra_capacity"} -> {"operator"}
    [] OTHER -> {}

\* The writes a repair of this class of finding may make.
AllowedWrites(finding) == IF finding.class = "infra_capacity" THEN {} ELSE finding.allowed

AuthorizeRepair(finding, role, writes) ==
  /\ role \in RequiredRole(finding.class)
  /\ writes \subseteq AllowedWrites(finding)

-----------------------------------------------------------------------------
(* evaluateMonotonicCandidate: a candidate passes when it commits none of  *)
(* the violations.  b and c are bundles, targets and writes the caller's   *)
(* policy.                                                                 *)

Passed(result, g) == result.gates[g].status = "passed"

VerifierChanged(b, c) == b.verifier # c.verifier
OutcomeNotPassed(c) == c.result.outcome # "passed"
HardGateRegression(b, c) ==
  \E g \in GateIds : b.result.gates[g].hard /\ Passed(b.result, g) /\ ~Passed(c.result, g)
RequiredGateNotPassed(c) == \E g \in RequiredGates : ~Passed(c.result, g)
FindingIdentityChanged(b, c) ==
  \E f \in FindingIds :
    LET before == b.result.findings[f]  after == c.result.findings[f]
    IN /\ before.present /\ after.present
       /\ <<before.class, before.severity>> # <<after.class, after.severity>>
OpenFindingDisappeared(b, c) ==
  \E f \in Open(b.result.findings) : ~c.result.findings[f].present
NewBlockingFinding(b, c) ==
  \E f \in OpenBlocking(c.result.findings) : ~b.result.findings[f].present
TargetUnresolved(c, targets) == ~(targets \subseteq Settled(c.result.findings))
ScopeViolationIncreased(b, c) == c.result.scopeViolations > b.result.scopeViolations
RequiredEvidenceLost(b, c) ==
  ~(b.required \cup b.result.marked \cup c.required \subseteq c.result.evidence)
UnauthorizedWrite(c, writes) == ~(c.result.writes \subseteq writes)
\* A policy may do without it (requireProductChange); none in the repository does.
NoOpCandidate(b, c) == c.result.content = b.result.content
ScoreNotImproved(b, c, targets) ==
  LET before == BlockingScore(b.result.findings)  after == BlockingScore(c.result.findings)
  IN after > before \/ (after = before /\ TargetUnresolved(c, targets))
BlockingLimitExceeded(c) == Cardinality(OpenBlocking(c.result.findings)) > MaxBlocking
LimitsExceeded(c) == ~c.result.withinLimits

EvaluateMonotonicCandidate(b, c, targets, writes) ==
  /\ ~VerifierChanged(b, c) /\ ~OutcomeNotPassed(c)
  /\ ~HardGateRegression(b, c) /\ ~RequiredGateNotPassed(c)
  /\ ~FindingIdentityChanged(b, c) /\ ~OpenFindingDisappeared(b, c)
  /\ ~NewBlockingFinding(b, c) /\ ~TargetUnresolved(c, targets)
  /\ ~ScopeViolationIncreased(b, c) /\ ~RequiredEvidenceLost(b, c)
  /\ ~UnauthorizedWrite(c, writes) /\ ~NoOpCandidate(b, c)
  /\ ~ScoreNotImproved(b, c, targets)
  /\ ~BlockingLimitExceeded(c) /\ ~LimitsExceeded(c)
=============================================================================
