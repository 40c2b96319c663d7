---------------------------- MODULE RepairRounds ----------------------------
(***************************************************************************)
(* BoundedRepairController: how many repair rounds a set of findings is    *)
(* given, and to whom.                                                     *)
(***************************************************************************)
EXTENDS EvidenceGuard, Sequences

CONSTANTS
  MaxRounds,          \* policy.maxRounds
  MaxRepeatedFinding  \* policy.maxRepeatedFinding

ASSUME RepairAssumption == MaxRounds \in Nat \ {0} /\ MaxRepeatedFinding \in Nat \ {0}

VARIABLES
  round,        \* rounds granted
  occurrences,  \* occurrences of each finding in requests
  granted       \* history: the granted rounds

repairVars == <<round, occurrences, granted>>

Round == [targets : SUBSET FindingIds, allowed : SUBSET Paths]

RepairTypeOK ==
  /\ round \in 0..MaxRounds
  /\ occurrences \in [FindingIds -> 0..MaxRepeatedFinding]
  /\ granted \in Seq(Round)

RepairInit ==
  /\ round = 0
  /\ occurrences = [f \in FindingIds |-> 0]
  /\ granted = <<>>

RepeatedTooOften(f) == occurrences[f] + 1 > MaxRepeatedFinding

\* Findings at which the loop over the open ones stops with an error.
Refused(findings, role, writes) ==
  {f \in Open(findings) : RepeatedTooOften(f) \/ ~AuthorizeRepair(findings[f], role, writes)}

\* The findings the loop has counted when it ends or throws: the open ones below
\* the first that is refused.
Counted(findings, role, writes) ==
  {f \in Open(findings) : \A g \in Refused(findings, role, writes) : f < g}

Grant(findings) ==
  /\ round' = round + 1
  /\ granted' = Append(granted,
       [targets |-> Open(findings),
        allowed |-> UNION {AllowedWrites(findings[f]) : f \in Open(findings)}])

Authorize(findings, role, writes) ==
  /\ round < MaxRounds
  /\ Open(findings) # {}
  /\ occurrences' = [f \in FindingIds |->
       IF f \in Counted(findings, role, writes) THEN occurrences[f] + 1 ELSE occurrences[f]]
  /\ IF Refused(findings, role, writes) = {}
     THEN Grant(findings)
     ELSE UNCHANGED <<round, granted>>

-----------------------------------------------------------------------------
Targeting(f) == {i \in 1..Len(granted) : f \in granted[i].targets}

\* The hard limits of m7-implementation-contract.md: no more rounds than allowed,
\* and no finding is the target of more rounds than it may be repeated, also when
\* requests are refused half-way through their findings.
RoundsAreBounded ==
  /\ Len(granted) <= MaxRounds
  /\ \A f \in FindingIds : Cardinality(Targeting(f)) <= MaxRepeatedFinding
=============================================================================
