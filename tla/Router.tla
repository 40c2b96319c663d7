------------------------------- MODULE Router -------------------------------
(***************************************************************************)
(* The value router of packages/router: the features of a task, the mode   *)
(* and checkpoint it is routed to, the template of the mode, and the       *)
(* observations of what it would have chosen.                              *)
(*                                                                         *)
(* Features between 0 and 1 are whole numbers of 168ths, which makes the   *)
(* inputs below exact, and weights are tenths.  The code adds the same     *)
(* terms as floating point numbers: a gain that is exactly 1 or 3 may fall *)
(* on either side there.                                                   *)
(***************************************************************************)
EXTENDS Integers, FiniteSets

CONSTANTS
  Tokens, Counts, Seconds, Units, Budgets, \* values of the features of a task
  ObservationIds,
  MaxObservations \* bound: observations recorded

Unit == 168

RoutingFeatures ==
  [estimatedContextTokens : Tokens, independentBranchCount : Counts, approvalCount : Counts,
   expectedDurationSec : Seconds, sharedContextCoupling : Units, recoveryNeed : Units,
   objectiveVerifierCoverage : Units, maxBudgetUsd : Budgets, scopeClosed : BOOLEAN]

ASSUME RouterAssumption ==
  /\ Tokens \cup Counts \cup Seconds \cup Budgets \subseteq Int
  /\ Units \subseteq Int /\ MaxObservations \in Nat

VARIABLES
  task,        \* the features of the task at hand
  observations \* InMemoryShadowRoutingStore

routerVars == <<task, observations>>

-----------------------------------------------------------------------------
\* extractRoutingFeatures

MaxOf(a, b) == IF a > b THEN a ELSE b
Clamp(n) == IF n < 0 THEN 0 ELSE IF n > Unit THEN Unit ELSE n

\* unit and nonNegative accept the task.
ValidFeatures(f) ==
  /\ \A n \in {f.estimatedContextTokens, f.independentBranchCount, f.approvalCount,
               f.expectedDurationSec, f.maxBudgetUsd} : n >= 0
  /\ \A n \in {f.sharedContextCoupling, f.recoveryNeed, f.objectiveVerifierCoverage} : n \in 0..Unit

Parallelism(f) == Clamp((MaxOf(0, f.independentBranchCount - 1) * Unit) \div 7)
DurationComplexity(f) == Clamp((f.expectedDurationSec * Unit) \div 3600)
ContextComplexity(f) == Clamp((f.estimatedContextTokens * Unit) \div 100000)

Complexity(f) == MaxOf(ContextComplexity(f), MaxOf(DurationComplexity(f), Parallelism(f)))

\* Variant: the complexity itself is counted against a workflow.
HighTaskComplexity(f) == Clamp(Complexity(f))

LowTaskComplexity(f) == Clamp(Unit - Complexity(f))

\* Reuse, side effects and latency enter as they are; they are 0 here.
NormalizedRoutingFeatures(f) ==
  [durabilityNeed |-> MaxOf(f.recoveryNeed, DurationComplexity(f)),
   independentParallelism |-> Parallelism(f),
   independentVerifiability |-> f.objectiveVerifierCoverage,
   auditOrApprovalNeed |-> Clamp((f.approvalCount * Unit) \div 3),
   sharedContextCoupling |-> f.sharedContextCoupling,
   coordinationOverhead |->
     Clamp((f.sharedContextCoupling * Parallelism(f)) \div Unit
           + (MaxOf(0, f.independentBranchCount - 4) * Unit) \div 8),
   lowTaskComplexity |-> LowTaskComplexity(f)]

-----------------------------------------------------------------------------
\* routeTask

\* The weights, in tenths, times the features: the gain in tenths of 168ths.
WorkflowGain(normalized) ==
  20 * normalized.durabilityNeed
    + 18 * normalized.independentParallelism
    + 18 * normalized.independentVerifiability
    + 15 * normalized.auditOrApprovalNeed
    - 20 * normalized.sharedContextCoupling
    - 15 * normalized.coordinationOverhead
    - 10 * normalized.lowTaskComplexity

Checkpoint(gain) ==
  IF gain < 10 * Unit THEN "none" ELSE IF gain < 30 * Unit THEN "minimal" ELSE "durable"

RouteTask(f) ==
  LET checkpoint == IF f.maxBudgetUsd = 0 THEN "none"
                    ELSE Checkpoint(WorkflowGain(NormalizedRoutingFeatures(f)))
  IN [checkpoint |-> checkpoint,
      mode |-> IF checkpoint # "durable" THEN "DIRECT"
               ELSE IF f.scopeClosed THEN "CONTRACT" ELSE "EXPLORER"]

\* templates.ts: the nodes of a mode's template, whether they are durable, the
\* edges between them and how often a round may be repeated.
TemplateForMode(mode) ==
  CASE mode = "DIRECT" ->
         [nodes |-> {"executor", "verifier"}, durable |-> FALSE,
          edges |-> {<<"executor", "verifier">>}, maxRounds |-> 1, maxBranches |-> 1]
    [] mode = "CONTRACT" ->
         [nodes |-> {"contract_compiler", "executor", "verifier", "repair"}, durable |-> TRUE,
          edges |-> {<<"contract_compiler", "executor">>, <<"executor", "verifier">>,
                     <<"verifier", "repair">>, <<"repair", "verifier">>},
          maxRounds |-> 3, maxBranches |-> 1]
    [] mode = "EXPLORER" ->
         [nodes |-> {"planner", "branch", "synthesizer", "verifier"}, durable |-> TRUE,
          edges |-> {<<"planner", "branch">>, <<"branch", "synthesizer">>, <<"synthesizer", "verifier">>},
          maxRounds |-> 4, maxBranches |-> 8]

-----------------------------------------------------------------------------
\* InMemoryShadowRoutingStore.record: what the router would have chosen is kept
\* beside what the operator chose, and the operator's choice is what is run.
Record(id, operatorMode) ==
  /\ Cardinality(observations) < MaxObservations
  /\ \A o \in observations : o.id # id
  /\ ValidFeatures(task)
  /\ observations' = observations \cup
       {[id |-> id, recommended |-> RouteTask(task).mode, operator |-> operatorMode, executed |-> operatorMode]}
  /\ UNCHANGED task

RouterInit == task \in RoutingFeatures /\ observations = {}
RouterNext == \E id \in ObservationIds, mode \in {"DIRECT", "CONTRACT", "EXPLORER"} : Record(id, mode)
RouterSpec == RouterInit /\ [][RouterNext]_routerVars

-----------------------------------------------------------------------------
Rank(checkpoint) == CASE checkpoint = "none" -> 0 [] checkpoint = "minimal" -> 1 [] checkpoint = "durable" -> 2

\* A task that takes longer, needs recovery more, is checked better or asks for
\* more approvals, and is otherwise the same, is never given less durability,
\* although duration alone enters two features that pull against each other;
\* and a template whose nodes are durable is chosen exactly when the checkpoint
\* is (rules.ts:35, features.ts:62).
DecisionsAreMonotone ==
  LET route == RouteTask(task)
      AtLeast(field, values) ==
        \A n \in values :
          n >= task[field] /\ ValidFeatures([task EXCEPT ![field] = n]) =>
            Rank(RouteTask([task EXCEPT ![field] = n]).checkpoint) >= Rank(route.checkpoint)
  IN ValidFeatures(task) =>
       /\ AtLeast("expectedDurationSec", Seconds)
       /\ AtLeast("approvalCount", Counts)
       /\ AtLeast("recoveryNeed", Units)
       /\ AtLeast("objectiveVerifierCoverage", Units)
       /\ (TemplateForMode(route.mode).durable <=> route.checkpoint = "durable")
=============================================================================
