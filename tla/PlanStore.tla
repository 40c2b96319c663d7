----------------------------- MODULE PlanStore -----------------------------
(***************************************************************************)
(* The versioned plan of packages/router/src/planner.ts and the workers    *)
(* that share it.  A worker reads the current version, picks the pending   *)
(* branches it can afford, revises the plan to say that they run, and      *)
(* later revises it again with what each branch found.  Between a read and *)
(* a revision other workers may have revised the plan: only the expected   *)
(* version stands between two workers and the same branch, for a branch    *)
(* that runs may be set to run.                                            *)
(*                                                                         *)
(* A gain is in tenths and a cost in dollars; the texts of a branch are    *)
(* left out.                                                               *)
(***************************************************************************)
EXTENDS Integers, Sequences, FiniteSets, SequencesExt

CONSTANTS
  Workers,
  BranchIds,     \* 1..n: the order of ids is the order of numbers
  Partitions,
  Evidence,      \* ids of evidence artifacts
  FirstBranches, \* the branches a plan is created with
  LaterBranches, \* sets of branches that a worker may add
  Budget,        \* what one worker may spend
  MaxBranches,   \* how many branches a worker selects at a time
  MinGain,
  MaxVersions    \* bound: versions of the plan

Statuses == {"pending", "running", "completed", "cancelled"}
PlanBranch ==
  [id : BranchIds, partition : Partitions, gain : -1..11, cost : -1..Budget + 1,
   status : Statuses, evidence : SUBSET Evidence]

ASSUME PlanAssumption ==
  /\ BranchIds \subseteq Int
  /\ \A branches \in {FirstBranches} \cup LaterBranches :
       branches \subseteq PlanBranch /\ IsFiniteSet(branches)
  /\ MaxBranches \in Nat /\ Budget \in Nat /\ MinGain \in 0..10

VARIABLES
  versions,  \* the versions of the plan, oldest first: each a set of branches
  held,      \* worker -> the version it has read, 0 for none
  running,   \* worker -> the branches it has set to run and not yet ended
  remaining  \* worker -> what it may still spend

planVars == <<versions, held, running, remaining>>

PlanTypeOK ==
  /\ versions \in Seq(SUBSET PlanBranch) /\ Len(versions) \in 1..MaxVersions
  /\ held \in [Workers -> 0..MaxVersions]
  /\ running \in [Workers -> SUBSET BranchIds]
  /\ remaining \in [Workers -> Int]

Ids(branches) == {b.id : b \in branches}

\* validateBranches and buildPlan: what is stored is whole, or nothing is.
WellFormed(branches) ==
  \A b \in branches :
    /\ \A c \in branches \ {b} : c.id # b.id /\ c.partition # b.partition
    /\ b.gain \in 0..10
    /\ b.cost >= 0

PlanInit ==
  /\ WellFormed(FirstBranches)
  /\ versions = <<FirstBranches>>
  /\ held = [w \in Workers |-> 0]
  /\ running = [w \in Workers |-> {}]
  /\ remaining = [w \in Workers |-> Budget]

GetPlan(w) ==
  /\ held' = [held EXCEPT ![w] = Len(versions)]
  /\ UNCHANGED <<versions, running, remaining>>

AllowedTransitions ==
  [pending |-> {"pending", "running", "cancelled"},
   running |-> {"running", "completed", "cancelled"},
   completed |-> {"completed"},
   cancelled |-> {"cancelled"}]

\* The plan after updates, a set of [id, status, evidence], and new branches.
Revised(branches, updates, added) ==
  {IF \E u \in updates : u.id = b.id
     THEN LET u == CHOOSE u \in updates : u.id = b.id
          IN [b EXCEPT !.status = u.status, !.evidence = @ \cup u.evidence]
     ELSE b : b \in branches} \cup added

\* Variant: the version that was read is not compared with the current one.
MayReviseAnyVersion(expected, updates, added) ==
  LET current == Last(versions)
  IN /\ expected > 0
     /\ \A u \in updates : \E b \in current : b.id = u.id /\ u.status \in AllowedTransitions[b.status]
     /\ WellFormed(Revised(current, updates, added))

\* revise accepts: the version is the current one, every update names a branch
\* and makes an allowed step, and the result is well formed.
MayRevise(expected, updates, added) ==
  LET current == Last(versions)
  IN /\ Len(versions) = expected
     /\ \A u \in updates : \E b \in current : b.id = u.id /\ u.status \in AllowedTransitions[b.status]
     /\ WellFormed(Revised(current, updates, added))

\* A revision that is refused leaves the plan, and the worker must read again.
Revise(w, updates, added) ==
  /\ Len(versions) < MaxVersions
  /\ held[w] > 0
  /\ versions' = IF MayRevise(held[w], updates, added)
                   THEN Append(versions, Revised(Last(versions), updates, added))
                   ELSE versions
  /\ held' = [held EXCEPT ![w] = 0]

\* The order in which selectNextBranches looks at branches: gain over cost, at
\* least a millionth of a dollar, then the id.
Divisor(b) == IF b.cost = 0 THEN 1 ELSE b.cost * 1000000
Better(b, c) ==
  \/ b.gain * Divisor(c) > c.gain * Divisor(b)
  \/ b.gain * Divisor(c) = c.gain * Divisor(b) /\ b.id < c.id

\* The loop looks at the best branch of those that are left; one that does not fit
\* is passed over, and the search goes on behind it.
LookAtBest(picked) ==
  LET best == CHOOSE b \in picked.todo : \A c \in picked.todo \ {b} : Better(b, c)
      fits == Cardinality(picked.branches) < MaxBranches /\ best.cost <= picked.left
  IN [branches |-> IF fits THEN picked.branches \cup {best} ELSE picked.branches,
      left |-> IF fits THEN picked.left - best.cost ELSE picked.left,
      todo |-> picked.todo \ {best}]

SelectNextBranches(branches, budget) ==
  LET candidates == {b \in branches : b.status = "pending" /\ b.gain >= MinGain}
      picked[k \in 0..Cardinality(candidates)] ==
        IF k = 0 THEN [branches |-> {}, left |-> budget, todo |-> candidates]
        ELSE LookAtBest(picked[k - 1])
  IN picked[Cardinality(candidates)]

\* A worker selects from the version it read and sets its choice to run.
StartBranches(w) ==
  /\ held[w] > 0
  /\ LET choice == SelectNextBranches(versions[held[w]], remaining[w])
         updates == {[id |-> b.id, status |-> "running", evidence |-> {}] : b \in choice.branches}
     IN /\ choice.branches # {}
        /\ Revise(w, updates, {})
        /\ IF versions' # versions
             THEN /\ running' = [running EXCEPT ![w] = @ \cup Ids(choice.branches)]
                  /\ remaining' = [remaining EXCEPT ![w] = choice.left]
             ELSE UNCHANGED <<running, remaining>>

\* It ends a branch with what it found, and may add branches that follow from it.
EndBranch(w) ==
  \E id \in running[w], found \in SUBSET Evidence, added \in LaterBranches \cup {{}},
     status \in {"completed", "cancelled"} :
    /\ Revise(w, {[id |-> id, status |-> status, evidence |-> found]}, added)
    /\ running' = IF versions' # versions THEN [running EXCEPT ![w] = @ \ {id}] ELSE running
    /\ UNCHANGED remaining

PlanNext == \E w \in Workers : GetPlan(w) \/ StartBranches(w) \/ EndBranch(w)

PlanSpec == PlanInit /\ [][PlanNext]_planVars

-----------------------------------------------------------------------------
\* A branch is run by one worker at a time, is on record as running while it
\* runs, and no worker has spent more than its budget, although workers select
\* from versions that others have since replaced (planner.ts:153).
BranchesHaveOneWorker ==
  \A w \in Workers :
    /\ \A v \in Workers \ {w} : running[w] \cap running[v] = {}
    /\ \A b \in Last(versions) : b.id \in running[w] => b.status = "running"
    /\ remaining[w] >= 0
=============================================================================
