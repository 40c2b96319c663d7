----------------------------- MODULE ReleaseLoop ----------------------------
(***************************************************************************)
(* Verify, repair, verify again, release: the candidate branches of a run, *)
(* the evidence the verifier worker leaves for them, the repair rounds the *)
(* controller grants, and the promoters that move the run's active branch  *)
(* from one to another.                                                    *)
(*                                                                         *)
(* Each method is one synchronous step.  What interleaves is the code that *)
(* calls them: a promoter reads the pointer and picks its evidence at one  *)
(* time and calls VerifiedCandidatePromoter.promote at another, and other  *)
(* promotions and rollbacks come between.                                  *)
(***************************************************************************)
EXTENDS RepairRounds

CONSTANTS
  Main,           \* the branch the run starts with
  Outputs,        \* what verifier processes print when they print a verdict
  RequiredOf,     \* RequiredOf[v]: requiredEvidenceIds of a verifier definition
  Promoters,
  Careless,       \* promoters that may compare with another branch than the active one
  NoBundle,
  MaxGeneration   \* bound: swaps of the pointer

ASSUME ReleaseAssumption ==
  /\ Main \in Branches
  /\ Outputs \subseteq Result
  /\ RequiredOf \in [Verifiers -> SUBSET EvidenceIds]
  /\ Careless \subseteq Promoters
  /\ MaxGeneration \in Nat
  /\ NoBundle \notin Bundle

VARIABLES
  branches,  \* stored revision branches
  content,   \* the product of each branch
  evidence,  \* the evidence bundle of each verified branch
  pointer,   \* activeBranchId and generation
  call,      \* what each promoter is about to call promote with
  released   \* history: branches that were promoted

releaseVars == <<branches, content, evidence, pointer, call, released>>
vars == <<releaseVars, repairVars>>

Idle == [at |-> "idle", baseline |-> NoBundle, candidate |-> NoBundle, expected |-> 0,
         round |-> 0]

Init ==
  /\ RepairInit
  /\ branches = {Main}
  /\ content \in [Branches -> Contents]
  /\ evidence = [b \in Branches |-> NoBundle]
  /\ pointer = [branch |-> Main, generation |-> 0]
  /\ call = [p \in Promoters |-> Idle]
  /\ released = {}

Verified == {b \in branches : evidence[b] # NoBundle}

-----------------------------------------------------------------------------
CreateRevision(b, parent) ==
  /\ parent \in branches /\ b \notin branches
  /\ branches' = branches \cup {b}
  /\ UNCHANGED <<content, evidence, pointer, call, released, repairVars>>

\* What can come out of a verifier process run on a product.
Verdicts(product) ==
  {DecodeOutput(output, exitedZero, product) : output \in Outputs, exitedZero \in BOOLEAN}
    \cup {Undecodable(product)}

\* A bundle of branch b from verifier v, unless createEvidenceBundle throws; the verdict
\* of a branch is taken once.
Verify(b, v) ==
  /\ b \in branches /\ evidence[b] = NoBundle
  /\ \E result \in Verdicts(content[b]) :
       evidence' = [evidence EXCEPT ![b] = [branch |-> b, verifier |-> v,
                                            required |-> RequiredOf[v], result |-> result]]
  /\ UNCHANGED <<branches, content, pointer, call, released, repairVars>>

\* A repair of what the evidence of the active branch shows.
Repair(role, writes) ==
  /\ pointer.branch \in Verified
  /\ Authorize(evidence[pointer.branch].result.findings, role, writes)
  /\ UNCHANGED releaseVars

\* A promoter makes up its mind: the candidate, the granted round it comes from and
\* the branch it is compared with.
Prepare(p, b, base, i) ==
  /\ call[p].at = "idle"
  /\ {b, base} \subseteq Verified /\ b # base
  /\ p \notin Careless => base = pointer.branch
  /\ i \in 1..Len(granted)
  /\ call' = [call EXCEPT ![p] = [at |-> "promote", baseline |-> evidence[base],
                                  candidate |-> evidence[b], expected |-> pointer.generation,
                                  round |-> i]]
  /\ UNCHANGED <<branches, content, evidence, pointer, released, repairVars>>

\* Variant: the pointer is set without looking at its generation.
SwapAnyway(b, expected) == pointer' = [branch |-> b, generation |-> pointer.generation + 1]

CompareAndSwap(b, expected) ==
  /\ pointer.generation = expected
  /\ pointer' = [branch |-> b, generation |-> pointer.generation + 1]

Accepted(p) ==
  EvaluateMonotonicCandidate(call[p].baseline, call[p].candidate,
                             granted[call[p].round].targets, granted[call[p].round].allowed)

Done(p) == call' = [call EXCEPT ![p] = Idle]

\* VerifiedCandidatePromoter.promote returns.
Promote(p) ==
  /\ call[p].at = "promote"
  /\ pointer.generation < MaxGeneration
  /\ Accepted(p)
  /\ CompareAndSwap(call[p].candidate.branch, call[p].expected)
  /\ released' = released \cup {call[p].candidate.branch}
  /\ Done(p)
  /\ UNCHANGED <<branches, content, evidence, repairVars>>

\* It throws.
PromoteFails(p) ==
  /\ call[p].at = "promote"
  /\ ~Accepted(p) \/ pointer.generation # call[p].expected
  /\ Done(p)
  /\ UNCHANGED <<branches, content, evidence, pointer, released, repairVars>>

Rollback(b) ==
  /\ b \in branches /\ pointer.generation < MaxGeneration
  /\ CompareAndSwap(b, pointer.generation)
  /\ UNCHANGED <<branches, content, evidence, call, released, repairVars>>

Next ==
  \/ \E b, parent \in Branches : CreateRevision(b, parent)
  \/ \E b \in Branches, v \in Verifiers : Verify(b, v)
  \/ \E role \in Roles, writes \in SUBSET Paths : Repair(role, writes)
  \/ \E p \in Promoters, b, base \in Branches, i \in 1..MaxRounds : Prepare(p, b, base, i)
  \/ \E p \in Promoters : Promote(p) \/ PromoteFails(p)
  \/ \E b \in Branches : Rollback(b)

Spec == Init /\ [][Next]_vars

-----------------------------------------------------------------------------
TypeOK ==
  /\ RepairTypeOK
  /\ branches \subseteq Branches
  /\ content \in [Branches -> Contents]
  /\ evidence \in [Branches -> Bundle \cup {NoBundle}]
  /\ pointer \in [branch : branches, generation : 0..MaxGeneration]
  /\ call \in [Promoters -> [at : {"idle", "promote"}, baseline : Bundle \cup {NoBundle},
                             candidate : Bundle \cup {NoBundle}, expected : 0..MaxGeneration,
                             round : 0..MaxRounds]]
  /\ \A p \in Promoters : call[p].at = "promote" =>
       NoBundle \notin {call[p].baseline, call[p].candidate} /\ call[p].round \in 1..Len(granted)
  /\ released \subseteq branches

\* What the release of a branch never takes away from the branch before it.
NoWorse(before, after) ==
  /\ ~HardGateRegression(before, after)
  /\ before.required \subseteq after.result.evidence
  /\ ~(BlockingScore(after.result.findings) > BlockingScore(before.result.findings))
  /\ \A f \in Open(before.result.findings) : after.result.findings[f].present

\* A promoter that compares with the active branch it has read never replaces an
\* active branch by a worse one, though other promoters and rollbacks have moved the
\* pointer between its reading and its call.
CarefulNeverRegresses ==
  [][\A p \in Promoters \ Careless :
       Promote(p) => /\ evidence[pointer.branch] # NoBundle
                     /\ NoWorse(evidence[pointer.branch], evidence[pointer'.branch])]_vars

\* Whoever releases, a released branch passed its verifier on its own product, within
\* what some granted round allowed it to write.
ReleasedWereGranted ==
  \A b \in released :
    /\ evidence[b] # NoBundle
    /\ evidence[b].result.outcome = "passed" /\ evidence[b].result.content = content[b]
    /\ \A g \in RequiredGates : Passed(evidence[b].result, g)
    /\ \E i \in 1..Len(granted) :
         /\ evidence[b].result.writes \subseteq granted[i].allowed
         /\ granted[i].targets \subseteq Settled(evidence[b].result.findings)

\* What m7-implementation-contract.md makes of the two together: a branch is released
\* behind repairs that were granted, and never more of them than the hard limits allow.
ReleasesWithinLimits == RoundsAreBounded /\ ReleasedWereGranted
=============================================================================
