# A verification project for AAWP

AAWP (Agentic Workflow Platform) is a TypeScript monorepo that compiles
workflows to a graph IR, runs them durably on Temporal, records them as
append-only events, artifacts and revision branches, verifies and repairs what
agents build, and shows it in a local Studio. This directory holds TLA+ models
of the parts whose behaviour depends on order, failure or concurrency, the TLC
runs that check them on small instances, and theorems that TLAPS proves for
every value of the constants. Every definition is translated from the source;
`PROJECT.json` maps each one to its lines.

    tlc -workers 2 -config MC_DurableRun.cfg MC_DurableRun   # a run
    tlapm DurableRun_proofs.tla                              # a proof module

## 1. The system

| Component | State it keeps | Operations | Talks to | Hard part |
|---|---|---|---|---|
| `runtime-temporal` durable workflow | workflow variables replayed from history: `remaining`, `nodeOutputs`, `approvals`; activity state in the Temporal server | `durableWorkflow`, signal `approval`, query, cancellation; activities `executeNode`, `projectNodeCompletion` | node executor, side-effect target, projection sink | attempts overlap after a timeout, answers are lost, signals come early or twice, cancellation at any point |
| `runtime-core` simulator | none between calls | `simulateDeterministic` | compiler (IR), runtime-temporal (same order promised) | two interpreters of one graph must agree |
| `runtime-core` event store, ports | events per run | `append`, `list` | artifact-store (same port over SQL) | expected sequence, idempotency keys |
| `artifact-store` SQL | tables `events`, `runs`, `run_branches`, artifacts | `awf_append_event`, `awf_promote_branch`, triggers against UPDATE/DELETE | every writer session | READ COMMITTED, row locks, commits out of order |
| `artifact-store` CAS, cache | files by digest, temporary files; cache entries | `put`, `get`, `has` | runtime | uploads of one content overlap, fail and die; objects are damaged |
| `lineage` | artifacts with their parents | `publish`, `ancestors`, `descendants` | control-plane | unknown parents, tenants, cycles |
| `compiler` | none | `validateWorkflow` (endpoints, ports, producers, cycles, verifiers, permissions, write scopes, budget) | editor, router, CLI, runtime | what it accepts the runtime must finish |
| `impact-engine` revisions | branches, pointer with a generation | `registerBase`, `createRevision`, `promote`, `rollback` | verifier-sdk | compare-and-swap against stale readers |
| `impact-engine` diff, invalidate, explain | none | pure functions over two revisions | control-plane | closure over the graph |
| `verifier-sdk`, `verifier-worker` | none between calls | `run`, `createEvidenceBundle`, `authorizeRepair`, `evaluateMonotonicCandidate`, `promote` | sandbox, impact-engine | evidence taken at one time and used at another |
| bounded repair (spec-to-demo template) | `round`, `occurrences` | `authorize`, `evaluateCandidate` | verifier-sdk | a request refused half-way has been counted in part |
| `tool-gateway`, `policy` | grants | `authorizePlan`, `invoke`, `SandboxLauncher.run` | adapters, sandbox, telemetry | links that move between two authorisations, leases that fail half-way |
| `agent-gateway` | none | `invoke` with a deadline, token budget, response checks | provider, telemetry | the answer races the timer and the caller |
| `preview-contracts`, `preview-runtime` | environments, PGlite databases | provision, inspect, destroy, append, record result | demo bundle | two calls of one command at once; an environment that ends between look-up and query |
| `demo-bundle`, `ir` | none | compile, canonical JSON, digests | everything | - |
| `control-plane` | the workflow document; backups | retention plan, backup, verify, restore, projection of a run, editor, semantic diff | lineage, events, verifier-sdk | lists read while others write; a view folded from any log |
| `router` | versioned plans; observations | features, rules, templates, `revise`, `selectNextBranches`, shadow `record` | workers | workers select from a version that has been replaced |
| `telemetry` | spans | start, usage, end | both gateways | a span must say what the caller was told |
| spec-feedback-to-spec template | files of a project and a run | compile, materialise, verify, approve, repair | preview-contracts, Studio | days and other writers between two steps |
| spec-to-demo template | files of a run | prepare, build, verify, package | agent-gateway, verifier-worker, demo-bundle | evidence of another compile of the same product |
| Studio server, run store, executor | `activeRunIds`, promises; `history.jsonl`, `run.json` | `POST /api/runs`, `append`, `executeStudioProcessRun`, `execute` | demo store, launcher inputs | a check before an await, two files per record, crash |
| Studio demo store | directories, `onboarded.json` markers, promise chain | `createSnapshot`, `onboard`, `offboard`, `delete` | Studio server | file operations of concurrent calls |
| views, CLI, scripts, benchmarks | none | parsing, rendering, one-off tools | - | - |

What makes each one correct, in a sentence:

* durable run: a side effect happens once, behind its approvals, within its
  budget; the projection is never behind; a run that has heard
  of its cancellation starts nothing; a run settles; and all of it in the order of the simulator.
* ledger: event sequences without gaps, visible in order; a key used once; a
  pointer moved only from the generation its caller saw; no call blocks for ever.
* compiler and runtime: the graphs rejected as cyclic are those the loop cannot finish.
* verification loop: repair is bounded; what is released was verified on its own
  product within a granted scope; a release does not regress.
* Studio: what a client was told and what may have run is on record; records
  are consistent and final; a run frees the server; one demo is onboarded.
* preview: a command has one result, no acknowledged version is lost, no open
  database is left without an environment, and what has ended stays ended.
* invalidation: nothing that differs, or has something different upstream, is
  reused; nothing else is run again.
* content and records: an acknowledged object is served or its damage reported; lineage is
  an order within a tenant; retention and backups leave whole histories.
* operator: the commands offered follow from the log; a document can be run; a
  change is shown as large as it is.
* gateways: one worker per branch; a call ends and its span says how; a sandbox
  sees what its node was granted.
* templates: what a verdict passes is what was asked for and loses nothing; a stage
  is not ready over a finding; what is delivered was proven for this document.

The full list of what is hard to test, line by line, is `hazards` in `PROJECT.json`.

## 2. Modules

    ReadyOrder ── RunSchedule (proofs in DurableRun_proofs)   order, cycles, simulator
        └──────── DurableRun (+ MC, proofs) ──implements──> DagRun
    RunLedgerSql (+ MC, proofs) ──implements──> RunLedger
    StudioRun (+ MC, proofs)      DemoStore (+ MC, proofs)
    EvidenceGuard ── RepairRounds ── ReleaseLoop (+ MC, proofs)
    PreviewEnvironments (+ MC, proofs)
    Revisions ── Impact ────────────────────────────┐
    SpecProfile ── PreviewContracts ── SpecRevision ┼── MC_Specs, Specs_proofs
    DemoDelivery ───────────────────────────────────┘
    Walks ── ControlRecords, WorkflowCompiler ── WorkflowEditor
    ObjectCas, ControlRecords, RunControl, WorkflowEditor, RunSchedule: MC_Records
    PlanStore, Router, ModelGateway, ToolGateway: MC_Gateways
    ObjectCas, ControlRecords, RunControl, WorkflowEditor, PlanStore, Router,
      ModelGateway, ToolGateway: Services_proofs

**ReadyOrder** is the selection rule of the `for` loop of `durableWorkflow`: a
node is ready when all its inputs are there, and the loop continues upwards
from the node it has just run before it starts another pass. Node ids are
their rank in UTF-16 order.

**RunSchedule** runs that rule over *every* graph of `MaxNodes` nodes beside
two pure algorithms: `Simulate` (`simulateDeterministic`, its passes as a recursive
function) and `HasCycle` (`detectCycles` with its three colours). A search that visits
nodes from within visits is a recursive function of how deep it may still go: each
call puts a node on the stack, so `MaxNodes + 1` is never used up.

**DurableRun** is one run on Temporal. The coroutine's awaits are `phase`;
`current`, `nodeOutputs`, `approvals`, `cancelled` are the workflow's variables;
`cancelRequested` is what the server has recorded;
`activity` is the server's view of the awaited activity and `live` the attempts
that execute somewhere, the given-up ones included; `heldKeys` and `delivered`
are the two external sinks, which apply a request unless they hold its key
(`idempotencyKey`, `eventKey`). `executions` and `decided` are history variables.
One action per thing that can happen: `StartRun`, `TimerFires`,
`SignalApproval`, `ReadDecision`, `RequestCancel`, `HearCancel`, `StartAttempt`, `Deliver`, `Succeed`,
`FailRetryable`, `FailFinally`, `StopCancelled`, `TimeOut`, `LoseAttempt`. A
worker crash is `LoseAttempt`: the coroutine's variables survive it by replay.
`handle.cancel()` returns when the server has the request; until the workflow task that
tells the coroutine, attempts start, retry and finish as before, and
`CancelledStartsNothing` speaks from that task on. The two `WORKFLOW_OUTPUT_MISSING` throws
behind the loop are left out: a validated workflow's outputs have producers whose ports were checked.

**DagRun** is what a run promises: nodes finish after their inputs, a side
effect happens while its inputs are finished and before its node is, the verdict is final and
"completed" only when everything finished. `DurableRun` implements it under
`finished <- nodeOutputs`, `effected` and `verdict` read off the sinks and the phase.

**RunLedger** is the pair of in-memory stores (`InMemoryRunEventStore`,
`InMemoryBranchPointerStore`): one atomic step per call. **RunLedgerSql** is the same port in PostgreSQL,
statement by statement: `LockRun` (`SELECT .. FOR UPDATE`), `ReadMax`,
`InsertEvent`, `CommitEvent`, `ScanRuns`, `UpdateRun`, `CommitPromotion`,
`InsertBranch`, `Disconnect`. A statement sees what is committed when it
starts; an `UPDATE` that waited for a row evaluates its condition again on the
version it finds (`Selects` in `ScanRuns` and in `UpdateRun`).

**StudioRun** is `POST /api/runs` and the run it launches. A handler or a run
is a coroutine that the others interleave with at each await; `run[r].pc` names
the await. `store.append` is two awaits, `AppendLine` and `WriteRunJson`, each of
which may fail (`FailWrite`); `Persist(c, status, then)` is an append and where to go on.
`Crash` loses every coroutine and `activeRunIds` and keeps the files.

**DemoStore** is `demo-store.ts`: calls of `onboard`, `offboard` and `delete`
whose file operations interleave; `onboard` is the critical section its promise
chain makes (`Chain`, `ItsTurn`, `Release`).

**EvidenceGuard** holds what is pure: `DecodeOutput` (a verdict about another
product becomes a policy violation), `AuthorizeRepair`, and
`EvaluateMonotonicCandidate` as the conjunction of the guard's violations, one
operator each. **RepairRounds** is `BoundedRepairController`. **ReleaseLoop**
composes them with the revision store and the pointer: `CreateRevision`,
`Verify`, `Repair`, `Prepare`, `Promote`, `PromoteFails`, `Rollback`. Each method
is one synchronous step; `Prepare` is the caller's, who reads the pointer and
chooses its evidence before it calls `promote`. The code has no such caller
outside its tests, so the model has both kinds: those that compare with the
active branch they read, and `Careless` ones that compare with any branch. One
tenant, one run; a branch is verified once; the requested writes of a candidate's policy are
those of a granted round. `requireProductChange` has its default: no caller sets it.

**PreviewEnvironments** is `PGlitePreviewEnvironmentPort`. `call[c]` is one call
of `inspect`, `destroy`, `appendResourceVersion` or `recordCommandResult`, and its
`pc` the await it is at: `closing`, `lookup`, `query`, `insert`. `Begin` is the
look into the map every call starts with, by the end of which an expired or
destroyed environment's `close` has begun; `Closed` and `CloseFails` end it;
`Lookup` is the second look of `#database`. `AppendVersion` is one query and so
one step, `SelectResult` and `InsertResult` are two. PGlite is modelled from its
use: one query at a time, none once a close has begun, a second close rejects.

**Revisions** is the state of a branch, the patch that makes a candidate of it
(`WorkflowPatched`, `MapPatched`) and `diffRevisionStates`, one operator per kind
of reason. **Impact** revises a parent, takes its `Roots` and walks them as
`computeImpact` does: `TakeRoot` and `TakeObserved` start a walk, `Visit` takes a node
off its queue, `Broad` adds the regression nodes; `ReusesParent` and `ReusesCache` are
what `buildCachePlan` makes of it for any fingerprints. The reference they are
compared with shares nothing with the walk: `Ancestry` is the least set closed
under the edges, backwards, and `Influences` all that a revision says of a node.
Workflows have compiled, so their edges end at nodes they have (`Connected`).

**ObjectCas** is `LocalObjectCas` and the fingerprint cache. An upload is
`BeginPut`, `WriteChunks`, `LookAtDestination` and then `RenameTemporary` or
`RemoveTemporary` and `Acknowledge`, with `FailPut` and `EndPut` at every await; `Corrupt` is the
disk. A content stands for its own SHA-256.

**ControlRecords** holds what a tenant's backup is made of: `Publish`, `AppendTo`
and `FileEvidence` write, `StartCollecting` and `Collect` read the three lists one
by one, `CreateBackup`, `Verifies` and `CanRepublish` are backup.ts, and
`Retained` is the retention plan, for every policy over the artifacts there are.
The ancestors are computed by the code's breadth-first walk (`Reach` of **Walks**), in as many
`Rounds` as there are artifacts.

**RunControl** is `projectRunControl` as a fold over any log, with the commands it
offers. **WorkflowCompiler** is `validateWorkflow` as a function to the set of its
diagnostics' codes; **WorkflowEditor** edits a document through it, with the
semantic difference an operator approves and the cost of the graph. A cost is a whole number
of some unit, so sums are exact. Contracts may name a schema or a verifier twice, of which
the difference sees the last: it may then be silent about an edit, but validation is not.

**PlanStore** is the plan store with the workers that share it (`StartBranches`,
`EndBranch` are theirs: between `GetPlan` and `Revise` others revise). **Router** scores tasks
in whole 168ths of a feature, so that the model's arithmetic is exact; a gain of exactly 1 or 3 may
fall on either side in the code's floating point. Reuse potential,
side-effect risk and latency, which `WorkflowGain` would weigh as they come, are 0.

**ModelGateway** is one invocation as the race it is: `ProviderSettles`,
`TimerFires`, `CallerAborts`, then `Settle` behind the await with the checks of
the answer. The span of telemetry is part of the call. A provider may throw a
`ModelProviderError` or a `ModelGatewayError` with any class (`ProviderClasses`: in the run a class of its
own, `PROVIDER_TIMEOUT`, `CANCELLED` and one of those by which the gateway refuses answers), and the caller gets it as it
is unless the timer or the abort came first. So `SpansTellTheOutcome` does not trust a class:
tokens are on the span only of calls whose answer the gateway counted, and a timeout or a cancellation
was one unless the provider named it. **ToolGateway** is one
invocation through the CLI adapter: paths are authorised by the gateway and
again by the launcher, one await each, with `MoveLink` in between; the accesses that
are still to be authorised are the set `todo`, taken in the code's order (`ComesFirst`: reads
before writes, by rank of the path).

**SpecProfile** is the two profiles of a specification document, one operator for
each check they make; **PreviewContracts** compiles its data and API contracts and routes
its blockers. **SpecRevision** is the run around them: `PrepareRequest` pins the Spec and the feedback,
then `CompileFeedback`, `ProposePatch`, `MaterializeRevision`, `VerifyRevision`,
`ApproveRevision`, each a process that reads the files of the earlier ones. `FinalizeRepair` is the
repair script. It has no condition on how far the run got: it takes `child-spec.candidate.json` (`child`), the contract's
feedback and the baseline *as it is at its path by then*, comparing digests of none, applies its own
operations (`RepairOperations`) and writes a directory of its own (`repairs`), once for each content; the files of
the run stay as they are. `ApproveRepair` approves that. An approved document can be the source of the next request.

`RewriteSource`, `RewriteChild`, `RewriteEnvelope` and `RewriteRepair` are somebody who edits a file at any
time once it is there, also when the run has failed or its verdict has passed; an envelope may get another document
or other operations, each with the digest and the id it had or with those of what it holds now
(`Altered`). `altered` records which files were. The contract, the proposal, the feedback and the verdict are
not rewritten, and only the last run's candidate is repaired. `approveSpecRevision` compares the id the envelope
carries with the one of the verdict and derives neither again (`Approvable`), so what
is approved and what was verified are two things (`Approval`):

* `ApprovedIsWhatWasAsked` is about the candidate the verdict passed. Of a run it is the Spec *as pinned*
  with operations for given feedback, within the authority, whatever was rewritten; a repair is that of
  what it read, and outside the contract's authority also equal to the pinned Spec, unless somebody rewrote that
  file. It is what is approved unless its envelope was rewritten.
* `NothingIsLost` is about lines of revisions: nothing named of the baseline is missing, which is the
  requested Spec for a run at all times and for a repair unless the Spec was rewritten; hence
  nothing of the document the line started from (`OriginOf`). What is approved other than it
  was verified, or was measured by a rewritten baseline, starts a line of its own.
* `ApprovedIsVerified` is what the code's message claims; see section 4.

The script's screens are constants (`RewordedScreens`, `ActiveScreens`, `ChangedScreens`), and the three feedback
ids it asks for are taken as given. Titles, copy and data needs that it words anew, and the names under
which it gathers the references of requirements, are texts no property looks at.

**DemoDelivery** is the other template: `Prepare` compiles scope, requirements,
obligations, public brief and hidden verifier of a document; `BundleFixtures`, `Build`,
`Verify` and `PackageDemoDelivery` follow, each from anything made before, so that
products, plans and evidence of different compiles meet.

What comes from outside is assumed to be what the code's parsers let through: the arrays of a
document and of a replaced root are finite and a patch is a sequence of operations
(`DocumentAssumption`); a selector names one thing or a thing of another
(`SelectionAssumption`); a fixture is a key and a status (`FixtureAssumption`); the branches that
enter a plan are finite, and their ids numbered in the order of the strings (`PlanAssumption`);
workflows, nodes, edges and contracts have the shape of `packages/ir/src/schema.ts` (`EditorAssumption`).

The type invariants `CasTypeOK`, `ModelTypeOK` and `ToolTypeOK` are parts of the invariants
that `Services_proofs` proves; `RecordsTypeOK`, `PlanTypeOK` and `LogTypeOK` say
what the state is and no run or theorem is about them.
`MC_Records`, `MC_Gateways` and `MC_Specs` put components that share no state
into one instance: a behaviour is one of its parts, chosen at the start, so the states are the sum of the parts and no interleaving is lost.

## 3. Runs

| Run | Instance | What it shows |
|---|---|---|
| `durable` | 4 nodes: approval 2 and wait 3 gate side effects 1 and 4 of one operation; 2 attempts | the sinks tell the run (effects once, projection leads), approvals gate, budgets, cancellation, refinement of `DagRun`, settles |
| `ledger` | 1 run, 2 tenants, 2 sessions, 2 calls each, 2 keys, expectations 0..2 | writers take turns and readers miss nothing, refinement of `RunLedger`, calls return |
| `studio` | 2 requests, one from a launcher, 2 steps, 2 failing writes, 1 crash | the history comes first (before a step, an answer, `run.json`); runs end on a whole record; runs free the server |
| `studio_single` | same | *violated*: 409 while a run is active |
| `studio_final` | same | *violated*: a terminal status is final |
| `demo` | 2 demos, 3 calls, 1 failing operation, 1 crash | at most one onboarded; markers with their snapshots; onboardings end |
| `release` | main and 2 candidates, 2 products, 2 hard gates of which 1 is required, 4 findings (2 of the product, 2 of the harness and policy), 2 rounds, 2 promoters (1 careless), 2 swaps | releases stand on granted, bounded repairs; careful promotion never regresses |
| `preview` | 1 environment, 4 calls of any kind, 1 command with 2 digests, expected versions 0..1, 1 failing close | what callers were told stands; environments and databases end together, for good |
| `records` | 3 uploads of 2 contents; 5 artifacts of 2 tenants, 2 event keys, 1 evidence bundle, every policy; every log of 5 events; any series of edits (5 nodes, 6 edges, 2 contracts) from 6 documents; every graph of 4 nodes | the CAS serves what it acknowledged; lineage, retention and backups are whole; commands match the log; documents run and changes account for edits; nodes run in the order of the simulator, which stops exactly where the compiler reports a cycle |
| `gateways` | 2 workers, 3 branches and a later one; every task over the listed values; 2 model calls; 2 paths whose links move twice | one worker per branch; routing is monotone; spans tell the outcome and calls settle; sandboxes get what was granted |
| `specs` | every acyclic graph of 3 nodes with patches of 2 fields and 2 reports; 2 specifications, 1 request with any of 2 feedbacks and all proposals, or 2 in a row with the proposals that replace or change the named records, their repairs, 1 rewritten file; 2 prepared demos, 1 built, verified and delivered | sound and exact reuse; what a verdict passes is what was asked, and a line of revisions and repairs loses nothing named; clean profiles can be shown and no blocker is lost; what is delivered is proven |
| `spec_approval` | 1 request of the latter, 1 rewritten file | *violated*: only the verified candidate is approved |

*Why these bounds.* In `records` a cycle, a diamond and a pass that has to start again all
fit in four nodes, and the graph is not chosen but enumerated. In `durable` two attempts are one that is given up and one
that overlaps it; two side effects of one operation
are what a key without the node id would confuse; the ids are chosen against
the order of execution. Two sessions with two calls each meet at every pair of statements; a third
would only queue behind the same row lock. Two failing writes reach the failure of the
failure record; the second run is the one past the check. Three demo calls are
a sweep, a rival and a deletion. In `release` the third branch is what lets
the pointer move between reading and promoting, and the end-to-end gate, hard but
not required by name, is what only the comparison with the baseline protects.
In `preview` four calls are
two of a kind that meet between their queries and two that end the environment
and come after its end. In `specs`, three nodes are a chain, a fork and a join, and
two edits take one change away from under another; there is no bound on either in the proofs.
In `records` three uploads are an acknowledged one, a rival and one that dies; the fourth and fifth artifact
are another tenant's copy and a duplicate. In `gateways` the third branch is the better pick that a stale version hides.
In a line of revisions the second request starts from what the first approved, which is where a loss would
add up; one rewritten file reaches each of the cases above by itself, the Spec rewritten after a failed run and then
repaired, the candidate's document before a repair, and an envelope after its verdict. A second
prepared demo is the compile whose evidence must not count. In `release` a second open finding, for which nobody may write,
has requests refused after the first was counted. The constants named `Max...` bound counters in guards;
nothing else is cut.

*Symmetry* is used in `release` (branches other than main, products) and `preview`
(calls, digests): the constants permuted appear in no definition by name, and
these runs have no liveness property.

*Deadlock* is not checked: a run that has ended, a call limit that is spent or
a server nobody posts to stops, as it should. What must not stop is stated as liveness.

*Fairness.* `DurableRun`: the server fires timers, dispatches attempts and
workflow tasks, that of a cancellation too, and
enforces timeouts (weak fairness of `WorkflowStep`, `HearCancel`, `StartAttempt`, `TimeOut`);
attempts owe nothing, people owe nothing, so `RunSettles` allows waiting for
a decision, but not once a cancellation was requested. `RunLedgerSql`: the server runs a statement that can run; sessions
need not commit in any order and may vanish. `StudioRun`, `DemoStore`: a
coroutine whose await is over continues, a file operation ends, a command ends or
is ended by its timeout (a command that survives SIGTERM is outside this
assumption, see hazards); nobody has to post, nor restart the server.
`RunSchedule`: the loop goes on. `ModelGateway`: a timer that
was set fires and an await that is over continues (`ModelFairness`); providers and callers owe
nothing. The other modules promise no progress and assume none.

## 4. Where code and documents disagree

* `studio_single`: `activeRunIds` is read before an await and added to after
  it; two requests can both launch.
* `studio_final`: the completed line is written, `run.json` fails, and the
  catch appends a failed record of the same run.
* `spec_approval`: the approval compares the id that the envelope carries; an envelope that was
  rewritten after its verdict under the same id is approved, though "only the independently verified candidate can be".

Each is a run with one property that TLC violates; `findings` quotes the line.
Three more are seen in the models and need no run to be believed:

* The loop finishes its pass upwards, so the ready node with the smallest id is
  not always next (`IsNextInPass`), though the m1 and m3 contracts say so.
  Simulator and runtime agree with each other, which `records` checks.
* `rollback` accepts any stored branch, also one that was never promoted
  (`ReleaseLoop!Rollback`); the m5 contract lets a candidate become active only through its gate.
* The template's WORKFLOW.md:94 says that materialisation adds the pinned lineage
  digests; it adds them only to an operation whose path is exactly `/meta/revision`
  (`Stamped`), so a proposal that replaces `/meta` as a whole keeps what it brought.

## 5. Proofs

Proved with no assumption but the named ASSUMEs of the modules: types of the
constants, finiteness of the node and finding ids, values such as `None`,
`NoRecord` or `Pending` that stand for "nothing" and are none of the real ones, and what
section 2 says of the inputs of the templates. All invariants are proved
inductive as `Init => IInv`, `IInv /\ [Next]_vars => IInv'`, `IInv => Inv`.

* **DurableRun_proofs**: `TypeCorrect`, `SideEffectsOnce`, `ApprovalsGate`,
  `AttemptBudget`, `ProjectionLeads`, `SinksFollowTheRun`, `CancellationStops`, `RunsTheGraph`. The
  strengthening says what no single property does: finished nodes are closed under
  `Upstream`, and the current node has all its inputs (`LoopInv`); an activity is
  awaited exactly in the working phases and none is scheduled past the budget or a
  cancellation that was heard (`ActivityInv`); executions happen only at or behind the
  coroutine, after the decision (`ExecutionInv`, `DecisionInv`); a sink holds a
  request's key exactly when it applied the request once, and a finished node's
  key is held (`DeliveryInv`); an attempt that was applied left its key (`LiveInv`), so
  its successor, however late, applies nothing. Approvals reach through the graph by
  *least closed set* rather than induction: `nodeOutputs` is closed under
  `Upstream` and holds the inputs of any executed node, so it holds its `Ancestors`.
  `RunsTheGraph` maps each action to a step of `DagRun` or a stutter.
* **DemoStore_proofs**: `TypeCorrect`, `ActiveDemoIsUnique`. The promise chain is a
  critical section: it holds a call once, while it waits or sweeps (`ChainIsOpen`); the
  call that sweeps is at its head (`TurnsAreExclusive`); and beside what that call has
  still to sweep, only its own run can be onboarded (`SweptBehind`).
* **ReleaseLoop_proofs**: `TypeCorrect`, `RepairIsBounded`,
  `ReleasesWereGranted`, `ReleasesAreBounded`, `CarefulPromotion`. `RepairIsBounded` needs that each
  finding's counter dominates the number of rounds that target it, also when
  a request is refused after counting some findings (`RoundsAreCounted`);
  `CarefulPromotion` needs that the generation a promoter read, if still the
  pointer's, means the branch is still the one whose evidence it holds
  (`ReadingsAreCurrent`) and that a bundle belongs to the branch it is filed under (`EvidenceIsOwn`).
* **PreviewEnvironments_proofs**: `TypeCorrect`, `OneResult`, `NoLostVersion`,
  `NoStrayDatabase`, `NoLifeAfterEnd`, `NoAnswerIsWithdrawn`, `CleanEnds`. Rows are never changed and versions only
  appended (`TablesGrow`), so what a caller was told stays on record; an environment
  is in the map only once it is provisioned (`ProvisionedFirst`); and one that
  somebody was told has ended is closed and out of the map for good
  (`EndedAreGone`), which is why a call that still holds its database cannot write.
* **RunLedgerSql_proofs**: `TypeCorrect`, `RowLockSerialises` (`WritersTakeTurns`),
  `RowsImplementLedger` (`ImplementsLedger`). A transaction that has read a run for writing
  holds its row lock, so what it read is still what is committed (`Held`); hence the
  sequences of a run are 1..n, a sequence or key names one row (`Numbered`), and no insert is
  ever turned away by the sequence's key (`NeverTurnedAway`). The refinement reads the
  rows in the order of their sequences; that the i-th row is the one with i - 1 below it is
  what turns the commit of a row into an append of the abstract ledger. Every other statement is a stutter.
* **StudioRun_proofs**: `TypeCorrect`, `HistoryLeads` (`HistoryComesFirst`), `RunsEndAsRecorded`
  (`RunsEndOnRecord`). The nodes and the events of a run tell one story (`Story`); where a run
  goes on after a write is decided by the record it is writing, and its files lag behind by at
  most that record (`Sound`), failures and crashes included. So what is done next is
  already on record and a run returns only behind a terminal line.
* **Services_proofs**, a section per service:
  * `PutsAreServed` (`AcknowledgedAreServed`): from its hash on, a put's temporary file is all
    of its source (`PutsAreWhole`), and an object once there is replaced only by itself or damage (`ObjectsStay`).
  * `CallsEndAsTold` (`SpansTellTheOutcome`): step, timer, race and span of a call change
    together (`CallsKeepStep`): a late answer finds the race settled. Of the providers' classes nothing
    is assumed but that they are not the model's marks for "nothing yet" and "returned" (`PendingAssumption`).
  * `SandboxesAreWithinGrants` (`SandboxesGetWhatWasGranted`): what was authorised so far was inside a
    granted root when it was looked at (`PathsAreGranted`), whatever moved since; secrets
    leased are of the grant, and apart (`LeasesAreApart`).
  * `MoreNeedNeverLessDurable` (`DecisionsAreMonotone`): each part of the score is monotone in
    the features; no induction, but for all integers.
  * `OperatorsMayWhatTheLogSays` (`CommandsMatchTheLog`): the projection folds the log; the proof
    follows it one event at a time with an invariant of the view (`ViewInv`), for logs of any length.
  * `OneWorkerEach` (`BranchesHaveOneWorker`): a revision is accepted from the current version only, so
    what a worker selected as pending was nobody's; what it runs stays in the last version, as
    running (`RunningIsOnRecord`), whoever revises in between. The order by gain per cost is
    one (`BetterIsAnOrder`), so there is a best branch at each turn of the loop, which is followed
    to show that what is taken fits the budget (`SelectionFits`).
  * `LineagesAreOrders` (`LineageIsAnOrder`), `BackupsAreFaithful` (`BackupsRestoreFaithfully`),
    `RetentionIsWhole` (`RetentionLeavesAWhole`). A loop that only adds has settled after as many rounds as
    there are records (`RoundsSettle`), on the least set that is closed (`ReachIsLeast`). `publish`
    keeps the lineage well-founded (`Lineage`: any artifacts have one among them without a parent among
    them), which excludes cycles without a rank; least sets make the two directions
    converse (`WaysLeadBack`). A part that holds its parents is a lineage with the same ancestors, and is
    published in passes (`PartsOfLineages`): that is a backup, whose lists are parts of the
    stores at different times (`CollectedInv`), and what retention keeps.
  * `DocumentsRun` (`DocumentsCanBeRun`), `EditsAreAccounted` (`ChangesAccountForEdits`). Documents are valid and
    a candidate is what its edit made of the one before (`EditorInv`), with ids that name one thing
    each. The rest is the compiler: where no node reaches itself, one that is not started and leads to the most
    would lead to another that is not (`AllAreStarted`); patterns that match one file overlap
    (`MeetingPatternsOverlap`); reaching downwards is reaching upwards (`LeadsFromAbove`); and a sum, in
    whatever order, does not exceed that of larger costs (`TotalIsMonotone`).
* **Specs_proofs**, for the three components of `MC_Specs`:
  * `TypeCorrect`, `ClosureIsExact`, `SoundReuse` of the invalidation. What a walk has
    reached is closed under the edges but for the queue (`ReachedIsClosed`), so at its end
    the complement is closed backwards and, `Ancestry` being least, holds the ancestry
    of each of its nodes; conversely all that is reached has a root or a reported
    node in its ancestry (`ReachedIsConcerned`). A node that is no root says the same in both
    revisions (`NoRootIsUnchanged`), so an ancestry without roots is the same set in both
    (`SameAncestry`).
  * `BlockersReachSomebody` (`NoBlockerIsLost`) and `CleanSpecsShow` (`CleanSpecsCanBeShown`)
    need no more than that a report was made by `Reports` from some candidate (`ReportsAreMade`); the rest
    is the profile itself: each finding has an owner whose contract lists it, and a document
    without contradicted checks can be shown what its checks need, which hides what they hide.
  * `ApprovalsAreAsked` (`ApprovedIsWhatWasAsked`) and `RevisionsLoseNothing` (`NothingIsLost`), from one
    invariant (`RevisionInv`): the contract is of the request, not of what the pinned file has become
    (`ContractIsOfRequest`); a passed verdict, of the run or of a repair, materialised again what it passed, so its candidate is
    asked for and keeps its baseline whatever happens to files later (`VerdictsAreSound`); and an envelope nobody rewrote is its verdict's
    (`EnvelopesAreVerified`). The files are finite whatever is written into them (`FilesAreFinite`), those of a
    repair included (`RepairsAreFinite`). That a patch of any length leaves
    alone what is outside its authority is shown over the documents in between its operations
    (`DocumentsInBetween`, `OperationsStayWithin`).
  * `DeliveriesAreOfProvenProducts` (`DeliveredIsProven`): every prepared demo is the compile of its
    own document (`PreparedAreCompiled`), no patch touches a runtime file (`WorkspacesAreGenerated`), and
    evidence that passed did so for the hidden obligations it names (`EvidenceIsMade`);
    equal policies then are equal contracts. `DeliveryInv` is their conjunction. The scope holds exactly what was asked
    for because keys are unique in a sound document.
* **DemoStore_proofs** also has `MarkersAreOfWholeDemos` (`OnboardedDemoIsWhole`): a marker without its snapshot
  lies in a directory whose deletion has begun and not returned (`EmptiedByDeletion`).

* **DurableRun_proofs** also has `SchedulesFollowSimulation` and `OnlyCyclesStall`, of
  `RunSchedule`. A run is at some point of some pass of the simulation, and each pass
  before it has run a node, so there are no more passes than nodes (`ScheduleInv`);
  where nothing is ready all further passes are idle. The search is proved to find
  either a *circle* (nodes each of which leads to another one of them) or that in
  any set of nodes some one is not fed from within (`HasFound`). Nodes that are
  left over contradict the second, and a circle is never all done (`NoCircleIsDone`).

*Induction.* A fold or a recursive function is followed by induction on the *set* of numbers
up to which a fact holds (`SetInduction`, `EveryNumber` and `EveryCount`, from the library's theorem that a non-empty set of a well-founded order has
a least element), which needs no operator as a parameter. It carries what can be
said of one step, as in `RunSchedule`, `RunControl`, `PlanStore`, `Walks`, `WorkflowCompiler` and `SpecRevision`.

*Only model-checked*: all liveness (`RunSettles`, `CallsReturn`,
`EveryRunLeavesActive`, `OnboardingsEnd`, `ModelCallsSettle`), which rests on fairness and ENABLED.

## 6. Not modelled

Contents of outputs, artifacts and documents (equal content stands for equal
digest), zod and JSON schemas, canonical JSON, HTML (`studio.ts`), logs and
messages. Reading back a torn `history.jsonl`. Starting a run twice under one
workflow id. `spec-to-demo-request.ts`, which copies files into inputs. Audit
exports, quotas and the views of evidence and lineage. `revision-benchmark.ts` (one
fixed graph through the impact engine), the benchmarks, the generators of
examples, the examples themselves, and the scripts that check artifacts of a
finished run: programs that run once over files, without state between calls.

## 7. Plan

1. done: run order, durable run, ledger, Studio run, demo store, release loop,
   preview environments, invalidation; CAS, control records, run control,
   compiler and editor; plan store, router, gateways; the two templates.
2. done: theorems about the durable run, its order, ledger, Studio run, demo store, release loop,
   previews and all of `MC_Records`, `MC_Gateways` and `MC_Specs`.
3. done: every safety invariant that a passing run checks is a theorem.
