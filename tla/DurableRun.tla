----------------------------- MODULE DurableRun -----------------------------
(***************************************************************************)
(* One run of durableWorkflow on Temporal.                                 *)
(*                                                                         *)
(* The workflow coroutine walks the graph, awaiting for each node a timer  *)
(* (wait nodes), a decision (approval nodes), the executeNode activity and *)
(* the projectNodeCompletion activity.  An activity is a series of         *)
(* attempts, each executing on some worker: an attempt can succeed, fail   *)
(* retryably or not, lose its answer with its worker, or be timed out      *)
(* while it still runs, in which case it goes on beside its successor.     *)
(* The target of a side effect and the projection sink are external; they  *)
(* apply a request unless they already hold its key.                       *)
(*                                                                         *)
(* Temporal replays the workflow's variables from history after a worker   *)
(* restart, so they are durable here and a restart only loses attempts.    *)
(***************************************************************************)
EXTENDS ReadyOrder, FiniteSets

CONSTANTS
  Nodes,            \* node ids, as their rank in the UTF-16 order
  Upstream,         \* Upstream[n]: the nodes feeding n
  WaitNodes,        \* kind = "wait"
  ApprovalNodes,    \* kind = "approval"
  SideEffectNodes,  \* kind = "side_effect"
  Operation,        \* Operation[n]: sideEffect.operation
  MaxAttempts       \* MaxAttempts[n]: budget.maxAttempts

ASSUME NodesAssumption == Nodes \subseteq Nat \ {0} /\ IsFiniteSet(Nodes)
ASSUME GraphAssumption == Upstream \in [Nodes -> SUBSET Nodes]
ASSUME KindAssumption ==
  /\ WaitNodes \subseteq Nodes /\ ApprovalNodes \subseteq Nodes /\ SideEffectNodes \subseteq Nodes
  /\ WaitNodes \cap ApprovalNodes = {}
  /\ SideEffectNodes \cap (WaitNodes \cup ApprovalNodes) = {}
ASSUME BudgetAssumption == MaxAttempts \in [Nodes -> Nat \ {0}]

VARIABLES
  controls,    \* input: wait nodes whose waitMs is a non-negative integer
  phase,       \* what the coroutine awaits, or how it ended
  current,     \* the node of the for loop, 0 before the first
  nodeOutputs, \* keys of the nodeOutputs map
  approvals,   \* the approvals map, "none" where it has no entry
  cancelRequested, \* the server has recorded a cancellation request
  cancelled,   \* the workflow has heard of it: its root scope is cancelled
  activity,    \* the awaited activity: state and number of its last attempt
  live,        \* attempts executing on some worker
  heldKeys,    \* keys held by the side-effect target and by the projection sink
  delivered,   \* delivered[task][n]: requests they applied for node n
  executions,  \* history: executeNode attempts started, per node
  decided      \* history: the decision the coroutine read, per node

wfVars == <<controls, phase, current, nodeOutputs, approvals, cancelRequested, cancelled, decided>>
workVars == <<live, heldKeys, delivered, executions>>
vars == <<wfVars, activity, workVars>>

Task == {"execute", "project"}
Working == {"execute", "project"}  \* the phase bears the name of the awaited task
Ended == {"completed", "failed", "cancelled"}
Decision == {"none", "approved", "rejected"}

Attempt == [task : Task, node : Nodes, number : Nat \ {0}, applied : BOOLEAN]

\* A variant with a plausible mistake: a key of its own for every attempt.
PerAttemptKey(n, number) == <<n, Operation[n], number>>

\* `${tenantId}:${runId}:${node.id}:${operation}`, within this run
IdempotencyKey(n, number) == <<n, Operation[n]>>
\* `${runId}:${nodeId}:completed`, within this run
EventKey(n, number) == <<n, "completed">>

DeliveryKey(a) ==
  IF a.task = "project" THEN EventKey(a.node, a.number) ELSE IdempotencyKey(a.node, a.number)

\* Attempts that must reach a target or a sink before they can succeed.
Delivers(a) == a.task = "project" \/ a.node \in SideEffectNodes

Key == {EventKey(n, 1) : n \in Nodes} \cup {IdempotencyKey(n, 1) : n \in Nodes}

TypeOK ==
  /\ controls \subseteq WaitNodes
  /\ phase \in {"starting", "waiting_timer", "waiting_approval"} \cup Working \cup Ended
  /\ current \in Nodes \cup {0}
  /\ nodeOutputs \subseteq Nodes
  /\ approvals \in [Nodes -> Decision]
  /\ decided \in [Nodes -> Decision]
  /\ cancelRequested \in BOOLEAN /\ cancelled \in BOOLEAN
  /\ activity \in [state : {"none", "scheduled", "started"}, attempt : Nat]
  /\ live \subseteq Attempt
  /\ heldKeys \in [Task -> SUBSET Key]
  /\ delivered \in [Task -> [Nodes -> Nat]]
  /\ executions \in [Nodes -> Nat]

NoActivity == [state |-> "none", attempt |-> 0]
NewActivity == [state |-> "scheduled", attempt |-> 0]

Init ==
  /\ controls \in SUBSET WaitNodes
  /\ phase = "starting"
  /\ current = 0
  /\ nodeOutputs = {}
  /\ approvals = [n \in Nodes |-> "none"]
  /\ decided = [n \in Nodes |-> "none"]
  /\ cancelRequested = FALSE /\ cancelled = FALSE
  /\ activity = NoActivity
  /\ live = {}
  /\ heldKeys = [t \in Task |-> {}]
  /\ delivered = [t \in Task |-> [n \in Nodes |-> 0]]
  /\ executions = [n \in Nodes |-> 0]

-----------------------------------------------------------------------------
(* The coroutine, from one await to the next.                              *)

\* A new await in a cancelled scope throws CancelledFailure at once.
AwaitActivity(task) ==
  IF cancelled THEN phase' = "cancelled" /\ activity' = NoActivity
               ELSE phase' = task /\ activity' = NewActivity

\* The body of the for loop up to the first await of node n.
BeginNode(n) ==
  /\ current' = n
  /\ \/ n \in WaitNodes \ controls /\ phase' = "failed" /\ activity' = NoActivity
     \/ /\ n \in controls \/ n \in ApprovalNodes
        /\ phase' = IF cancelled THEN "cancelled"
                    ELSE IF n \in WaitNodes THEN "waiting_timer" ELSE "waiting_approval"
        /\ activity' = NoActivity
     \/ n \notin WaitNodes \cup ApprovalNodes /\ AwaitActivity("execute")

\* From the end of a node (or the start of the run) to the next await.  What the
\* loop leaves is a validated workflow's: each of its outputs has one producer,
\* whose ports validateOutputs has checked, so the two WORKFLOW_OUTPUT_MISSING
\* throws after the loop are left out.
Advance(done) ==
  /\ nodeOutputs' = done
  /\ \/ \E n \in Nodes : IsNextInPass(n, current, Ready(Nodes, Upstream, done)) /\ BeginNode(n)
     \/ /\ Ready(Nodes, Upstream, done) = {}
        /\ phase' = IF done = Nodes THEN "completed" ELSE "failed"
        /\ activity' = NoActivity
        /\ UNCHANGED current

StartRun ==
  /\ phase = "starting"
  /\ Advance({})
  /\ UNCHANGED <<controls, approvals, cancelRequested, cancelled, decided, workVars>>

TimerFires ==
  /\ phase = "waiting_timer"
  /\ phase' = "execute" /\ activity' = NewActivity
  /\ UNCHANGED <<controls, current, nodeOutputs, approvals, cancelRequested, cancelled, decided, workVars>>

\* The handler only writes the map: a decision may come before its node, and
\* one that has not been read yet is replaced by a later one.
SignalApproval(n, decision) ==
  /\ phase \notin Ended
  /\ approvals' = [approvals EXCEPT ![n] = decision]
  /\ UNCHANGED <<controls, phase, current, nodeOutputs, cancelRequested, cancelled, decided, activity, workVars>>

ReadAnyDecision ==
  /\ phase = "waiting_approval"
  /\ approvals[current] # "none"
  /\ decided' = [decided EXCEPT ![current] = approvals[current]]
  /\ phase' = "execute" /\ activity' = NewActivity
  /\ UNCHANGED <<controls, current, nodeOutputs, approvals, cancelRequested, cancelled, workVars>>

ReadDecision ==
  /\ phase = "waiting_approval"
  /\ approvals[current] # "none"
  /\ decided' = [decided EXCEPT ![current] = approvals[current]]
  /\ IF approvals[current] = "approved"
     THEN phase' = "execute" /\ activity' = NewActivity
     ELSE phase' = "failed" /\ activity' = NoActivity
  /\ UNCHANGED <<controls, current, nodeOutputs, approvals, cancelRequested, cancelled, workVars>>

\* handle.cancel() returns once the server has recorded the request: whatever
\* is scheduled still starts, retries and finishes until the workflow hears.
RequestCancel ==
  /\ phase \notin Ended /\ ~cancelRequested
  /\ cancelRequested' = TRUE
  /\ UNCHANGED <<controls, phase, current, nodeOutputs, approvals, cancelled, decided, activity, workVars>>

\* The workflow task that brings the request.  Timers, conditions and activities
\* that have no running attempt reject at once; a running attempt is told and
\* awaited (WAIT_CANCELLATION_COMPLETED).
HearCancel ==
  /\ phase \notin Ended /\ cancelRequested /\ ~cancelled
  /\ cancelled' = TRUE
  /\ IF activity.state = "started" \/ phase = "starting"
     THEN UNCHANGED <<phase, activity>>
     ELSE phase' = "cancelled" /\ activity' = NoActivity
  /\ UNCHANGED <<controls, current, nodeOutputs, approvals, cancelRequested, decided, workVars>>

-----------------------------------------------------------------------------
(* Attempts.                                                               *)

StartAttempt ==
  /\ phase \in Working /\ activity.state = "scheduled"
  /\ activity' = [state |-> "started", attempt |-> activity.attempt + 1]
  /\ live' = live \cup {[task |-> phase, node |-> current,
                         number |-> activity.attempt + 1, applied |-> FALSE]}
  /\ executions' = IF phase = "execute" THEN [executions EXCEPT ![current] = @ + 1]
                                        ELSE executions
  /\ UNCHANGED <<wfVars, heldKeys, delivered>>

\* The attempt's request reaches the target or the sink.
Deliver(a) ==
  /\ Delivers(a) /\ ~a.applied
  /\ live' = (live \ {a}) \cup {[a EXCEPT !.applied = TRUE]}
  /\ IF DeliveryKey(a) \in heldKeys[a.task]
     THEN UNCHANGED <<heldKeys, delivered>>
     ELSE /\ heldKeys' = [heldKeys EXCEPT ![a.task] = @ \cup {DeliveryKey(a)}]
          /\ delivered' = [delivered EXCEPT ![a.task][a.node] = @ + 1]
  /\ UNCHANGED <<wfVars, activity, executions>>

\* The attempt the server still waits for; any other answer is discarded.
Current(a) ==
  /\ activity.state = "started"
  /\ a.task = phase /\ a.node = current /\ a.number = activity.attempt

Succeed(a) ==
  /\ Current(a)
  /\ Delivers(a) => a.applied
  /\ live' = live \ {a}
  /\ IF a.task = "execute"
     THEN AwaitActivity("project") /\ UNCHANGED <<current, nodeOutputs>>
     ELSE Advance(nodeOutputs \cup {current})
  /\ UNCHANGED <<controls, approvals, cancelRequested, cancelled, decided, heldKeys, delivered, executions>>

FailRun ==
  /\ phase' = "failed" /\ activity' = NoActivity
  /\ UNCHANGED <<controls, current, nodeOutputs, approvals, cancelRequested, cancelled, decided>>

RetryOnceMore ==
  IF activity.attempt <= MaxAttempts[current] /\ ~cancelled
  THEN activity' = [activity EXCEPT !.state = "scheduled"] /\ UNCHANGED wfVars
  ELSE FailRun

RetryAnyway ==
  IF activity.attempt < MaxAttempts[current]
  THEN activity' = [activity EXCEPT !.state = "scheduled"] /\ UNCHANGED wfVars
  ELSE FailRun

\* Another attempt, unless the budget is spent or the workflow had it cancelled.
RetryOrFail ==
  IF activity.attempt < MaxAttempts[current] /\ ~cancelled
  THEN activity' = [activity EXCEPT !.state = "scheduled"] /\ UNCHANGED wfVars
  ELSE FailRun

\* A class in retryableClasses, or an error of no known class.
FailRetryable(a) ==
  /\ Current(a)
  /\ live' = live \ {a}
  /\ RetryOrFail
  /\ UNCHANGED <<heldKeys, delivered, executions>>

\* A known class that is not in retryableClasses, or outputs on the wrong ports.
FailFinally(a) ==
  /\ Current(a) /\ a.task = "execute"
  /\ live' = live \ {a}
  /\ FailRun
  /\ UNCHANGED <<heldKeys, delivered, executions>>

\* The executor honours the abort signal.
StopCancelled(a) ==
  /\ Current(a) /\ cancelled
  /\ live' = live \ {a}
  /\ phase' = "cancelled" /\ activity' = NoActivity
  /\ UNCHANGED <<controls, current, nodeOutputs, approvals, cancelRequested, cancelled, decided,
                 heldKeys, delivered, executions>>

NeverTimeOut == FALSE /\ UNCHANGED vars

\* startToClose or heartbeat timeout: the server gives the attempt up.
TimeOut ==
  /\ activity.state = "started"
  /\ RetryOrFail
  /\ UNCHANGED workVars

\* A worker crashes or stops, or a given-up attempt ends unheard.
LoseAttempt(a) ==
  /\ live' = live \ {a}
  /\ UNCHANGED <<wfVars, activity, heldKeys, delivered, executions>>

WorkflowStep == StartRun \/ TimerFires \/ ReadDecision
AttemptStep(a) ==
  Deliver(a) \/ Succeed(a) \/ FailRetryable(a) \/ FailFinally(a) \/ StopCancelled(a)
    \/ LoseAttempt(a)

Next ==
  \/ WorkflowStep
  \/ \E n \in ApprovalNodes, d \in {"approved", "rejected"} : SignalApproval(n, d)
  \/ RequestCancel \/ HearCancel
  \/ StartAttempt
  \/ \E a \in live : AttemptStep(a)
  \/ TimeOut

\* Temporal fires timers, dispatches workflow tasks (one that brings a request
\* to cancel among them) and scheduled attempts while a worker polls, and
\* enforces timeouts; attempts and people owe nothing.
Fairness ==
  WF_vars(WorkflowStep) /\ WF_vars(HearCancel) /\ WF_vars(StartAttempt) /\ WF_vars(TimeOut)

Spec == Init /\ [][Next]_vars /\ Fairness

-----------------------------------------------------------------------------
(* Duplicate delivery is harmless: the target applies the request of a     *)
(* side_effect node at most once however many attempts reach it, also when *)
(* a timed-out attempt overtakes its successor, and exactly once when the  *)
(* run goes on past the node.                                              *)
EffectsExactlyOnce ==
  \A n \in SideEffectNodes :
    /\ delivered["execute"][n] <= 1
    /\ n \in nodeOutputs => delivered["execute"][n] = 1

\* Everything n depends on, directly or not: the least set closed under Upstream.
Ancestors(n) ==
  {a \in Nodes :
     \A S \in SUBSET Nodes :
       Upstream[n] \subseteq S /\ (\A m \in S : Upstream[m] \subseteq S) => a \in S}

(* No attempt of a node, and no effect it causes, exists unless every      *)
(* approval on any path to it (and its own, if it is one) was read as      *)
(* approved; decisions that arrive later change nothing already passed.    *)
ApprovalsGateExecution ==
  \A n \in Nodes :
    executions[n] > 0 \/ delivered["execute"][n] > 0 =>
      \A a \in (Ancestors(n) \cup {n}) \cap ApprovalNodes : decided[a] = "approved"

(* Retries of one activity, of the projection activity in particular,      *)
(* never give a node more executions than its attempt budget.              *)
ExecutionsWithinBudget ==
  \A n \in Nodes : executions[n] <= MaxAttempts[n]

(* The projection is never behind the run: a node counts as completed, and *)
(* feeds others, only when the sink holds its one completion row; and no   *)
(* row exists for a node that was never executed.                          *)
ProjectionLeadsCompletion ==
  \A n \in Nodes :
    /\ n \in nodeOutputs => delivered["project"][n] = 1
    /\ delivered["project"][n] <= 1
    /\ delivered["project"][n] = 1 => executions[n] > 0 /\ n \in nodeOutputs \cup {current}

(* What the two sinks hold, which outlive the run, is the story of the run: *)
(* no effect twice, none missing behind it, no completion of another node. *)
SinksTellTheRun == EffectsExactlyOnce /\ ProjectionLeadsCompletion

(* From the moment the workflow has heard of a request to cancel no        *)
(* further attempt starts, on any worker, by a retry or at a later node.   *)
(* (Between the request and that moment attempts do start.)                *)
CancelledStartsNothing ==
  [][cancelled => \A a \in live' : \E b \in live : [b EXCEPT !.applied = a.applied] = a]_vars

(* Seen from outside, the run is a run of the abstract graph.              *)
Verdict ==
  IF phase = "completed" THEN "completed"
  ELSE IF phase \in {"failed", "cancelled"} THEN "aborted" ELSE "open"

Abstract == INSTANCE DagRun WITH
  finished <- nodeOutputs,
  effected <- {n \in SideEffectNodes : delivered["execute"][n] > 0},
  verdict <- Verdict

ImplementsDagRun == Abstract!Spec

(* Every run ends, or waits for a decision nobody gives; and a run that is *)
(* asked to cancel ends, also when it waits for a person.                  *)
RunSettles ==
  \/ <>(phase \in Ended)
  \/ <>[](phase = "waiting_approval" /\ approvals[current] = "none" /\ ~cancelRequested)
=============================================================================
