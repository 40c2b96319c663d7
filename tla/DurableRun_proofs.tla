-------------------------- MODULE DurableRun_proofs -------------------------
(***************************************************************************)
(* Proofs about DurableRun, for every graph, budget and number of nodes,   *)
(* and about the order of its nodes, RunSchedule, for every graph.         *)
(*                                                                         *)
(* The two share no variable.  The second part first says what the loops   *)
(* of the simulation and of the cycle search do, turn by turn, then that a *)
(* run is always at a point of the simulation (ScheduleInv), and last that *)
(* nodes which wait for each other are what the search finds.              *)
(***************************************************************************)
EXTENDS DurableRun, RunSchedule, WellFoundedInduction, FiniteSetTheorems, SequenceTheorems, TLAPS

(* Where the coroutine can stand: at a node whose upstream outputs are all *)
(* there and whose own are not.                                            *)
InLoop == phase \in {"waiting_timer", "waiting_approval"} \cup Working

LoopInv ==
  /\ InLoop => /\ current \in Nodes
               /\ current \notin nodeOutputs
               /\ Upstream[current] \subseteq nodeOutputs
  /\ phase = "waiting_timer" => current \in WaitNodes
  /\ phase = "starting" => current = 0 /\ nodeOutputs = {}
  /\ \A n \in nodeOutputs : Upstream[n] \subseteq nodeOutputs

(* An activity is awaited exactly in the working phases; its attempt count *)
(* respects the budget, and a run that heard of its cancellation never has *)
(* one to start.                                                           *)
ActivityInv ==
  /\ phase \in Working <=> activity.state # "none"
  /\ activity.state = "scheduled" => activity.attempt < MaxAttempts[current]
  /\ cancelled => activity.state # "scheduled" /\ phase \notin {"waiting_timer", "waiting_approval"}
  /\ activity.state = "started" => activity.attempt > 0 /\ activity.attempt <= MaxAttempts[current]

(* Executions happen only at or behind the coroutine, after the decision.  *)
ExecutionInv ==
  \A n \in Nodes :
    /\ executions[n] <= MaxAttempts[n]
    /\ executions[n] > 0 => /\ Upstream[n] \subseteq nodeOutputs
                            /\ n \in nodeOutputs \cup {current}
                            /\ n \in ApprovalNodes => decided[n] = "approved"
    /\ n = current /\ phase = "execute" => executions[n] = activity.attempt
    /\ n = current /\ phase \in {"waiting_timer", "waiting_approval"} => executions[n] = 0
    /\ n = current /\ phase = "project" => executions[n] > 0

DecisionInv ==
  \A n \in ApprovalNodes :
    n \in nodeOutputs \/ (n = current /\ phase \in Working) => decided[n] = "approved"

(* What the target and the sink hold, and what they applied.               *)
DeliveryInv ==
  \A n \in Nodes :
    /\ delivered["execute"][n] =
         IF n \in SideEffectNodes /\ IdempotencyKey(n, 1) \in heldKeys["execute"] THEN 1 ELSE 0
    /\ delivered["project"][n] = IF EventKey(n, 1) \in heldKeys["project"] THEN 1 ELSE 0
    /\ delivered["execute"][n] > 0 \/ delivered["project"][n] > 0 => executions[n] > 0
    /\ n \in SideEffectNodes /\ (n \in nodeOutputs \/ (n = current /\ phase = "project"))
         => IdempotencyKey(n, 1) \in heldKeys["execute"]
    /\ n \in nodeOutputs => EventKey(n, 1) \in heldKeys["project"]

LiveInv ==
  \A a \in live :
    /\ executions[a.node] > 0
    /\ a.applied => Delivers(a) /\ DeliveryKey(a) \in heldKeys[a.task]

IInv == TypeOK /\ LoopInv /\ ActivityInv /\ ExecutionInv /\ DecisionInv /\ DeliveryInv /\ LiveInv

-----------------------------------------------------------------------------
LEMMA InitIInv == Init => IInv
<1> SUFFICES ASSUME Init PROVE IInv
  OBVIOUS
<1> USE DEF Init
<1>1. TypeOK
  BY DEF TypeOK, Working, Ended, Decision, NoActivity, Task
<1>2. LoopInv /\ ActivityInv /\ LiveInv
  BY DEF LoopInv, InLoop, ActivityInv, LiveInv, Working, NoActivity
<1>3. ExecutionInv /\ DecisionInv
  BY BudgetAssumption, KindAssumption DEF ExecutionInv, DecisionInv, Working
<1>4. DeliveryInv
  BY DEF DeliveryInv, Task
<1> QED BY <1>1, <1>2, <1>3, <1>4 DEF IInv

(* The coroutine's own moves that leave the graph walk where it is.        *)
LEMMA WaitStep ==
  ASSUME IInv, TimerFires \/ ReadDecision \/ RequestCancel \/ HearCancel
         \/ \E n \in ApprovalNodes, d \in {"approved", "rejected"} : SignalApproval(n, d)
  PROVE  IInv'
<1> USE DEF IInv, NewActivity, NoActivity, Working, Ended, Task, workVars, wfVars
<1> USE KindAssumption, BudgetAssumption
<1>1. CASE TimerFires
  <2> USE <1>1 DEF TimerFires
  <2>1. TypeOK'
    BY DEF TypeOK, Decision
  <2>2. LoopInv' /\ ActivityInv' /\ DecisionInv'
    BY DEF TypeOK, LoopInv, ActivityInv, DecisionInv, InLoop
  <2>3. ExecutionInv'
    BY DEF TypeOK, ExecutionInv, LoopInv, InLoop
  <2>4. DeliveryInv'
    BY DEF DeliveryInv, LoopInv
  <2>5. LiveInv'
    BY DEF LiveInv, DeliveryKey
  <2> QED BY <2>1, <2>2, <2>3, <2>4, <2>5
<1>2. CASE ReadDecision
  <2> USE <1>2 DEF ReadDecision
  <2>1. TypeOK'
    BY DEF TypeOK, Decision, LoopInv, InLoop
  <2>2. LoopInv' /\ ActivityInv'
    BY DEF TypeOK, LoopInv, ActivityInv, InLoop
  <2>3. ExecutionInv' /\ DecisionInv'
    BY DEF TypeOK, ExecutionInv, DecisionInv, LoopInv, InLoop
  <2>4. DeliveryInv'
    BY DEF DeliveryInv, LoopInv
  <2>5. LiveInv'
    BY DEF LiveInv, DeliveryKey
  <2> QED BY <2>1, <2>2, <2>3, <2>4, <2>5
<1>3. CASE HearCancel
  <2> USE <1>3 DEF HearCancel
  <2>1. TypeOK'
    BY DEF TypeOK, Decision
  <2>2. LoopInv' /\ ActivityInv'
    BY DEF TypeOK, LoopInv, ActivityInv, InLoop
  <2>3. ExecutionInv' /\ DecisionInv'
    BY DEF TypeOK, ExecutionInv, DecisionInv
  <2>4. DeliveryInv'
    BY DEF DeliveryInv, LoopInv
  <2>5. LiveInv'
    BY DEF LiveInv, DeliveryKey
  <2> QED BY <2>1, <2>2, <2>3, <2>4, <2>5
<1>5. CASE RequestCancel
  <2> USE <1>5 DEF RequestCancel
  <2>1. TypeOK' /\ LoopInv' /\ ActivityInv' /\ ExecutionInv' /\ DecisionInv'
    BY DEF TypeOK, LoopInv, ActivityInv, ExecutionInv, DecisionInv, InLoop
  <2>2. DeliveryInv' /\ LiveInv'
    BY DEF DeliveryInv, LiveInv, DeliveryKey
  <2> QED BY <2>1, <2>2
<1>4. ASSUME NEW n \in ApprovalNodes, NEW d \in {"approved", "rejected"}, SignalApproval(n, d)
      PROVE  IInv'
  <2> USE <1>4 DEF SignalApproval
  <2>1. TypeOK'
    BY DEF TypeOK, Decision
  <2>2. LoopInv' /\ ActivityInv' /\ ExecutionInv' /\ DecisionInv'
    BY DEF LoopInv, ActivityInv, ExecutionInv, DecisionInv, InLoop
  <2>3. DeliveryInv' /\ LiveInv'
    BY DEF DeliveryInv, LiveInv, DeliveryKey
  <2> QED BY <2>1, <2>2, <2>3
<1> QED BY <1>1, <1>2, <1>3, <1>4, <1>5

(* From the end of a node, or the start of the run, to the next await:     *)
(* done is the set of finished nodes the loop goes on with.                *)
LEMMA AdvanceStep ==
  ASSUME IInv, NEW done \in SUBSET Nodes, Advance(done),
         UNCHANGED <<controls, approvals, cancelRequested, cancelled, decided, heldKeys, delivered, executions>>,
         live' \in SUBSET live,
         nodeOutputs \subseteq done,
         \A n \in done :
           /\ Upstream[n] \subseteq done
           /\ n \in ApprovalNodes => decided[n] = "approved"
           /\ n \in SideEffectNodes => IdempotencyKey(n, 1) \in heldKeys["execute"]
           /\ EventKey(n, 1) \in heldKeys["project"],
         \A n \in Nodes : executions[n] > 0 => n \in done
  PROVE  IInv'
<1> USE KindAssumption, BudgetAssumption, GraphAssumption
<1> USE DEF Working, Ended
<1>1. nodeOutputs' = done
  BY DEF Advance
<1>2. CASE \E n \in Nodes : IsNextInPass(n, current, Ready(Nodes, Upstream, done)) /\ BeginNode(n)
  <2>1. PICK n \in Nodes : IsNextInPass(n, current, Ready(Nodes, Upstream, done)) /\ BeginNode(n)
    BY <1>2
  <2>2. n \notin done /\ Upstream[n] \subseteq done /\ current' = n
    BY <2>1 DEF IsNextInPass, Ready, BeginNode
  <2>3. \/ phase' \in {"failed", "cancelled"} /\ activity' = NoActivity
        \/ phase' = "waiting_timer" /\ activity' = NoActivity /\ ~cancelled /\ n \in WaitNodes
        \/ phase' = "waiting_approval" /\ activity' = NoActivity /\ ~cancelled
        \/ /\ phase' = "execute" /\ activity' = NewActivity /\ ~cancelled
           /\ n \notin ApprovalNodes
    <3>1. controls \subseteq WaitNodes
      BY DEF IInv, TypeOK
    <3> QED BY <2>1, <3>1 DEF BeginNode, AwaitActivity
  <2>4. TypeOK'
    BY <1>1, <2>2, <2>3 DEF IInv, TypeOK, NoActivity, NewActivity
  <2>5. LoopInv'
    BY <1>1, <2>2, <2>3 DEF LoopInv, InLoop
  <2>6. ActivityInv'
    <3>1. MaxAttempts[n] \in Nat \ {0} /\ cancelled' = cancelled
      OBVIOUS
    <3> QED BY <2>2, <2>3, <3>1 DEF ActivityInv, NoActivity, NewActivity
  <2>7. executions[n] = 0 /\ executions' = executions
    BY <2>2 DEF IInv, TypeOK
  <2>8. ExecutionInv'
    <3>1. ASSUME NEW m \in Nodes
          PROVE  executions[m] > 0 => /\ Upstream[m] \subseteq done /\ m \in done
                                      /\ m \in ApprovalNodes => decided[m] = "approved"
      BY <3>1
    <3>2. \A m \in Nodes : executions[m] <= MaxAttempts[m]
      BY DEF IInv, ExecutionInv
    <3> QED BY <1>1, <2>2, <2>3, <2>7, <3>1, <3>2 DEF ExecutionInv, NoActivity, NewActivity
  <2>9. DecisionInv'
    BY <1>1, <2>2, <2>3 DEF DecisionInv
  <2>10. DeliveryInv'
    BY <1>1, <2>2, <2>3 DEF IInv, DeliveryInv
  <2>11. LiveInv'
    BY DEF IInv, LiveInv, DeliveryKey
  <2> QED BY <2>4, <2>5, <2>6, <2>8, <2>9, <2>10, <2>11 DEF IInv
<1>3. CASE /\ phase' = IF done = Nodes THEN "completed" ELSE "failed"
           /\ activity' = NoActivity /\ UNCHANGED current
  <2>1. phase' \in {"completed", "failed"} /\ activity' = NoActivity /\ current' = current
    BY <1>3
  <2>2. TypeOK'
    BY <1>1, <2>1 DEF IInv, TypeOK, NoActivity
  <2>3. LoopInv' /\ ActivityInv'
    BY <1>1, <2>1 DEF LoopInv, InLoop, ActivityInv, NoActivity
  <2>4. ExecutionInv'
    BY <1>1, <2>1 DEF IInv, ExecutionInv
  <2>5. DecisionInv'
    BY <1>1, <2>1 DEF DecisionInv
  <2>6. DeliveryInv'
    BY <1>1, <2>1 DEF IInv, DeliveryInv
  <2>7. LiveInv'
    BY DEF IInv, LiveInv, DeliveryKey
  <2> QED BY <2>2, <2>3, <2>4, <2>5, <2>6, <2>7 DEF IInv
<1> QED BY <1>2, <1>3 DEF Advance

LEMMA StartRunStep == ASSUME IInv, StartRun PROVE IInv'
<1>1. nodeOutputs = {} /\ \A n \in Nodes : ~(executions[n] > 0)
  BY NodesAssumption DEF StartRun, IInv, LoopInv, ExecutionInv
<1> QED BY <1>1, AdvanceStep DEF StartRun, workVars

LEMMA StartAttemptStep == ASSUME IInv, StartAttempt PROVE IInv'
<1> USE KindAssumption, BudgetAssumption, GraphAssumption
<1> USE DEF Working, Ended
<1> DEFINE a == [task |-> phase, node |-> current, number |-> activity.attempt + 1,
                 applied |-> FALSE]
<1>1. /\ phase \in {"execute", "project"} /\ current \in Nodes /\ current \notin nodeOutputs
      /\ Upstream[current] \subseteq nodeOutputs
      /\ activity.attempt \in Nat /\ activity.attempt < MaxAttempts[current]
      /\ activity.state = "scheduled" /\ ~cancelled
  BY DEF IInv, TypeOK, LoopInv, ActivityInv, InLoop, StartAttempt
<1>2. /\ activity' = [state |-> "started", attempt |-> activity.attempt + 1]
      /\ live' = live \cup {a}
      /\ UNCHANGED <<controls, phase, current, nodeOutputs, approvals, cancelRequested, cancelled, decided,
                     heldKeys, delivered>>
  BY DEF StartAttempt, wfVars
<1>3. /\ executions' \in [Nodes -> Nat]
      /\ \A n \in Nodes \ {current} : executions'[n] = executions[n]
      /\ phase = "execute" => executions'[current] = activity.attempt + 1
      /\ phase = "project" => executions'[current] = executions[current]
  BY <1>1 DEF StartAttempt, IInv, TypeOK, ExecutionInv
<1>4. TypeOK'
  <2>1. a \in Attempt
    BY <1>1 DEF Attempt, Task
  <2>2. live' \subseteq Attempt
    BY <1>2, <2>1 DEF IInv, TypeOK
  <2>3. activity' \in [state : {"none", "scheduled", "started"}, attempt : Nat]
    BY <1>1, <1>2
  <2> QED BY <1>2, <1>3, <2>2, <2>3 DEF IInv, TypeOK
<1>5. LoopInv' /\ DecisionInv'
  BY <1>2 DEF IInv, LoopInv, DecisionInv, InLoop
<1>6. ActivityInv'
  <2>1. MaxAttempts[current] \in Nat
    BY <1>1
  <2> QED BY <1>1, <1>2, <2>1 DEF ActivityInv
<1>7. ExecutionInv'
  <2>1. current \in ApprovalNodes => decided[current] = "approved"
    BY <1>1 DEF IInv, DecisionInv
  <2>2. executions[current] \in Nat /\ MaxAttempts[current] \in Nat
    BY <1>1 DEF IInv, TypeOK
  <2> QED BY <1>1, <1>2, <1>3, <2>1, <2>2 DEF IInv, ExecutionInv
<1>8. DeliveryInv'
  <2>1. \A n \in Nodes : executions[n] > 0 => executions'[n] > 0
    BY <1>1, <1>3
  <2> QED BY <1>1, <1>2, <2>1 DEF IInv, DeliveryInv
<1>9. LiveInv'
  <2>1. \A n \in Nodes : executions[n] > 0 => executions'[n] > 0
    BY <1>1, <1>3
  <2>2. executions'[current] > 0
    BY <1>1, <1>3 DEF IInv, ExecutionInv
  <2>3. \A b \in live : b.node \in Nodes
    BY DEF IInv, TypeOK, Attempt
  <2> QED BY <1>2, <2>1, <2>2, <2>3 DEF IInv, LiveInv, DeliveryKey, Delivers
<1> QED BY <1>4, <1>5, <1>6, <1>7, <1>8, <1>9 DEF IInv

LEMMA DeliverStep == ASSUME IInv, NEW a \in live, Deliver(a) PROVE IInv'
<1> USE KindAssumption
<1> DEFINE b == [a EXCEPT !.applied = TRUE]
<1>1. /\ a \in Attempt /\ b \in Attempt /\ b.task = a.task /\ b.node = a.node /\ b.applied
      /\ a.task \in {"execute", "project"} /\ a.node \in Nodes
      /\ a.task = "execute" => a.node \in SideEffectNodes
      /\ Delivers(a) /\ Delivers(b)
  <2>1. a \in Attempt
    BY DEF IInv, TypeOK
  <2>2. /\ b \in Attempt /\ b.task = a.task /\ b.node = a.node /\ b.applied
        /\ a.task \in {"execute", "project"} /\ a.node \in Nodes
    BY <2>1 DEF Attempt, Task
  <2>3. Delivers(a)
    BY DEF Deliver
  <2> QED BY <2>1, <2>2, <2>3 DEF Delivers
<1>2. /\ live' = (live \ {a}) \cup {b}
      /\ UNCHANGED <<controls, phase, current, nodeOutputs, approvals, cancelRequested, cancelled, decided,
                     activity, executions>>
  BY DEF Deliver, wfVars
<1>3. DeliveryKey(b) = DeliveryKey(a)
  BY <1>1 DEF DeliveryKey, EventKey, IdempotencyKey
<1>4. LoopInv' /\ ActivityInv' /\ ExecutionInv' /\ DecisionInv'
  BY <1>2 DEF IInv, LoopInv, ActivityInv, ExecutionInv, DecisionInv, InLoop, Working
<1>5. executions[a.node] > 0
  BY DEF IInv, LiveInv
<1>6. CASE DeliveryKey(a) \in heldKeys[a.task]
  <2>1. UNCHANGED <<heldKeys, delivered>>
    BY <1>6 DEF Deliver
  <2>2. TypeOK'
    BY <1>1, <1>2, <2>1 DEF IInv, TypeOK
  <2>3. DeliveryInv'
    BY <1>2, <2>1 DEF IInv, DeliveryInv
  <2>4. LiveInv'
    <3>1. DeliveryKey(b) \in heldKeys[b.task]
      BY <1>1, <1>3, <1>6
    <3> QED BY <1>1, <1>2, <1>5, <2>1, <3>1 DEF IInv, LiveInv, DeliveryKey
  <2> QED BY <1>4, <2>2, <2>3, <2>4 DEF IInv
<1>7. CASE DeliveryKey(a) \notin heldKeys[a.task]
  <2>1. /\ heldKeys' = [heldKeys EXCEPT ![a.task] = @ \cup {DeliveryKey(a)}]
        /\ delivered' = [delivered EXCEPT ![a.task][a.node] = @ + 1]
    BY <1>7 DEF Deliver
  <2>2. DeliveryKey(a) \in Key
    BY <1>1 DEF DeliveryKey, Key, EventKey, IdempotencyKey
  <2>3. TypeOK'
    <3>1. heldKeys' \in [Task -> SUBSET Key]
      BY <1>1, <2>1, <2>2 DEF IInv, TypeOK, Task
    <3>2. delivered' \in [Task -> [Nodes -> Nat]]
      BY <1>1, <2>1 DEF IInv, TypeOK, Task
    <3> QED BY <1>1, <1>2, <3>1, <3>2 DEF IInv, TypeOK
  <2>4. \A t \in Task : heldKeys[t] \subseteq heldKeys'[t]
    BY <1>1, <2>1 DEF IInv, TypeOK
  <2>5. DeliveryKey(a) \in heldKeys'[a.task]
    BY <1>1, <2>1 DEF IInv, TypeOK, Task
  <2>6. LiveInv'
    <3>1. \A c \in live : c.task \in Task
      BY DEF IInv, TypeOK, Attempt
    <3>2. DeliveryKey(b) \in heldKeys'[b.task]
      BY <1>1, <1>3, <2>5
    <3>3. \A c \in live : /\ executions[c.node] > 0
                          /\ c.applied => Delivers(c) /\ DeliveryKey(c) \in heldKeys'[c.task]
      BY <2>4, <3>1 DEF IInv, LiveInv
    <3> QED BY <1>1, <1>2, <1>5, <3>2, <3>3 DEF LiveInv, DeliveryKey, EventKey, IdempotencyKey
  <2>7. DeliveryInv'
    <3>1. CASE a.task = "execute"
      <4>1. DeliveryKey(a) = IdempotencyKey(a.node, 1)
        BY <3>1 DEF DeliveryKey, IdempotencyKey
      <4>2. delivered["execute"][a.node] = 0
        BY <1>1, <1>7, <3>1, <4>1 DEF IInv, DeliveryInv
      <4>3. /\ delivered'["execute"][a.node] = 1
            /\ \A n \in Nodes \ {a.node} : delivered'["execute"][n] = delivered["execute"][n]
            /\ delivered'["project"] = delivered["project"]
        BY <1>1, <2>1, <3>1, <4>2 DEF IInv, TypeOK, Task
      <4>4. /\ heldKeys'["project"] = heldKeys["project"]
            /\ heldKeys'["execute"] = heldKeys["execute"] \cup {IdempotencyKey(a.node, 1)}
        BY <1>1, <2>1, <3>1, <4>1 DEF IInv, TypeOK, Task
      <4>5. \A n \in Nodes : IdempotencyKey(n, 1) = IdempotencyKey(a.node, 1) => n = a.node
        BY DEF IdempotencyKey
      <4>6. \A n \in Nodes :
              delivered'["execute"][n] =
                IF n \in SideEffectNodes /\ IdempotencyKey(n, 1) \in heldKeys'["execute"]
                THEN 1 ELSE 0
        BY <1>1, <3>1, <4>3, <4>4, <4>5 DEF IInv, DeliveryInv
      <4>7. \A n \in Nodes :
              delivered'["execute"][n] > 0 \/ delivered'["project"][n] > 0 => executions[n] > 0
        <5> SUFFICES ASSUME NEW n \in Nodes
                     PROVE  delivered'["execute"][n] > 0 \/ delivered'["project"][n] > 0
                              => executions[n] > 0
          OBVIOUS
        <5>1. CASE n = a.node
          BY <1>5, <5>1
        <5>2. CASE n # a.node
          BY <4>3, <5>2 DEF IInv, DeliveryInv
        <5> QED BY <5>1, <5>2
      <4>8. heldKeys["execute"] \subseteq heldKeys'["execute"]
        BY <4>4
      <4> QED BY <1>2, <4>3, <4>4, <4>6, <4>7, <4>8 DEF IInv, DeliveryInv
    <3>2. CASE a.task = "project"
      <4>1. DeliveryKey(a) = EventKey(a.node, 1)
        BY <3>2 DEF DeliveryKey, EventKey
      <4>2. delivered["project"][a.node] = 0
        BY <1>1, <1>7, <3>2, <4>1 DEF IInv, DeliveryInv
      <4>3. /\ delivered'["project"][a.node] = 1
            /\ \A n \in Nodes \ {a.node} : delivered'["project"][n] = delivered["project"][n]
            /\ delivered'["execute"] = delivered["execute"]
        BY <1>1, <2>1, <3>2, <4>2 DEF IInv, TypeOK, Task
      <4>4. /\ heldKeys'["execute"] = heldKeys["execute"]
            /\ heldKeys'["project"] = heldKeys["project"] \cup {EventKey(a.node, 1)}
        BY <1>1, <2>1, <3>2, <4>1 DEF IInv, TypeOK, Task
      <4>5. \A n \in Nodes : EventKey(n, 1) = EventKey(a.node, 1) => n = a.node
        BY DEF EventKey
      <4>6. \A n \in Nodes :
              /\ delivered'["project"][n] = IF EventKey(n, 1) \in heldKeys'["project"] THEN 1 ELSE 0
              /\ EventKey(n, 1) \in heldKeys["project"] => EventKey(n, 1) \in heldKeys'["project"]
        BY <4>3, <4>4, <4>5 DEF IInv, DeliveryInv
      <4>7. \A n \in Nodes :
              delivered'["execute"][n] > 0 \/ delivered'["project"][n] > 0 => executions[n] > 0
        BY <1>5, <4>3 DEF IInv, DeliveryInv
      <4>8. ASSUME NEW n \in Nodes
            PROVE  /\ EventKey(n, 1)' = EventKey(n, 1)
                   /\ IdempotencyKey(n, 1)' = IdempotencyKey(n, 1)
        BY DEF EventKey, IdempotencyKey
      <4> QED BY <1>2, <4>3, <4>4, <4>6, <4>7, <4>8 DEF IInv, DeliveryInv
    <3> QED BY <1>1, <3>1, <3>2
  <2> QED BY <1>4, <2>3, <2>6, <2>7 DEF IInv
<1> QED BY <1>6, <1>7

(* An activity is rejected or abandoned and the run ends with it.          *)
LEMMA EndingStep ==
  ASSUME IInv, phase' \in {"failed", "cancelled"}, activity' = NoActivity, live' \in SUBSET live,
         UNCHANGED <<controls, current, nodeOutputs, approvals, cancelRequested, cancelled, decided,
                     heldKeys, delivered, executions>>
  PROVE  IInv'
<1> USE DEF Working, Ended
<1>1. TypeOK'
  BY DEF IInv, TypeOK, NoActivity
<1>2. LoopInv' /\ ActivityInv'
  BY DEF IInv, LoopInv, InLoop, ActivityInv, NoActivity
<1>3. ExecutionInv' /\ DecisionInv'
  BY DEF IInv, ExecutionInv, DecisionInv
<1>4. DeliveryInv' /\ LiveInv'
  BY DEF IInv, DeliveryInv, LiveInv, DeliveryKey
<1> QED BY <1>1, <1>2, <1>3, <1>4 DEF IInv

(* An attempt is given up, for another one or for the end of the run.      *)
LEMMA RetryStep ==
  ASSUME IInv, activity.state = "started", RetryOrFail, live' \in SUBSET live,
         UNCHANGED <<heldKeys, delivered, executions>>
  PROVE  IInv'
<1> USE BudgetAssumption
<1>1. CASE activity.attempt < MaxAttempts[current] /\ ~cancelled
  <2>1. activity' = [activity EXCEPT !.state = "scheduled"] /\ UNCHANGED wfVars
    BY <1>1 DEF RetryOrFail
  <2>2. activity' \in [state : {"none", "scheduled", "started"}, attempt : Nat]
    BY <2>1 DEF IInv, TypeOK
  <2>3. activity'.state = "scheduled" /\ activity'.attempt = activity.attempt
    BY <2>1 DEF IInv, TypeOK
  <2>4. phase \in {"execute", "project"}
    BY DEF IInv, ActivityInv, Working
  <2>5. TypeOK'
    BY <2>1, <2>2 DEF IInv, TypeOK, wfVars
  <2>6. LoopInv' /\ DecisionInv'
    BY <2>1 DEF IInv, LoopInv, DecisionInv, InLoop, wfVars
  <2>7. ActivityInv'
    BY <1>1, <2>1, <2>3, <2>4 DEF ActivityInv, wfVars, Working
  <2>8. ExecutionInv'
    BY <2>1, <2>3 DEF IInv, ExecutionInv, wfVars
  <2>9. DeliveryInv' /\ LiveInv'
    BY <2>1 DEF IInv, DeliveryInv, LiveInv, DeliveryKey, wfVars
  <2> QED BY <2>5, <2>6, <2>7, <2>8, <2>9 DEF IInv
<1>2. CASE ~(activity.attempt < MaxAttempts[current] /\ ~cancelled)
  BY <1>2, EndingStep DEF RetryOrFail, FailRun
<1> QED BY <1>1, <1>2

LEMMA SucceedStep == ASSUME IInv, NEW a \in live, Succeed(a) PROVE IInv'
<1> USE GraphAssumption, KindAssumption
<1>1. /\ a \in Attempt /\ a.task = phase /\ a.node = current /\ activity.state = "started"
      /\ Delivers(a) => a.applied
      /\ live' \in SUBSET live
      /\ UNCHANGED <<controls, approvals, cancelRequested, cancelled, decided, heldKeys, delivered, executions>>
  BY DEF IInv, TypeOK, Succeed, Current
<1>2. /\ current \in Nodes /\ current \notin nodeOutputs /\ Upstream[current] \subseteq nodeOutputs
      /\ phase \in {"execute", "project"}
  BY <1>1 DEF IInv, ActivityInv, LoopInv, InLoop, Working
<1>3. Delivers(a) => DeliveryKey(a) \in heldKeys[a.task]
  BY <1>1 DEF IInv, LiveInv
<1>4. executions[current] > 0
  BY <1>1 DEF IInv, LiveInv
<1>5. CASE a.task = "execute"
  <2>1. AwaitActivity("project") /\ UNCHANGED <<current, nodeOutputs>>
    BY <1>5 DEF Succeed
  <2>2. CASE cancelled
    BY <1>1, <2>1, <2>2, EndingStep DEF AwaitActivity
  <2>3. CASE ~cancelled
    <3>1. phase' = "project" /\ activity' = NewActivity
      BY <2>1, <2>3 DEF AwaitActivity
    <3>2. current \in SideEffectNodes => IdempotencyKey(current, 1) \in heldKeys["execute"]
      BY <1>1, <1>3, <1>5 DEF Delivers, DeliveryKey, IdempotencyKey
    <3>3. TypeOK'
      BY <1>1, <2>1, <3>1 DEF IInv, TypeOK, Working, NewActivity
    <3>4. LoopInv' /\ DecisionInv'
      BY <1>1, <1>2, <1>5, <2>1, <3>1 DEF IInv, LoopInv, DecisionInv, InLoop, Working
    <3>5. ActivityInv'
      BY <1>1, <1>2, <2>1, <2>3, <3>1, BudgetAssumption DEF ActivityInv, NewActivity, Working
    <3>6. ExecutionInv'
      BY <1>1, <1>4, <2>1, <3>1 DEF IInv, ExecutionInv
    <3>7. DeliveryInv'
      BY <1>1, <2>1, <3>1, <3>2 DEF IInv, DeliveryInv
    <3>8. LiveInv'
      BY <1>1 DEF IInv, LiveInv, DeliveryKey
    <3> QED BY <3>3, <3>4, <3>5, <3>6, <3>7, <3>8 DEF IInv
  <2> QED BY <2>2, <2>3
<1>6. CASE a.task # "execute"
  <2> DEFINE done == nodeOutputs \cup {current}
  <2>1. Advance(done) /\ done \in SUBSET Nodes /\ phase = "project"
    BY <1>1, <1>2, <1>6 DEF Succeed, IInv, TypeOK
  <2>2. \A n \in done : Upstream[n] \subseteq done
    BY <1>2 DEF IInv, LoopInv
  <2>3. \A n \in done : n \in ApprovalNodes => decided[n] = "approved"
    BY <1>2 DEF IInv, DecisionInv, Working
  <2>4. \A n \in done : n \in SideEffectNodes => IdempotencyKey(n, 1) \in heldKeys["execute"]
    BY <2>1 DEF IInv, DeliveryInv
  <2>5. \A n \in done : EventKey(n, 1) \in heldKeys["project"]
    <3>1. EventKey(current, 1) \in heldKeys["project"]
      BY <1>1, <1>3, <2>1 DEF Delivers, DeliveryKey, EventKey
    <3>2. nodeOutputs \subseteq Nodes
      BY DEF IInv, TypeOK
    <3> QED BY <3>1, <3>2 DEF IInv, DeliveryInv
  <2>6. \A n \in Nodes : executions[n] > 0 => n \in done
    BY DEF IInv, ExecutionInv
  <2> HIDE DEF done
  <2>7. nodeOutputs \subseteq done
    BY DEF done
  <2> QED BY <1>1, <2>1, <2>2, <2>3, <2>4, <2>5, <2>6, <2>7, AdvanceStep
<1> QED BY <1>5, <1>6

LEMMA LoseAttemptStep == ASSUME IInv, NEW a \in live, LoseAttempt(a) PROVE IInv'
<1>1. live' \in SUBSET live /\ UNCHANGED <<wfVars, activity, heldKeys, delivered, executions>>
  BY DEF LoseAttempt
<1>2. TypeOK'
  BY <1>1 DEF IInv, TypeOK, wfVars
<1>3. LoopInv' /\ ActivityInv' /\ ExecutionInv' /\ DecisionInv'
  BY <1>1 DEF IInv, LoopInv, ActivityInv, ExecutionInv, DecisionInv, InLoop, Working, wfVars
<1>4. DeliveryInv' /\ LiveInv'
  BY <1>1 DEF IInv, DeliveryInv, LiveInv, DeliveryKey, wfVars
<1> QED BY <1>2, <1>3, <1>4 DEF IInv

(* IInv is inductive.                                                      *)
LEMMA NextIInv == ASSUME IInv, [Next]_vars PROVE IInv'
<1>1. CASE WorkflowStep
  BY <1>1, StartRunStep, WaitStep DEF WorkflowStep
<1>2. CASE \E n \in ApprovalNodes, d \in {"approved", "rejected"} : SignalApproval(n, d)
  BY <1>2, WaitStep
<1>3. CASE RequestCancel \/ HearCancel
  BY <1>3, WaitStep
<1>4. CASE StartAttempt
  BY <1>4, StartAttemptStep
<1>5. ASSUME NEW a \in live, AttemptStep(a) PROVE IInv'
  <2>1. CASE Deliver(a)
    BY <2>1, DeliverStep
  <2>2. CASE Succeed(a)
    BY <2>2, SucceedStep
  <2>3. CASE FailRetryable(a)
    BY <2>3, RetryStep DEF FailRetryable, Current
  <2>4. CASE FailFinally(a)
    BY <2>4, EndingStep DEF FailFinally, FailRun
  <2>5. CASE StopCancelled(a)
    BY <2>5, EndingStep DEF StopCancelled
  <2>6. CASE LoseAttempt(a)
    BY <2>6, LoseAttemptStep
  <2> QED BY <1>5, <2>1, <2>2, <2>3, <2>4, <2>5, <2>6 DEF AttemptStep
<1>6. CASE TimeOut
  BY <1>6, RetryStep DEF TimeOut, workVars
<1>7. CASE UNCHANGED vars
  <2> USE <1>7 DEF vars, wfVars, workVars
  <2>1. TypeOK' /\ LoopInv' /\ ActivityInv' /\ ExecutionInv' /\ DecisionInv'
    BY DEF IInv, TypeOK, LoopInv, ActivityInv, ExecutionInv, DecisionInv, InLoop
  <2>2. DeliveryInv' /\ LiveInv'
    BY DEF IInv, DeliveryInv, LiveInv, DeliveryKey
  <2> QED BY <2>1, <2>2 DEF IInv
<1> QED BY <1>1, <1>2, <1>3, <1>4, <1>5, <1>6, <1>7 DEF Next

-----------------------------------------------------------------------------
LEMMA Invariance == Spec => []IInv
<1>1. Spec => Init /\ [][Next]_vars
  BY DEF Spec
<1> QED BY <1>1, InitIInv, NextIInv, PTL

(* Every variable of a run keeps the shape the workflow code gives it.     *)
THEOREM TypeCorrect == Spec => []TypeOK
<1>1. IInv => TypeOK
  BY DEF IInv
<1> QED BY <1>1, Invariance, PTL

(* The effect of a side_effect node (executeNode with its idempotency key) *)
(* takes place at most once, and has taken place once the run goes on.     *)
THEOREM SideEffectsOnce == Spec => []EffectsExactlyOnce
<1>1. IInv => EffectsExactlyOnce
  BY KindAssumption DEF IInv, DeliveryInv, EffectsExactlyOnce
<1> QED BY <1>1, Invariance, PTL

(* No node executes, and no effect takes place, ahead of an approval on    *)
(* any path to it: the gate of durableWorkflow's approval branch.          *)
THEOREM ApprovalsGate == Spec => []ApprovalsGateExecution
<1>1. ASSUME IInv PROVE ApprovalsGateExecution
  <2> USE <1>1
  <2> SUFFICES ASSUME NEW n \in Nodes, executions[n] > 0 \/ delivered["execute"][n] > 0,
                      NEW a \in (Ancestors(n) \cup {n}) \cap ApprovalNodes
               PROVE  decided[a] = "approved"
    BY DEF ApprovalsGateExecution
  <2>1. executions[n] > 0
    BY DEF IInv, DeliveryInv
  <2>2. CASE a = n
    BY <2>1, <2>2 DEF IInv, ExecutionInv
  <2>3. CASE a \in Ancestors(n)
    <3>1. Upstream[n] \subseteq nodeOutputs /\ nodeOutputs \in SUBSET Nodes
      BY <2>1 DEF IInv, ExecutionInv, TypeOK
    <3>2. \A m \in nodeOutputs : Upstream[m] \subseteq nodeOutputs
      BY DEF IInv, LoopInv
    <3>3. a \in nodeOutputs
      BY <2>3, <3>1, <3>2 DEF Ancestors
    <3> QED BY <3>3 DEF IInv, DecisionInv
  <2> QED BY <2>2, <2>3
<1> QED BY <1>1, Invariance, PTL

(* executeNode is attempted at most budget.maxAttempts times for a node,   *)
(* whatever happens to the attempts and to the projection activity.        *)
THEOREM AttemptBudget == Spec => []ExecutionsWithinBudget
<1>1. IInv => ExecutionsWithinBudget
  BY DEF IInv, ExecutionInv, ExecutionsWithinBudget
<1> QED BY <1>1, Invariance, PTL

(* A node feeds others only when its completion row is in the projection,  *)
(* and the projection holds no other row.                                  *)
THEOREM ProjectionLeads == Spec => []ProjectionLeadsCompletion
<1>1. ASSUME IInv PROVE ProjectionLeadsCompletion
  <2> SUFFICES ASSUME NEW n \in Nodes
               PROVE  /\ n \in nodeOutputs => delivered["project"][n] = 1
                      /\ delivered["project"][n] <= 1
                      /\ delivered["project"][n] = 1
                           => executions[n] > 0 /\ n \in nodeOutputs \cup {current}
    BY DEF ProjectionLeadsCompletion
  <2>1. /\ n \in nodeOutputs => delivered["project"][n] = 1
        /\ delivered["project"][n] <= 1
        /\ delivered["project"][n] = 1 => executions[n] > 0
    BY <1>1 DEF IInv, DeliveryInv
  <2>2. executions[n] > 0 => n \in nodeOutputs \cup {current}
    BY <1>1 DEF IInv, ExecutionInv
  <2> QED BY <2>1, <2>2
<1> QED BY <1>1, Invariance, PTL

(* Once the workflow has heard of a request to cancel no attempt starts, on *)
(* any worker.                                                             *)
THEOREM CancellationStops == Spec => CancelledStartsNothing
<1> DEFINE Step == cancelled => \A a \in live' : \E b \in live : [b EXCEPT !.applied = a.applied] = a
<1>1. ASSUME IInv, [Next]_vars PROVE [Step]_vars
  <2>1. \A b \in live : [b EXCEPT !.applied = b.applied] = b
    BY <1>1 DEF IInv, TypeOK, Attempt
  <2>2. live' \in SUBSET live => Step
    BY <2>1
  <2>3. CASE StartAttempt
    BY <1>1, <2>3 DEF IInv, ActivityInv, StartAttempt
  <2>4. ASSUME NEW a \in live, AttemptStep(a) PROVE Step
    <3>1. CASE Deliver(a)
      <4>1. live' = (live \ {a}) \cup {[a EXCEPT !.applied = TRUE]}
        BY <3>1 DEF Deliver
      <4>2. a \in Attempt
        BY <1>1 DEF IInv, TypeOK
      <4>3. LET c == [a EXCEPT !.applied = TRUE] IN [a EXCEPT !.applied = c.applied] = c
        BY <4>2 DEF Attempt
      <4> QED BY <2>1, <4>1, <4>3
    <3>2. CASE Succeed(a) \/ FailRetryable(a) \/ FailFinally(a) \/ StopCancelled(a) \/ LoseAttempt(a)
      BY <2>2, <3>2 DEF Succeed, FailRetryable, FailFinally, StopCancelled, LoseAttempt
    <3> QED BY <2>4, <3>1, <3>2 DEF AttemptStep
  <2>5. CASE RequestCancel \/ HearCancel \/ TimeOut \/ \E n \in ApprovalNodes, d \in {"approved", "rejected"} : SignalApproval(n, d)
    BY <2>2, <2>5 DEF RequestCancel, HearCancel, TimeOut, SignalApproval, workVars
  <2>6. CASE WorkflowStep
    BY <2>2, <2>6 DEF WorkflowStep, StartRun, TimerFires, ReadDecision, workVars
  <2>7. CASE UNCHANGED vars
    BY <2>7
  <2> HIDE DEF Step
  <2> QED BY <1>1, <2>3, <2>4, <2>5, <2>6, <2>7 DEF Next
<1> QED BY <1>1, Invariance, PTL DEF Spec, CancelledStartsNothing

(* A step of the run is a step of the abstract graph run, or none.         *)
LEMMA VerdictMoves ==
  ASSUME IInv, phase \notin Ended, UNCHANGED <<nodeOutputs, delivered>>,
         phase' \notin {"completed"}
  PROVE  [Abstract!Next]_(Abstract!vars)
<1>1. Verdict = "open" /\ Verdict' \in {"open", "aborted"}
  BY DEF Verdict, Ended
<1> QED BY <1>1 DEF Abstract!Next, Abstract!Close, Abstract!vars

LEMMA AdvanceMoves ==
  ASSUME IInv, phase \notin Ended, Advance(nodeOutputs), UNCHANGED delivered
  PROVE  [Abstract!Next]_(Abstract!vars)
<1>1. nodeOutputs' = nodeOutputs
  BY DEF Advance
<1>2. phase' = "completed" => nodeOutputs = Nodes
  BY DEF Advance, BeginNode, AwaitActivity
<1>3. Verdict = "open" /\ Verdict' \in {"open", "aborted"} \cup (IF nodeOutputs = Nodes THEN {"completed"} ELSE {})
  BY <1>2 DEF Verdict, Ended
<1> QED BY <1>1, <1>3 DEF Abstract!Next, Abstract!Close, Abstract!vars

(* The durable run implements DagRun: with retries, lost and duplicated    *)
(* attempts, signals and cancellation hidden, nodes finish in dependency   *)
(* order, effects happen once, and "completed" means everything finished.  *)
THEOREM RunsTheGraph == Spec => ImplementsDagRun
<1> USE KindAssumption, GraphAssumption
<1>1. Init => Abstract!Init
  BY DEF Init, Abstract!Init, Verdict, Task
<1>2. ASSUME IInv, [Next]_vars PROVE [Abstract!Next]_(Abstract!vars)
  <2> USE <1>2
  <2> DEFINE effected == {n \in SideEffectNodes : delivered["execute"][n] > 0}
  <2>0. activity.state # "none" => phase \in {"execute", "project"}
    BY DEF IInv, ActivityInv, Working
  <2>1. CASE StartRun
    <3>1. nodeOutputs = {}
      BY <2>1 DEF StartRun, IInv, LoopInv
    <3> QED BY <2>1, <3>1, AdvanceMoves DEF StartRun, workVars, Ended
  <2>2. CASE TimerFires \/ ReadDecision
    BY <2>2, VerdictMoves DEF TimerFires, ReadDecision, workVars, Ended
  <2>3. CASE \E n \in ApprovalNodes, d \in {"approved", "rejected"} : SignalApproval(n, d)
    BY <2>3, VerdictMoves DEF SignalApproval, workVars, Ended
  <2>4. CASE RequestCancel \/ HearCancel
    BY <2>4, VerdictMoves DEF RequestCancel, HearCancel, workVars, Ended
  <2>5. CASE StartAttempt
    BY <2>5, VerdictMoves DEF StartAttempt, wfVars, Working, Ended
  <2>6. CASE TimeOut
    BY <2>0, <2>6, VerdictMoves DEF TimeOut, RetryOrFail, FailRun, wfVars, workVars, Ended
  <2>7. ASSUME NEW a \in live, FailRetryable(a) \/ FailFinally(a) \/ StopCancelled(a)
        PROVE  [Abstract!Next]_(Abstract!vars)
    BY <2>0, <2>7, VerdictMoves
       DEF FailRetryable, FailFinally, StopCancelled, Current, RetryOrFail, FailRun, wfVars, Ended
  <2>8. ASSUME NEW a \in live, LoseAttempt(a) PROVE [Abstract!Next]_(Abstract!vars)
    BY <2>8 DEF LoseAttempt, wfVars, Abstract!vars, Verdict
  <2>9. ASSUME NEW a \in live, Deliver(a) PROVE [Abstract!Next]_(Abstract!vars)
    <3>1. a \in Attempt /\ nodeOutputs' = nodeOutputs /\ Verdict' = Verdict
      BY <2>9 DEF Deliver, wfVars, IInv, TypeOK, Verdict
    <3>2. CASE delivered'["execute"] = delivered["execute"]
      BY <3>1, <3>2 DEF Abstract!vars
    <3>3. CASE delivered'["execute"] # delivered["execute"]
      <4>1. /\ a.task = "execute" /\ DeliveryKey(a) \notin heldKeys["execute"]
            /\ delivered' = [delivered EXCEPT !["execute"][a.node] = @ + 1]
        BY <2>9, <3>1, <3>3 DEF Deliver, Attempt, Task, IInv, TypeOK
      <4>2. a.node \in SideEffectNodes
        BY <2>9, <4>1 DEF Deliver, Delivers
      <4>3. IdempotencyKey(a.node, 1) \notin heldKeys["execute"]
        BY <4>1 DEF DeliveryKey, IdempotencyKey
      <4>4. delivered["execute"][a.node] = 0 /\ a.node \notin nodeOutputs
        BY <4>2, <4>3 DEF IInv, DeliveryInv
      <4>5. Upstream[a.node] \subseteq nodeOutputs
        BY <4>2 DEF IInv, LiveInv, ExecutionInv
      <4>6. effected' = effected \cup {a.node}
        BY <4>1, <4>2, <4>4 DEF IInv, TypeOK, Task
      <4> QED BY <3>1, <4>2, <4>4, <4>5, <4>6 DEF Abstract!Next, Abstract!TakeEffect
    <3> QED BY <3>2, <3>3
  <2>10. ASSUME NEW a \in live, Succeed(a) PROVE [Abstract!Next]_(Abstract!vars)
    <3>1. /\ a \in Attempt /\ a.task = phase /\ a.node = current /\ UNCHANGED delivered
          /\ activity.state = "started"
      BY <2>10 DEF Succeed, Current, IInv, TypeOK
    <3>2. phase \in {"execute", "project"}
      BY <2>0, <3>1
    <3>3. CASE a.task = "execute"
      BY <2>10, <3>1, <3>2, <3>3, VerdictMoves DEF Succeed, AwaitActivity, Ended
    <3>4. CASE a.task # "execute"
      <4> DEFINE done == nodeOutputs \cup {current}
      <4>1. Advance(done) /\ nodeOutputs' = done /\ phase = "project"
        BY <2>10, <3>1, <3>2, <3>4 DEF Succeed, Advance
      <4>2. phase' = "completed" => done = Nodes
        BY <4>1 DEF Advance, BeginNode, AwaitActivity
      <4>3. /\ current \in Nodes /\ current \notin nodeOutputs
            /\ Upstream[current] \subseteq nodeOutputs
        BY <4>1 DEF IInv, LoopInv, InLoop, Working
      <4>4. current \in SideEffectNodes => current \in effected
        BY <4>1, <4>3 DEF IInv, DeliveryInv
      <4>5. Verdict = "open" /\ Verdict' \in {"open", "aborted"} \cup (IF nodeOutputs' = Nodes THEN {"completed"} ELSE {})
        BY <4>1, <4>2 DEF Verdict
      <4>6. effected' = effected
        BY <3>1
      <4> QED BY <4>1, <4>3, <4>4, <4>5, <4>6 DEF Abstract!Next, Abstract!Finish
    <3> QED BY <3>3, <3>4
  <2>11. CASE UNCHANGED vars
    BY <2>11 DEF vars, wfVars, workVars, Abstract!vars, Verdict
  <2> QED BY <2>1, <2>2, <2>3, <2>4, <2>5, <2>6, <2>7, <2>8, <2>9, <2>10, <2>11
          DEF Next, WorkflowStep, AttemptStep
<1> QED BY <1>1, <1>2, Invariance, PTL DEF Spec, ImplementsDagRun, Abstract!Spec

-----------------------------------------------------------------------------
(* Effects and projection together: whoever reads the two sinks of a run   *)
(* reads its story (activities.ts, the two deliveries).                    *)
THEOREM SinksFollowTheRun == Spec => []SinksTellTheRun
BY SideEffectsOnce, ProjectionLeads, PTL DEF SinksTellTheRun

-----------------------------------------------------------------------------
\* Loops that take a turn for each number.

LEMMA FirstOf ==
  ASSUME NEW S, S \subseteq Nat, S # {}
  PROVE  \E n \in S : \A m \in S : n <= m
<1> DEFINE Less == OpToRel(<, Nat)
<1>1. IsWellFoundedOn(Less, Nat)
  BY NatLessThanWellFounded
<1>2. \A x, y \in Nat : <<y, x>> \in Less <=> y < x
  BY DEF OpToRel
<1> HIDE DEF Less
<1>3. PICK x \in S : \A y \in S : ~(<<y, x>> \in Less)
  BY <1>1, WFMin
<1>4. \A y \in S : ~(y < x)
  BY <1>2, <1>3
<1> QED BY <1>4

\* There is no first number that a set which goes on leaves out.
LEMMA EveryCount ==
  ASSUME NEW good, 0 \in good, \A n \in Nat : n \in good => n + 1 \in good
  PROVE  \A n \in Nat : n \in good
<1> SUFFICES ASSUME Nat \ good # {} PROVE FALSE
  OBVIOUS
<1>1. PICK n \in Nat \ good : \A m \in Nat \ good : n <= m
  BY FirstOf
<1>2. n # 0 /\ n - 1 \in Nat
  BY <1>1
<1>3. n - 1 \notin good
  BY <1>2
<1> QED BY <1>1, <1>2, <1>3

IsLoop(f, S, first, step, n) ==
  /\ f \in [0..n -> S]
  /\ f[0] = first
  /\ \A k \in 1..n : f[k] = step[k][f[k - 1]]

LEMMA LoopsExist ==
  ASSUME NEW S, NEW first \in S, NEW step \in [Nat -> [S -> S]]
  PROVE  \A n \in Nat : \E f : IsLoop(f, S, first, step, n)
<1> DEFINE good == {n \in Nat : \E f : IsLoop(f, S, first, step, n)}
<1>1. 0 \in good
  <2>1. IsLoop([k \in 0..0 |-> first], S, first, step, 0)
    BY DEF IsLoop
  <2> QED BY <2>1
<1>2. ASSUME NEW n \in Nat, n \in good PROVE n + 1 \in good
  <2>1. PICK f : IsLoop(f, S, first, step, n)
    BY <1>2
  <2>2. f \in [0..n -> S] /\ f[0] = first /\ \A k \in 1..n : f[k] = step[k][f[k - 1]]
    BY <2>1 DEF IsLoop
  <2> DEFINE last == step[n + 1][f[n]]
             longer == [k \in 0..n + 1 |-> IF k = n + 1 THEN last ELSE f[k]]
  <2>3. last \in S
    <3>1. f[n] \in S /\ step[n + 1] \in [S -> S]
      BY <2>2
    <3> QED BY <3>1
  <2> HIDE DEF last
  <2>4. /\ longer \in [0..n + 1 -> S]
        /\ longer[n + 1] = last
        /\ \A k \in 0..n : longer[k] = f[k]
    BY <2>2, <2>3
  <2> HIDE DEF longer
  <2>5. ASSUME NEW k \in 1..n + 1 PROVE longer[k] = step[k][longer[k - 1]]
    <3>1. CASE k \in 1..n
      <4>1. k \in 0..n /\ k - 1 \in 0..n
        BY <3>1
      <4> QED BY <2>2, <2>4, <3>1, <4>1
    <3>2. CASE k = n + 1
      <4>1. k - 1 = n /\ n \in 0..n
        BY <3>2
      <4>2. longer[k] = last /\ longer[k - 1] = f[n]
        BY <2>4, <3>2, <4>1
      <4> QED BY <3>2, <4>2 DEF last
    <3> QED BY <3>1, <3>2
  <2>6. longer[0] = first
    BY <2>2, <2>4
  <2> QED BY <2>4, <2>5, <2>6 DEF IsLoop
<1> HIDE DEF good
<1>3. \A n \in Nat : n \in good
  BY <1>1, <1>2, EveryCount
<1> QED BY <1>3 DEF good

\* What begins and goes on as a loop does is that loop.
LEMMA LoopsStay ==
  ASSUME NEW S, NEW first \in S, NEW step \in [Nat -> [S -> S]], NEW n \in Nat, NEW f,
         DOMAIN f = 0..n, f = [k \in 0..n |-> f[k]], f[0] = first,
         \A k \in 1..n : f[k - 1] \in S => f[k] = step[k][f[k - 1]]
  PROVE  IsLoop(f, S, first, step, n)
<1> DEFINE good == {k \in Nat : k <= n => f[k] \in S}
<1>1. 0 \in good
  OBVIOUS
<1>2. ASSUME NEW k \in Nat, k \in good PROVE k + 1 \in good
  <2> SUFFICES ASSUME k + 1 <= n PROVE f[k + 1] \in S
    OBVIOUS
  <2>1. k + 1 \in 1..n /\ (k + 1) - 1 = k /\ k <= n
    OBVIOUS
  <2>4. f[k] \in S
    BY <1>2, <2>1
  <2>2. f[k + 1] = step[k + 1][f[k]]
    BY <2>1, <2>4
  <2>3. step[k + 1] \in [S -> S]
    OBVIOUS
  <2> QED BY <2>2, <2>3, <2>4
<1> HIDE DEF good
<1>3. \A k \in Nat : k \in good
  BY <1>1, <1>2, EveryCount
<1>4. \A k \in 0..n : f[k] \in S
  BY <1>3 DEF good
<1>5. ASSUME NEW k \in 1..n PROVE f[k] = step[k][f[k - 1]]
  <2>1. k - 1 \in 0..n
    OBVIOUS
  <2> QED BY <1>4, <2>1
<1>6. f \in [0..n -> S]
  BY <1>4
<1> QED BY <1>5, <1>6 DEF IsLoop

-----------------------------------------------------------------------------
\* The simulation: its passes, one turn at a time.

Graphs == [Ranks -> SUBSET Ranks]

LEMMA TurnsGoOn ==
  ASSUME NEW g \in Graphs, NEW done \in Seq(Ranks), NEW n
  PROVE  Turn(g, done, n) \in Seq(Ranks)
<1>1. n \in Ready(Ranks, g, ToSet(done)) => n \in Ranks
  BY DEF Ready
<1> QED BY <1>1 DEF Turn

LEMMA PassTurns ==
  ASSUME NEW g \in Graphs, NEW before \in Seq(Ranks)
  PROVE  /\ Pass(g, before) \in [0..MaxNodes -> Seq(Ranks)]
         /\ Pass(g, before)[0] = before
         /\ \A n \in Ranks : Pass(g, before)[n] = Turn(g, Pass(g, before)[n - 1], n)
<1> DEFINE step == [n \in Nat |-> [done \in Seq(Ranks) |-> Turn(g, done, n)]]
           IsPass(w) == w = [n \in 0..MaxNodes |-> IF n = 0 THEN before ELSE Turn(g, w[n - 1], n)]
           pass == CHOOSE w : IsPass(w)
<1>1. step \in [Nat -> [Seq(Ranks) -> Seq(Ranks)]]
  BY TurnsGoOn
<1>2. \A n \in Nat : \A done \in Seq(Ranks) : step[n][done] = Turn(g, done, n)
  OBVIOUS
<1> HIDE DEF step
<1>3. MaxNodes \in Nat
  BY MaxNodesAssumption
<1>4. PICK f : IsLoop(f, Seq(Ranks), before, step, MaxNodes)
  BY <1>1, <1>3, LoopsExist
<1>5. /\ f \in [0..MaxNodes -> Seq(Ranks)] /\ f[0] = before
      /\ \A n \in 1..MaxNodes : f[n] = step[n][f[n - 1]]
  BY <1>4 DEF IsLoop
<1>6. \A n \in 1..MaxNodes : f[n] = Turn(g, f[n - 1], n)
  <2> SUFFICES ASSUME NEW n \in 1..MaxNodes PROVE f[n] = Turn(g, f[n - 1], n)
    OBVIOUS
  <2>1. n \in Nat /\ n - 1 \in 0..MaxNodes
    BY <1>3
  <2>2. f[n - 1] \in Seq(Ranks)
    BY <1>5, <2>1
  <2> QED BY <1>2, <1>5, <2>1, <2>2
<1>7. IsPass(f)
  <2>1. ASSUME NEW n \in 0..MaxNodes PROVE f[n] = IF n = 0 THEN before ELSE Turn(g, f[n - 1], n)
    BY <1>3, <1>5, <1>6
  <2> QED BY <1>5, <2>1
<1>8. Pass(g, before) = pass
  BY DEF Pass
<1>9. IsPass(pass)
  BY <1>7
<1> HIDE DEF pass
<1>10. /\ DOMAIN pass = 0..MaxNodes /\ pass = [n \in 0..MaxNodes |-> pass[n]] /\ pass[0] = before
       /\ \A n \in 1..MaxNodes : pass[n] = Turn(g, pass[n - 1], n)
  <2>1. /\ DOMAIN pass = 0..MaxNodes /\ pass = [n \in 0..MaxNodes |-> pass[n]]
        /\ \A n \in 0..MaxNodes : pass[n] = IF n = 0 THEN before ELSE Turn(g, pass[n - 1], n)
    BY <1>9
  <2>2. 0 \in 0..MaxNodes /\ \A n \in 1..MaxNodes : n \in 0..MaxNodes /\ n # 0
    BY <1>3
  <2> QED BY <2>1, <2>2
<1>11. ASSUME NEW n \in 1..MaxNodes, pass[n - 1] \in Seq(Ranks)
       PROVE  pass[n] = step[n][pass[n - 1]]
  <2>1. n \in Nat
    BY <1>3
  <2>2. step[n][pass[n - 1]] = Turn(g, pass[n - 1], n)
    BY <1>2, <1>11, <2>1
  <2> QED BY <1>10, <2>2
<1> HIDE DEF IsPass
<1>12. IsLoop(pass, Seq(Ranks), before, step, MaxNodes)
  BY ONLY <1>1, <1>3, <1>10, <1>11, LoopsStay
<1> QED BY <1>8, <1>10, <1>12 DEF IsLoop, Ranks

LEMMA PassesTurn ==
  ASSUME NEW g \in Graphs
  PROVE  /\ Passes(g) \in [0..MaxNodes -> Seq(Ranks)]
         /\ Passes(g)[0] = <<>>
         /\ \A k \in Ranks : Passes(g)[k] = Pass(g, Passes(g)[k - 1])[MaxNodes]
<1> DEFINE step == [k \in Nat |-> [done \in Seq(Ranks) |-> Pass(g, done)[MaxNodes]]]
           IsPasses(w) == w = [k \in 0..MaxNodes |-> IF k = 0 THEN <<>> ELSE Pass(g, w[k - 1])[MaxNodes]]
           passes == CHOOSE w : IsPasses(w)
<1>1. MaxNodes \in Nat /\ <<>> \in Seq(Ranks)
  BY MaxNodesAssumption
<1>2. step \in [Nat -> [Seq(Ranks) -> Seq(Ranks)]]
  <2>1. \A done \in Seq(Ranks) : Pass(g, done)[MaxNodes] \in Seq(Ranks)
    BY <1>1, PassTurns
  <2> QED BY <2>1
<1>3. \A k \in Nat : \A done \in Seq(Ranks) : step[k][done] = Pass(g, done)[MaxNodes]
  OBVIOUS
<1> HIDE DEF step
<1>4. PICK f : IsLoop(f, Seq(Ranks), <<>>, step, MaxNodes)
  BY <1>1, <1>2, LoopsExist
<1>5. /\ f \in [0..MaxNodes -> Seq(Ranks)] /\ f[0] = <<>>
      /\ \A k \in 1..MaxNodes : f[k] = step[k][f[k - 1]]
  BY <1>4 DEF IsLoop
<1>6. \A k \in 1..MaxNodes : f[k] = Pass(g, f[k - 1])[MaxNodes]
  <2> SUFFICES ASSUME NEW k \in 1..MaxNodes PROVE f[k] = Pass(g, f[k - 1])[MaxNodes]
    OBVIOUS
  <2>1. k \in Nat /\ k - 1 \in 0..MaxNodes
    BY <1>1
  <2>2. f[k - 1] \in Seq(Ranks)
    BY <1>5, <2>1
  <2> QED BY <1>3, <1>5, <2>1, <2>2
<1>7. IsPasses(f)
  <2>1. ASSUME NEW k \in 0..MaxNodes PROVE f[k] = IF k = 0 THEN <<>> ELSE Pass(g, f[k - 1])[MaxNodes]
    BY <1>1, <1>5, <1>6
  <2> QED BY <1>5, <2>1
<1>8. Passes(g) = passes
  BY DEF Passes
<1>9. IsPasses(passes)
  BY <1>7
<1> HIDE DEF passes
<1>10. /\ DOMAIN passes = 0..MaxNodes /\ passes = [k \in 0..MaxNodes |-> passes[k]] /\ passes[0] = <<>>
       /\ \A k \in 1..MaxNodes : passes[k] = Pass(g, passes[k - 1])[MaxNodes]
  <2>1. /\ DOMAIN passes = 0..MaxNodes /\ passes = [k \in 0..MaxNodes |-> passes[k]]
        /\ \A k \in 0..MaxNodes : passes[k] = IF k = 0 THEN <<>> ELSE Pass(g, passes[k - 1])[MaxNodes]
    BY <1>9
  <2>2. 0 \in 0..MaxNodes /\ \A k \in 1..MaxNodes : k \in 0..MaxNodes /\ k # 0
    BY <1>1
  <2> QED BY <2>1, <2>2
<1>11. ASSUME NEW k \in 1..MaxNodes, passes[k - 1] \in Seq(Ranks)
       PROVE  passes[k] = step[k][passes[k - 1]]
  <2>1. k \in Nat
    BY <1>1
  <2>2. step[k][passes[k - 1]] = Pass(g, passes[k - 1])[MaxNodes]
    BY <1>3, <1>11, <2>1
  <2> QED BY <1>10, <2>2
<1> HIDE DEF IsPasses
<1>12. IsLoop(passes, Seq(Ranks), <<>>, step, MaxNodes)
  BY ONLY <1>1, <1>2, <1>10, <1>11, LoopsStay
<1> QED BY <1>8, <1>10, <1>12 DEF IsLoop, Ranks

\* A pass that finds nothing ready changes nothing.
LEMMA PassStays ==
  ASSUME NEW g \in Graphs, NEW before \in Seq(Ranks), NEW i \in 0..MaxNodes, NEW j \in i..MaxNodes,
         \A n \in i + 1..j : n \notin Ready(Ranks, g, ToSet(Pass(g, before)[i]))
  PROVE  Pass(g, before)[j] = Pass(g, before)[i]
<1>1. PICK pass : pass = Pass(g, before)
  OBVIOUS
<1>2. \A n \in Ranks : pass[n] = Turn(g, pass[n - 1], n)
  BY <1>1, PassTurns
<1>3. \A n \in i + 1..j : n \notin Ready(Ranks, g, ToSet(pass[i]))
  BY <1>1
<1>4. MaxNodes \in Nat /\ i \in Nat /\ j \in Nat /\ i <= j /\ j <= MaxNodes
  BY MaxNodesAssumption
<1> DEFINE good == {n \in Nat : i + n <= j => pass[i + n] = pass[i]}
<1>5. 0 \in good
  BY <1>4
<1>6. ASSUME NEW n \in Nat, n \in good PROVE n + 1 \in good
  <2> SUFFICES ASSUME i + (n + 1) <= j PROVE pass[i + (n + 1)] = pass[i]
    OBVIOUS
  <2>1. PICK m : m = i + (n + 1)
    OBVIOUS
  <2>2. m \in Ranks /\ m \in i + 1..j /\ m - 1 = i + n /\ i + n <= j
    BY <1>4, <2>1 DEF Ranks
  <2>3. pass[m - 1] = pass[i]
    BY <1>6, <2>2
  <2>4. pass[m] = Turn(g, pass[i], m)
    BY <1>2, <2>2, <2>3
  <2>5. m \notin Ready(Ranks, g, ToSet(pass[i]))
    BY <1>3, <2>2
  <2> QED BY <2>1, <2>4, <2>5 DEF Turn
<1> HIDE DEF good
<1>7. j - i \in good
  BY <1>4, <1>5, <1>6, EveryCount
<1>8. j - i \in Nat /\ i + (j - i) = j
  BY <1>4
<1> QED BY <1>1, <1>4, <1>7, <1>8 DEF good

\* What has been done is never taken back.
Begins(s, t) ==
  /\ Len(s) <= Len(t)
  /\ \A i \in 1..Len(s) : s[i] = t[i]

LEMMA BeginsIsPrefix ==
  ASSUME NEW s \in Seq(Ranks), NEW t \in Seq(Ranks), Begins(s, t)
  PROVE  IsPrefix(s, t)
<1>1. Len(s) \in Nat /\ Len(s) <= Len(t) /\ \A i \in 1..Len(s) : s[i] = t[i]
  BY DEF Begins
<1>2. SubSeq(s, 1, Len(s)) = [i \in 1..Len(s) |-> s[i]]
  BY <1>1
<1>3. SubSeq(t, 1, Len(s)) = [i \in 1..Len(s) |-> t[i]]
  BY <1>1
<1> QED BY <1>1, <1>2, <1>3 DEF IsPrefix

LEMMA BeginsOn ==
  ASSUME NEW s \in Seq(Ranks), NEW t \in Seq(Ranks), NEW u \in Seq(Ranks), Begins(s, t), Begins(t, u)
  PROVE  Begins(s, u)
BY DEF Begins

LEMMA TurnBegins ==
  ASSUME NEW g \in Graphs, NEW done \in Seq(Ranks), NEW n
  PROVE  Begins(done, Turn(g, done, n))
<1>1. n \in Ready(Ranks, g, ToSet(done)) => n \in Ranks
  BY DEF Ready
<1> QED BY <1>1 DEF Begins, Turn

LEMMA PassGrows ==
  ASSUME NEW g \in Graphs, NEW before \in Seq(Ranks), NEW i \in 0..MaxNodes, NEW j \in i..MaxNodes
  PROVE  Begins(Pass(g, before)[i], Pass(g, before)[j])
<1>1. PICK pass : pass = Pass(g, before)
  OBVIOUS
<1>2. \A n \in Ranks : pass[n] = Turn(g, pass[n - 1], n)
  BY <1>1, PassTurns
<1>3. pass \in [0..MaxNodes -> Seq(Ranks)]
  BY <1>1, PassTurns
<1>4. MaxNodes \in Nat /\ i \in Nat /\ j \in Nat /\ i <= j /\ j <= MaxNodes
  BY MaxNodesAssumption
<1> DEFINE good == {n \in Nat : i + n <= j => Begins(pass[i], pass[i + n])}
<1>5. 0 \in good
  BY <1>3, <1>4 DEF Begins
<1>6. ASSUME NEW n \in Nat, n \in good PROVE n + 1 \in good
  <2> SUFFICES ASSUME i + (n + 1) <= j PROVE Begins(pass[i], pass[i + (n + 1)])
    OBVIOUS
  <2>1. PICK m : m = i + (n + 1)
    OBVIOUS
  <2>2. m \in Ranks /\ m \in 0..MaxNodes /\ m - 1 = i + n /\ m - 1 \in 0..MaxNodes /\ i + n <= j
    BY <1>4, <2>1 DEF Ranks
  <2>3. Begins(pass[i], pass[m - 1])
    BY <1>6, <2>2
  <2>4. pass[m] = Turn(g, pass[m - 1], m)
    BY <1>2, <2>2
  <2>5. pass[i] \in Seq(Ranks) /\ pass[m - 1] \in Seq(Ranks) /\ pass[m] \in Seq(Ranks)
    BY <1>3, <2>2
  <2>6. Begins(pass[m - 1], pass[m])
    BY <2>4, <2>5, TurnBegins
  <2> QED BY <2>1, <2>3, <2>5, <2>6, BeginsOn
<1> HIDE DEF good
<1>7. j - i \in good
  BY <1>4, <1>5, <1>6, EveryCount
<1>8. j - i \in Nat /\ i + (j - i) = j
  BY <1>4
<1> QED BY <1>1, <1>4, <1>7, <1>8 DEF good

LEMMA PassesGrow ==
  ASSUME NEW g \in Graphs, NEW i \in 0..MaxNodes, NEW j \in i..MaxNodes
  PROVE  Begins(Passes(g)[i], Passes(g)[j])
<1>1. PICK passes : passes = Passes(g)
  OBVIOUS
<1>2. \A k \in Ranks : passes[k] = Pass(g, passes[k - 1])[MaxNodes]
  BY <1>1, PassesTurn
<1>3. passes \in [0..MaxNodes -> Seq(Ranks)]
  BY <1>1, PassesTurn
<1>4. MaxNodes \in Nat /\ i \in Nat /\ j \in Nat /\ i <= j /\ j <= MaxNodes
  BY MaxNodesAssumption
<1> DEFINE good == {n \in Nat : i + n <= j => Begins(passes[i], passes[i + n])}
<1>5. 0 \in good
  BY <1>3, <1>4 DEF Begins
<1>6. ASSUME NEW n \in Nat, n \in good PROVE n + 1 \in good
  <2> SUFFICES ASSUME i + (n + 1) <= j PROVE Begins(passes[i], passes[i + (n + 1)])
    OBVIOUS
  <2>1. PICK m : m = i + (n + 1)
    OBVIOUS
  <2>2. m \in Ranks /\ m \in 0..MaxNodes /\ m - 1 = i + n /\ m - 1 \in 0..MaxNodes /\ i + n <= j
    BY <1>4, <2>1 DEF Ranks
  <2>3. Begins(passes[i], passes[m - 1])
    BY <1>6, <2>2
  <2>4. passes[i] \in Seq(Ranks) /\ passes[m - 1] \in Seq(Ranks) /\ passes[m] \in Seq(Ranks)
    BY <1>3, <2>2
  <2>5. Begins(passes[m - 1], passes[m])
    <3>1. 0 \in 0..MaxNodes /\ MaxNodes \in 0..MaxNodes
      BY <1>4
    <3>2. Begins(Pass(g, passes[m - 1])[0], Pass(g, passes[m - 1])[MaxNodes])
      BY <2>4, <3>1, PassGrows
    <3> QED BY <1>2, <2>2, <2>4, <3>2, PassTurns
  <2> QED BY <2>1, <2>3, <2>4, <2>5, BeginsOn
<1> HIDE DEF good
<1>7. j - i \in good
  BY <1>4, <1>5, <1>6, EveryCount
<1>8. j - i \in Nat /\ i + (j - i) = j
  BY <1>4
<1> QED BY <1>1, <1>4, <1>7, <1>8 DEF good

LEMMA PointBegins ==
  ASSUME NEW g \in Graphs, NEW k \in 0..MaxNodes - 1, NEW p \in 0..MaxNodes
  PROVE  IsPrefix(Pass(g, Passes(g)[k])[p], Simulate(g))
<1>1. /\ MaxNodes \in Nat /\ k \in 0..MaxNodes /\ k + 1 \in 0..MaxNodes /\ k + 1 \in Ranks
      /\ (k + 1) - 1 = k /\ MaxNodes \in p..MaxNodes /\ MaxNodes \in k + 1..MaxNodes
      /\ MaxNodes \in 0..MaxNodes
  BY MaxNodesAssumption DEF Ranks
<1>2. PICK before : before = Passes(g)[k]
  OBVIOUS
<1>3. before \in Seq(Ranks) /\ Passes(g)[k + 1] = Pass(g, before)[MaxNodes]
  BY <1>1, <1>2, PassesTurn
<1>4. /\ Pass(g, before)[p] \in Seq(Ranks) /\ Pass(g, before)[MaxNodes] \in Seq(Ranks)
      /\ Simulate(g) \in Seq(Ranks)
  BY <1>1, <1>3, PassTurns, PassesTurn DEF Simulate
<1>5. Begins(Pass(g, before)[p], Pass(g, before)[MaxNodes])
  BY <1>1, <1>3, PassGrows
<1>6. Begins(Pass(g, before)[MaxNodes], Simulate(g))
  BY <1>1, <1>3, PassesGrow DEF Simulate
<1> QED BY <1>2, <1>4, <1>5, <1>6, BeginsOn, BeginsIsPrefix

\* Where nothing is ready the simulation ends.
LEMMA SimulationEnds ==
  ASSUME NEW g \in Graphs, NEW k \in 0..MaxNodes - 1, NEW p \in 0..MaxNodes, NEW s,
         s = Pass(g, Passes(g)[k])[p], Ready(Ranks, g, ToSet(s)) = {}
  PROVE  Simulate(g) = s
<1>1. /\ MaxNodes \in Nat /\ k \in Nat /\ k \in 0..MaxNodes /\ k + 1 \in 0..MaxNodes /\ k + 1 \in Ranks
      /\ (k + 1) - 1 = k /\ MaxNodes \in p..MaxNodes /\ MaxNodes \in 0..MaxNodes /\ 0 \in 0..MaxNodes
      /\ k + 1 <= MaxNodes
  BY MaxNodesAssumption DEF Ranks
<1>2. PICK passes : passes = Passes(g)
  OBVIOUS
<1>3. /\ passes \in [0..MaxNodes -> Seq(Ranks)]
      /\ \A j \in Ranks : passes[j] = Pass(g, passes[j - 1])[MaxNodes]
  BY <1>2, PassesTurn
<1>4. passes[k] \in Seq(Ranks) /\ s \in Seq(Ranks)
  <2>1. PICK before \in Seq(Ranks) : before = passes[k]
    BY <1>1, <1>3
  <2>2. Pass(g, before) \in [0..MaxNodes -> Seq(Ranks)]
    BY PassTurns
  <2>3. Pass(g, before)[p] \in Seq(Ranks)
    BY <2>2
  <2> QED BY <1>2, <2>1, <2>3
<1>5. Pass(g, passes[k])[MaxNodes] = s
  <2>1. Pass(g, passes[k])[p] = s /\ \A n : n \notin Ready(Ranks, g, ToSet(s))
    BY <1>2
  <2>2. \A n \in p + 1..MaxNodes : n \notin Ready(Ranks, g, ToSet(Pass(g, passes[k])[p]))
    BY <2>1
  <2>3. Pass(g, passes[k])[MaxNodes] = Pass(g, passes[k])[p]
    BY ONLY <1>1, <1>4, <2>2, PassStays, g \in Graphs, p \in 0..MaxNodes
  <2> QED BY <2>1, <2>3
<1>6. Pass(g, s)[MaxNodes] = s
  <2>1. Pass(g, s)[0] = s
    BY <1>4, PassTurns
  <2> QED BY <1>1, <1>4, <2>1, PassStays
<1> DEFINE good == {n \in Nat : (k + 1) + n <= MaxNodes => passes[(k + 1) + n] = s}
<1>7. 0 \in good
  <2>1. PICK m : m = k + 1
    OBVIOUS
  <2>2. m \in Ranks /\ m - 1 = k /\ (k + 1) + 0 = m
    BY <1>1, <2>1
  <2>3. passes[m] = Pass(g, passes[m - 1])[MaxNodes]
    BY <1>3, <2>2
  <2> QED BY <1>5, <2>2, <2>3
<1>8. ASSUME NEW n \in Nat, n \in good PROVE n + 1 \in good
  <2> SUFFICES ASSUME (k + 1) + (n + 1) <= MaxNodes PROVE passes[(k + 1) + (n + 1)] = s
    OBVIOUS
  <2>1. PICK m : m = (k + 1) + (n + 1)
    OBVIOUS
  <2>2. m \in Ranks /\ m - 1 = (k + 1) + n /\ (k + 1) + n <= MaxNodes
    BY <1>1, <2>1 DEF Ranks
  <2>3. passes[m - 1] = s
    BY <1>8, <2>2
  <2> QED BY <1>3, <1>6, <2>1, <2>2, <2>3
<1> HIDE DEF good
<1>9. MaxNodes - (k + 1) \in good
  BY <1>1, <1>7, <1>8, EveryCount
<1>10. MaxNodes - (k + 1) \in Nat /\ (k + 1) + (MaxNodes - (k + 1)) = MaxNodes
  BY <1>1
<1>11. passes[MaxNodes] = s
  BY <1>1, <1>9, <1>10 DEF good
<1> QED BY <1>2, <1>11 DEF Simulate

-----------------------------------------------------------------------------
\* The run is at a point of the simulation, and goes on to the next one.

\* The pass the run is in: each pass before it has run a node.
IsInPass(k) ==
  /\ k \in 0..MaxNodes - 1
  /\ trace = Pass(up, Passes(up)[k])[pos]
  /\ k <= Len(trace)
  /\ pos # 0 => k + 1 <= Len(trace)

OnceEach == IsFiniteSet(Done) /\ Cardinality(Done) = Len(trace)

InputsFirst == \A n \in Done : up[n] \subseteq Done

\* Nodes that all lead to one of them.
Circular(g, S) == S # {} /\ \A x \in S : Successors(g, x) \cap S # {}

NoCircleIsDone == \A S \in SUBSET Done : ~Circular(up, S)

EndsWhenNothingIsReady ==
  /\ loop = "completed" => Done = Ranks
  /\ loop = "stalled" => Done # Ranks /\ Ready(Ranks, up, Done) = {}

ScheduleInv ==
  /\ ScheduleTypeOK
  /\ \E k \in 0..MaxNodes - 1 : IsInPass(k)
  /\ OnceEach
  /\ InputsFirst
  /\ NoCircleIsDone
  /\ EndsWhenNothingIsReady

LEMMA ScheduleInitInv == ScheduleInit => ScheduleInv
<1> SUFFICES ASSUME ScheduleInit PROVE ScheduleInv
  OBVIOUS
<1> USE DEF ScheduleInit
<1>1. MaxNodes \in Nat /\ 0 \in 0..MaxNodes - 1 /\ 0 \in 0..MaxNodes
  BY MaxNodesAssumption
<1>2. up \in Graphs /\ <<>> \in Seq(Ranks) /\ Len(<<>>) = 0
  BY DEF Graphs
<1>3. Done = {}
  BY DEF Done, ToSet
<1>4. IsInPass(0)
  <2>1. Passes(up)[0] = <<>>
    BY <1>2, PassesTurn
  <2>2. Pass(up, <<>>)[0] = <<>>
    BY <1>2, PassTurns
  <2> QED BY <1>1, <1>2, <2>1, <2>2 DEF IsInPass
<1>5. OnceEach
  BY <1>2, <1>3, FS_EmptySet DEF OnceEach
<1>6. ScheduleTypeOK
  BY <1>1, <1>2 DEF ScheduleTypeOK
<1> QED BY <1>1, <1>3, <1>4, <1>5, <1>6
     DEF ScheduleInv, InputsFirst, NoCircleIsDone, Circular, EndsWhenNothingIsReady

LEMMA AppendedIsDone ==
  ASSUME NEW s \in Seq(Ranks), NEW n \in Ranks
  PROVE  ToSet(Append(s, n)) = ToSet(s) \cup {n} /\ ToSet(s) \subseteq Ranks
<1>1. DOMAIN s = 1..Len(s) /\ Len(s) \in Nat /\ DOMAIN Append(s, n) = 1..Len(s) + 1
  OBVIOUS
<1>2. \A i \in 1..Len(s) : Append(s, n)[i] = s[i] /\ s[i] \in Ranks
  OBVIOUS
<1>3. Append(s, n)[Len(s) + 1] = n
  OBVIOUS
<1>4. 1..Len(s) + 1 = (1..Len(s)) \cup {Len(s) + 1}
  BY <1>1
<1> QED BY <1>1, <1>2, <1>3, <1>4 DEF ToSet

LEMMA RanksAreFinite == IsFiniteSet(Ranks) /\ Cardinality(Ranks) = MaxNodes
<1>1. MaxNodes \in Nat
  BY MaxNodesAssumption
<1> QED BY <1>1, FS_Interval DEF Ranks

\* A turn that runs a node is one of the simulation.
LEMMA RunsInPass ==
  ASSUME ScheduleInv, NEW n \in Ranks, RunNode(n)
  PROVE  \E k \in 0..MaxNodes - 1 : IsInPass(k)'
<1>1. PICK k \in 0..MaxNodes - 1 : IsInPass(k)
  BY DEF ScheduleInv
<1>2. /\ up \in Graphs /\ pos \in 0..MaxNodes /\ trace \in Seq(Ranks) /\ Len(trace) \in Nat
      /\ trace = Pass(up, Passes(up)[k])[pos] /\ k <= Len(trace) /\ (pos # 0 => k + 1 <= Len(trace))
  BY <1>1 DEF ScheduleInv, ScheduleTypeOK, IsInPass, Graphs
<1>3. PICK ready : ready = Ready(Ranks, up, Done)
  OBVIOUS
<1>4. /\ n \in ready /\ ready \subseteq Ranks /\ n \notin Done
      /\ trace' = Append(trace, n) /\ pos' = n /\ up' = up
      /\ IF \E m \in ready : m > pos
         THEN n > pos /\ \A m \in ready : m > pos => n <= m
         ELSE \A m \in ready : n <= m
  BY <1>3 DEF RunNode, IsNextInPass, Ready
<1>5. /\ MaxNodes \in Nat /\ k \in Nat /\ k \in 0..MaxNodes /\ k + 1 <= MaxNodes
      /\ n \in Nat /\ 1 <= n /\ n <= MaxNodes /\ pos \in Nat /\ pos <= MaxNodes
      /\ n - 1 \in 0..MaxNodes /\ n - 1 \in Nat /\ \A m \in ready : m \in Nat /\ m <= MaxNodes
  BY <1>2, <1>4, MaxNodesAssumption DEF Ranks
<1>6. /\ Passes(up)[k] \in Seq(Ranks)
      /\ k + 1 \in Ranks => Passes(up)[k + 1] = Pass(up, Passes(up)[k])[MaxNodes]
  BY <1>2, <1>5, PassesTurn
<1>7. Len(trace') = Len(trace) + 1
  BY <1>2, <1>4
<1>8. ToSet(trace) = Done
  BY DEF Done
<1>9. CASE n > pos /\ \A m \in ready : m > pos => n <= m
  <2>1. n - 1 \in pos..MaxNodes /\ \A m \in pos + 1..n - 1 : m \notin ready
    BY <1>5, <1>9
  <2>2. Pass(up, Passes(up)[k])[n - 1] = trace
    <3>1. \A m \in pos + 1..n - 1 : m \notin Ready(Ranks, up, ToSet(Pass(up, Passes(up)[k])[pos]))
      BY <1>2, <1>3, <1>8, <2>1
    <3> QED BY ONLY <1>2, <1>6, <2>1, <3>1, PassStays
  <2>3. Pass(up, Passes(up)[k])[n] = Append(trace, n)
    <3>1. Pass(up, Passes(up)[k])[n] = Turn(up, trace, n)
      BY <1>2, <1>6, <2>2, PassTurns
    <3> QED BY <1>3, <1>4, <1>8, <3>1 DEF Turn
  <2>4. k <= Len(trace) + 1 /\ k + 1 <= Len(trace) + 1
    BY <1>2, <1>5
  <2>5. IsInPass(k)'
    BY <1>1, <1>4, <1>7, <2>3, <2>4 DEF IsInPass
  <2> QED BY <2>5
<1>10. CASE ~(\E m \in ready : m > pos) /\ \A m \in ready : n <= m
  <2>1. pos # 0
    BY <1>4, <1>5, <1>10
  <2>2. k + 1 <= Len(trace)
    BY <1>2, <2>1
  <2>3. Len(trace) + 1 <= MaxNodes
    <3>1. Done \subseteq Ranks /\ IsFiniteSet(Done) /\ Cardinality(Done) = Len(trace)
      BY <1>2, <1>4, <1>8, AppendedIsDone DEF ScheduleInv, OnceEach
    <3>2. IsFiniteSet(Ranks) /\ Cardinality(Ranks) = MaxNodes
      BY RanksAreFinite
    <3>3. IsFiniteSet(Done \cup {n}) /\ Cardinality(Done \cup {n}) = Cardinality(Done) + 1
      BY <1>4, <3>1, FS_AddElement
    <3>4. Cardinality(Done \cup {n}) <= Cardinality(Ranks)
      BY <3>1, <3>2, FS_Subset
    <3> QED BY <3>1, <3>2, <3>3, <3>4
  <2>4. k + 1 \in 0..MaxNodes - 1 /\ k + 1 \in Ranks /\ MaxNodes \in pos..MaxNodes
    BY <1>2, <1>5, <2>2, <2>3 DEF Ranks
  <2>5. Passes(up)[k + 1] = trace
    <3>1. \A m \in pos + 1..MaxNodes : m \notin ready
      BY <1>5, <1>10
    <3>2. \A m \in pos + 1..MaxNodes : m \notin Ready(Ranks, up, ToSet(Pass(up, Passes(up)[k])[pos]))
      BY <1>2, <1>3, <1>8, <3>1
    <3>3. Pass(up, Passes(up)[k])[MaxNodes] = Pass(up, Passes(up)[k])[pos]
      BY ONLY <1>2, <1>6, <2>4, <3>2, PassStays
    <3> QED BY <1>2, <1>6, <2>4, <3>3
  <2>6. Pass(up, trace)[0] = trace
    BY <1>2, PassTurns
  <2>7. Pass(up, trace)[n - 1] = trace
    <3>1. \A m \in 0 + 1..n - 1 : m \notin ready
      BY <1>5, <1>10
    <3>2. \A m \in 0 + 1..n - 1 : m \notin Ready(Ranks, up, ToSet(Pass(up, trace)[0]))
      BY <1>3, <1>8, <2>6, <3>1
    <3>3. 0 \in 0..MaxNodes /\ n - 1 \in 0..MaxNodes
      BY <1>5
    <3>4. Pass(up, trace)[n - 1] = Pass(up, trace)[0]
      BY ONLY <1>2, <3>2, <3>3, PassStays
    <3> QED BY <2>6, <3>4
  <2>8. Pass(up, trace)[n] = Append(trace, n)
    <3>1. Pass(up, trace)[n] = Turn(up, trace, n)
      BY <1>2, <2>7, PassTurns
    <3> QED BY <1>3, <1>4, <1>8, <3>1 DEF Turn
  <2>9. k + 1 <= Len(trace) + 1 /\ (k + 1) + 1 <= Len(trace) + 1
    BY <1>2, <1>5, <2>2
  <2>10. IsInPass(k + 1)'
    BY <1>4, <1>7, <2>4, <2>5, <2>8, <2>9 DEF IsInPass
  <2> QED BY <2>4, <2>10
<1> QED BY <1>4, <1>9, <1>10

LEMMA RunNodeKeepsInv ==
  ASSUME ScheduleInv, NEW n \in Ranks, RunNode(n)
  PROVE  ScheduleInv'
<1>1. /\ up \in Graphs /\ pos \in 0..MaxNodes /\ trace \in Seq(Ranks)
      /\ trace' = Append(trace, n) /\ pos' = n /\ up' = up /\ loop' = loop /\ loop = "running"
      /\ n \notin Done /\ up[n] \subseteq Done
  BY DEF ScheduleInv, ScheduleTypeOK, Graphs, RunNode, IsNextInPass, Ready
<1>2. Done' = Done \cup {n} /\ Done \subseteq Ranks
  BY <1>1, AppendedIsDone DEF Done
<1>3. ScheduleTypeOK'
  <2>1. n \in 0..MaxNodes
    BY MaxNodesAssumption DEF Ranks
  <2> QED BY <1>1, <2>1 DEF ScheduleTypeOK, Graphs
<1>4. OnceEach'
  <2>1. IsFiniteSet(Done) /\ Cardinality(Done) = Len(trace)
    BY DEF ScheduleInv, OnceEach
  <2>2. IsFiniteSet(Done \cup {n}) /\ Cardinality(Done \cup {n}) = Cardinality(Done) + 1
    BY <1>1, <2>1, FS_AddElement
  <2>3. Len(trace') = Len(trace) + 1
    BY <1>1
  <2> QED BY <1>2, <2>1, <2>2, <2>3 DEF OnceEach
<1>5. InputsFirst'
  BY <1>1, <1>2 DEF ScheduleInv, InputsFirst
<1>6. NoCircleIsDone'
  <2> SUFFICES ASSUME NEW S \in SUBSET (Done \cup {n}), Circular(up, S) PROVE FALSE
    BY <1>1, <1>2 DEF NoCircleIsDone, Circular, Successors
  <2>1. n \in S
    BY DEF ScheduleInv, NoCircleIsDone
  <2>2. PICK m \in S : m \in Ranks /\ n \in up[m]
    BY <2>1 DEF Circular, Successors
  <2>3. up[m] \subseteq Done
    BY <1>1, <2>2 DEF ScheduleInv, InputsFirst
  <2> QED BY <1>1, <2>2, <2>3
<1>7. EndsWhenNothingIsReady'
  BY <1>1 DEF EndsWhenNothingIsReady
<1>8. (\E k \in 0..MaxNodes - 1 : IsInPass(k))'
  BY RunsInPass
<1> QED BY <1>3, <1>4, <1>5, <1>6, <1>7, <1>8 DEF ScheduleInv

LEMMA ScheduleStepInv == ScheduleInv /\ [ScheduleNext]_scheduleVars => ScheduleInv'
<1> SUFFICES ASSUME ScheduleInv, [ScheduleNext]_scheduleVars PROVE ScheduleInv'
  OBVIOUS
<1>1. ASSUME UNCHANGED <<up, pos, trace>>, loop' \in {"running", "completed", "stalled"},
             EndsWhenNothingIsReady'
      PROVE  ScheduleInv'
  BY <1>1 DEF ScheduleInv, ScheduleTypeOK, IsInPass, OnceEach, InputsFirst, NoCircleIsDone, Done
<1>2. CASE Finish
  BY <1>1, <1>2 DEF Finish, EndsWhenNothingIsReady, Done
<1>3. CASE Stall
  BY <1>1, <1>3 DEF Stall, EndsWhenNothingIsReady, Done
<1>4. CASE \E n \in Ranks : RunNode(n)
  BY <1>4, RunNodeKeepsInv
<1>5. CASE UNCHANGED scheduleVars
  BY <1>1, <1>5 DEF scheduleVars, ScheduleInv, ScheduleTypeOK, EndsWhenNothingIsReady, Done
<1> QED BY <1>2, <1>3, <1>4, <1>5 DEF ScheduleNext

LEMMA ScheduleInvHolds == ScheduleSpec => []ScheduleInv
<1> QED BY ScheduleInitInv, ScheduleStepInv, PTL DEF ScheduleSpec

(* At every point the nodes a durable run has completed are, in order, the *)
(* beginning of the deterministic simulation of the same workflow.         *)
THEOREM SchedulesFollowSimulation == ScheduleSpec => []FollowsSimulation
<1>1. ScheduleInv => FollowsSimulation
  <2> SUFFICES ASSUME ScheduleInv PROVE FollowsSimulation
    OBVIOUS
  <2>1. PICK k \in 0..MaxNodes - 1 : IsInPass(k)
    BY DEF ScheduleInv
  <2> QED BY <2>1, PointBegins DEF ScheduleInv, ScheduleTypeOK, Graphs, IsInPass, FollowsSimulation
<1> QED BY <1>1, ScheduleInvHolds, PTL

-----------------------------------------------------------------------------
\* The depth-first search: its loops, one call at a time.

VisitCalls == [Ranks -> [SUBSET Ranks -> [Searches -> Searches]]]

IsVisitNext(seen, g, n, stack, search, Below) ==
  /\ seen \in [0..MaxNodes -> Searches]
  /\ seen[0] = search
  /\ \A m \in Ranks : seen[m] = IF m \in Successors(g, n) THEN Below[m][stack][seen[m - 1]]
                                ELSE seen[m - 1]
  /\ VisitNext(g, n, stack, search, Below) = seen[MaxNodes]

LEMMA VisitNextTurns ==
  ASSUME NEW g \in Graphs, NEW n \in Ranks, NEW stack \in SUBSET Ranks, NEW search \in Searches,
         NEW Below \in VisitCalls
  PROVE  \E seen : IsVisitNext(seen, g, n, stack, search, Below)
<1> DEFINE Look(m, s) == IF m \in Successors(g, n) THEN Below[m][stack][s] ELSE s
           step == [m \in Nat |-> [s \in Searches |-> Look(m, s)]]
           IsSeen(w) == w = [m \in 0..MaxNodes |->
                               IF m = 0 THEN search
                               ELSE IF m \in Successors(g, n) THEN Below[m][stack][w[m - 1]]
                               ELSE w[m - 1]]
           seen == CHOOSE w : IsSeen(w)
<1>1. \A m : \A s \in Searches : Look(m, s) \in Searches
  BY DEF VisitCalls, Successors
<1>2. \A m, s : Look(m, s) = IF m \in Successors(g, n) THEN Below[m][stack][s] ELSE s
  OBVIOUS
<1> HIDE DEF Look
<1>3. step \in [Nat -> [Searches -> Searches]]
  BY <1>1
<1>4. \A m \in Nat : \A s \in Searches : step[m][s] = Look(m, s)
  OBVIOUS
<1> HIDE DEF step
<1>5. MaxNodes \in Nat
  BY MaxNodesAssumption
<1>6. PICK f : IsLoop(f, Searches, search, step, MaxNodes)
  BY <1>3, <1>5, LoopsExist
<1>7. /\ f \in [0..MaxNodes -> Searches] /\ f[0] = search
      /\ \A m \in 1..MaxNodes : f[m] = step[m][f[m - 1]]
  BY <1>6 DEF IsLoop
<1>8. IsSeen(f)
  <2>1. ASSUME NEW m \in 1..MaxNodes PROVE f[m] = Look(m, f[m - 1])
    <3>1. m \in Nat /\ m - 1 \in 0..MaxNodes
      BY <1>5
    <3>2. f[m - 1] \in Searches
      BY <1>7, <3>1
    <3> QED BY <1>4, <1>7, <3>1, <3>2
  <2>2. ASSUME NEW m \in 0..MaxNodes
        PROVE  f[m] = IF m = 0 THEN search
                      ELSE IF m \in Successors(g, n) THEN Below[m][stack][f[m - 1]] ELSE f[m - 1]
    <3>1. CASE m = 0
      BY <1>7, <3>1
    <3>2. CASE m \in 1..MaxNodes
      <4>1. m # 0
        BY <3>2
      <4> QED BY <1>2, <2>1, <3>2, <4>1
    <3> QED BY <1>5, <3>1, <3>2
  <2> QED BY <1>7, <2>2
<1>9. VisitNext(g, n, stack, search, Below) = seen[MaxNodes]
  BY DEF VisitNext
<1>10. IsSeen(seen)
  BY <1>8
<1> HIDE DEF seen
<1>11. /\ DOMAIN seen = 0..MaxNodes /\ seen = [m \in 0..MaxNodes |-> seen[m]] /\ seen[0] = search
       /\ \A m \in 1..MaxNodes : seen[m] = IF m \in Successors(g, n) THEN Below[m][stack][seen[m - 1]]
                                          ELSE seen[m - 1]
  <2>1. /\ DOMAIN seen = 0..MaxNodes /\ seen = [m \in 0..MaxNodes |-> seen[m]]
        /\ \A m \in 0..MaxNodes :
             seen[m] = IF m = 0 THEN search
                       ELSE IF m \in Successors(g, n) THEN Below[m][stack][seen[m - 1]]
                       ELSE seen[m - 1]
    BY <1>10
  <2>2. 0 \in 0..MaxNodes /\ \A m \in 1..MaxNodes : m \in 0..MaxNodes /\ m # 0
    BY <1>5
  <2>3. seen[0] = search
    BY <2>1, <2>2
  <2>4. ASSUME NEW m \in 1..MaxNodes
        PROVE  seen[m] = IF m \in Successors(g, n) THEN Below[m][stack][seen[m - 1]] ELSE seen[m - 1]
    BY <2>1, <2>2
  <2> QED BY <2>1, <2>3, <2>4
<1> HIDE DEF IsSeen
<1>12. ASSUME NEW m \in 1..MaxNodes, seen[m - 1] \in Searches
       PROVE  seen[m] = step[m][seen[m - 1]]
  <2>1. m \in Nat
    BY <1>5
  <2>2. step[m][seen[m - 1]] = Look(m, seen[m - 1])
    BY <1>4, <1>12, <2>1
  <2> QED BY <1>2, <1>11, <2>2
<1>13. IsLoop(seen, Searches, search, step, MaxNodes)
  BY ONLY <1>3, <1>5, <1>11, <1>12, search \in Searches, LoopsStay
<1>14. seen \in [0..MaxNodes -> Searches]
  BY <1>13 DEF IsLoop
<1> QED BY <1>9, <1>11, <1>14 DEF IsVisitNext, Ranks

LEMMA VisitOnceTyped ==
  ASSUME NEW g \in Graphs, NEW n \in Ranks, NEW T \in SUBSET Ranks, NEW s \in Searches,
         NEW Below \in VisitCalls
  PROVE  VisitOnce(g, n, T, s, Below) \in Searches
<1>1. PICK stack \in SUBSET Ranks : stack = T \cup {n}
  OBVIOUS
<1>2. PICK next : next = VisitNext(g, n, stack, s, Below)
  OBVIOUS
<1>3. next \in Searches
  <2>1. PICK seen : IsVisitNext(seen, g, n, stack, s, Below)
    BY VisitNextTurns
  <2>2. MaxNodes \in 0..MaxNodes
    BY MaxNodesAssumption
  <2> QED BY <1>2, <2>1, <2>2 DEF IsVisitNext
<1>4. [next EXCEPT !.permanent = @ \cup {n}] \in Searches /\ [s EXCEPT !.cycle = TRUE] \in Searches
  BY <1>3 DEF Searches
<1> QED BY <1>1, <1>2, <1>4 DEF VisitOnce

LEMMA VisitTurns ==
  ASSUME NEW g \in Graphs
  PROVE  \E visit \in [0..MaxNodes + 1 -> VisitCalls] :
           /\ \A k \in 1..MaxNodes + 1 : \A n \in Ranks : \A T \in SUBSET Ranks : \A s \in Searches :
                visit[k][n][T][s] = VisitOnce(g, n, T, s, visit[k - 1])
           /\ Visit(g) = visit[MaxNodes + 1]
<1> DEFINE first == [n \in Ranks |-> [T \in SUBSET Ranks |-> [s \in Searches |-> s]]]
           Deeper(Below) ==
             [n \in Ranks |-> [T \in SUBSET Ranks |-> [s \in Searches |-> VisitOnce(g, n, T, s, Below)]]]
           step == [k \in Nat |-> [Below \in VisitCalls |-> Deeper(Below)]]
           IsVisit(w) == w = [k \in 0..MaxNodes + 1 |->
             [n \in Ranks |-> [temporary \in SUBSET Ranks |-> [search \in Searches |->
                IF k = 0 THEN search ELSE VisitOnce(g, n, temporary, search, w[k - 1])]]]]
           visit == CHOOSE w : IsVisit(w)
<1>1. \A Below \in VisitCalls : Deeper(Below) \in VisitCalls
  BY VisitOnceTyped DEF VisitCalls
<1>2. first \in VisitCalls
  BY DEF VisitCalls
<1>3. /\ \A Below : Deeper(Below) =
           [n \in Ranks |-> [T \in SUBSET Ranks |-> [s \in Searches |-> VisitOnce(g, n, T, s, Below)]]]
      /\ first = [n \in Ranks |-> [T \in SUBSET Ranks |-> [s \in Searches |-> s]]]
  OBVIOUS
<1> HIDE DEF Deeper, first
<1>4. step \in [Nat -> [VisitCalls -> VisitCalls]]
  BY <1>1
<1>5. \A k \in Nat : \A Below \in VisitCalls : step[k][Below] = Deeper(Below)
  OBVIOUS
<1> HIDE DEF step
<1>6. MaxNodes \in Nat /\ MaxNodes + 1 \in Nat
  BY MaxNodesAssumption
<1>7. PICK f : IsLoop(f, VisitCalls, first, step, MaxNodes + 1)
  BY <1>2, <1>4, <1>6, LoopsExist
<1>8. /\ f \in [0..MaxNodes + 1 -> VisitCalls] /\ f[0] = first
      /\ \A k \in 1..MaxNodes + 1 : f[k] = step[k][f[k - 1]]
  BY <1>7 DEF IsLoop
<1> DEFINE Level(k, w) ==
             [n \in Ranks |-> [temporary \in SUBSET Ranks |-> [search \in Searches |->
                IF k = 0 THEN search ELSE VisitOnce(g, n, temporary, search, w[k - 1])]]]
<1>9. \A w : Level(0, w) = first
  BY <1>3
<1>10. ASSUME NEW k \in 1..MaxNodes + 1, NEW w PROVE Level(k, w) = Deeper(w[k - 1])
  <2>1. k # 0
    BY <1>6
  <2> QED BY <1>3, <2>1
<1>11. \A w : IsVisit(w) <=> w = [k \in 0..MaxNodes + 1 |-> Level(k, w)]
  OBVIOUS
<1> HIDE DEF Level, IsVisit
<1>12. IsVisit(f)
  <2>1. ASSUME NEW k \in 1..MaxNodes + 1 PROVE f[k] = Deeper(f[k - 1])
    <3>1. k \in Nat /\ k - 1 \in 0..MaxNodes + 1
      BY <1>6
    <3>2. f[k - 1] \in VisitCalls
      BY <1>8, <3>1
    <3> QED BY <1>5, <1>8, <3>1, <3>2
  <2>2. ASSUME NEW k \in 0..MaxNodes + 1 PROVE f[k] = Level(k, f)
    <3>1. k = 0 \/ k \in 1..MaxNodes + 1
      BY <1>6
    <3> QED BY <1>8, <1>9, <1>10, <2>1, <3>1
  <2> QED BY <1>8, <1>11, <2>2
<1>13. Visit(g) = visit[MaxNodes + 1]
  BY DEF Visit, IsVisit
<1>14. IsVisit(visit)
  BY <1>12
<1> HIDE DEF visit
<1>15. /\ DOMAIN visit = 0..MaxNodes + 1 /\ visit = [k \in 0..MaxNodes + 1 |-> visit[k]]
       /\ \A k \in 0..MaxNodes + 1 : visit[k] = Level(k, visit)
  BY <1>11, <1>14
<1>16. visit[0] = first /\ \A k \in 1..MaxNodes + 1 : visit[k] = Deeper(visit[k - 1])
  <2>1. 0 \in 0..MaxNodes + 1 /\ \A k \in 1..MaxNodes + 1 : k \in 0..MaxNodes + 1
    BY <1>6
  <2> QED BY <1>9, <1>10, <1>15, <2>1
<1>17. ASSUME NEW k \in 1..MaxNodes + 1, visit[k - 1] \in VisitCalls
       PROVE  visit[k] = step[k][visit[k - 1]]
  <2>1. k \in Nat
    BY <1>6
  <2> QED BY <1>5, <1>16, <1>17, <2>1
<1>18. IsLoop(visit, VisitCalls, first, step, MaxNodes + 1)
  BY ONLY <1>2, <1>4, <1>6, <1>15, <1>16, <1>17, LoopsStay
<1>19. visit \in [0..MaxNodes + 1 -> VisitCalls]
  BY <1>18 DEF IsLoop
<1>20. ASSUME NEW k \in 1..MaxNodes + 1, NEW n \in Ranks, NEW T \in SUBSET Ranks, NEW s \in Searches
       PROVE  visit[k][n][T][s] = VisitOnce(g, n, T, s, visit[k - 1])
  <2>1. visit[k] = Deeper(visit[k - 1])
    BY <1>16
  <2>2. PICK Below : Below = visit[k - 1]
    OBVIOUS
  <2>3. Deeper(Below)[n][T][s] = VisitOnce(g, n, T, s, Below)
    BY <1>3
  <2> QED BY <2>1, <2>2, <2>3
<1> QED BY <1>13, <1>19, <1>20

LEMMA SearchTurns ==
  ASSUME NEW g \in Graphs
  PROVE  \E searched \in [0..MaxNodes -> Searches] :
           /\ searched[0] = NoSearch
           /\ \A n \in Ranks : searched[n] = Visit(g)[n][{}][searched[n - 1]]
           /\ HasCycle(g) = searched[MaxNodes].cycle
<1>1. PICK visit : visit = Visit(g)
  OBVIOUS
<1>2. MaxNodes \in Nat /\ MaxNodes + 1 \in 0..MaxNodes + 1
  BY MaxNodesAssumption
<1>3. visit \in VisitCalls
  BY <1>1, <1>2, VisitTurns
<1> DEFINE Look(n, s) == IF n \in Ranks THEN visit[n][{}][s] ELSE s
           step == [n \in Nat |-> [s \in Searches |-> Look(n, s)]]
           IsSearched(w) == w = [n \in 0..MaxNodes |-> IF n = 0 THEN NoSearch ELSE visit[n][{}][w[n - 1]]]
           searched == CHOOSE w : IsSearched(w)
<1>4. \A n : \A s \in Searches : Look(n, s) \in Searches
  BY <1>3 DEF VisitCalls
<1>5. \A n \in Ranks : \A s : Look(n, s) = visit[n][{}][s]
  OBVIOUS
<1> HIDE DEF Look
<1>6. step \in [Nat -> [Searches -> Searches]]
  BY <1>4
<1>7. \A n \in Nat : \A s \in Searches : step[n][s] = Look(n, s)
  OBVIOUS
<1> HIDE DEF step
<1>8. NoSearch \in Searches
  BY DEF NoSearch, Searches
<1>9. PICK f : IsLoop(f, Searches, NoSearch, step, MaxNodes)
  BY <1>2, <1>6, <1>8, LoopsExist
<1>10. /\ f \in [0..MaxNodes -> Searches] /\ f[0] = NoSearch
       /\ \A n \in 1..MaxNodes : f[n] = step[n][f[n - 1]]
  BY <1>9 DEF IsLoop
<1>11. IsSearched(f)
  <2>1. ASSUME NEW n \in 1..MaxNodes PROVE f[n] = visit[n][{}][f[n - 1]]
    <3>1. n \in Nat /\ n - 1 \in 0..MaxNodes /\ n \in Ranks
      BY <1>2 DEF Ranks
    <3>2. f[n - 1] \in Searches
      BY <1>10, <3>1
    <3> QED BY <1>5, <1>7, <1>10, <3>1, <3>2
  <2>2. ASSUME NEW n \in 0..MaxNodes PROVE f[n] = IF n = 0 THEN NoSearch ELSE visit[n][{}][f[n - 1]]
    BY <1>2, <1>10, <2>1
  <2> QED BY <1>10, <2>2
<1>12. HasCycle(g) = searched[MaxNodes].cycle
  BY <1>1 DEF HasCycle
<1>13. IsSearched(searched)
  BY <1>11
<1> HIDE DEF searched
<1>14. /\ DOMAIN searched = 0..MaxNodes /\ searched = [n \in 0..MaxNodes |-> searched[n]]
       /\ searched[0] = NoSearch
       /\ \A n \in 1..MaxNodes : searched[n] = visit[n][{}][searched[n - 1]]
  <2>1. /\ DOMAIN searched = 0..MaxNodes /\ searched = [n \in 0..MaxNodes |-> searched[n]]
        /\ \A n \in 0..MaxNodes :
             searched[n] = IF n = 0 THEN NoSearch ELSE visit[n][{}][searched[n - 1]]
    BY <1>13
  <2>2. 0 \in 0..MaxNodes /\ \A n \in 1..MaxNodes : n \in 0..MaxNodes /\ n # 0
    BY <1>2
  <2> QED BY <2>1, <2>2
<1> HIDE DEF IsSearched
<1>15. ASSUME NEW n \in 1..MaxNodes, searched[n - 1] \in Searches
       PROVE  searched[n] = step[n][searched[n - 1]]
  <2>1. n \in Nat /\ n \in Ranks
    BY <1>2 DEF Ranks
  <2> QED BY <1>5, <1>7, <1>14, <1>15, <2>1
<1>16. IsLoop(searched, Searches, NoSearch, step, MaxNodes)
  BY ONLY <1>2, <1>6, <1>8, <1>14, <1>15, LoopsStay
<1>17. searched \in [0..MaxNodes -> Searches]
  BY <1>16 DEF IsLoop
<1> QED BY <1>1, <1>12, <1>14, <1>17 DEF Ranks

-----------------------------------------------------------------------------
\* What a search has found: a circle, or nodes of which one is fed from without
\* whichever of them are taken, and everything that they lead to.

StartSomewhere(g, P) == \A S \in SUBSET P : S # {} => \E x \in S : g[x] \cap S = {}

HasFound(g, s) ==
  IF s.cycle THEN \E S \in SUBSET Ranks : Circular(g, S)
  ELSE /\ \A x \in s.permanent : Successors(g, x) \subseteq s.permanent
       /\ StartSomewhere(g, s.permanent)

\* A search goes on from s to r with stack behind it.
GoesOn(g, s, r, stack) ==
  /\ r \in Searches /\ HasFound(g, r)
  /\ s.permanent \subseteq r.permanent /\ r.permanent \cap stack = {}
  /\ s.cycle => r.cycle

\* Each node of the stack leads to another one of it or to n.
LeadsTo(g, stack, n) == \A t \in stack : Successors(g, t) \cap (stack \cup {n}) # {}

\* Calls that may go k deep find what they should when fewer nodes than k are off the stack.
FindWithin(g, Calls, k) ==
  \A n \in Ranks : \A T \in SUBSET Ranks : \A s \in Searches :
    Cardinality(Ranks \ T) < k /\ LeadsTo(g, T, n) /\ HasFound(g, s) /\ s.permanent \cap T = {}
      => /\ GoesOn(g, s, Calls[n][T][s], T)
         /\ ~Calls[n][T][s].cycle => n \in Calls[n][T][s].permanent

LEMMA NextIsFound ==
  ASSUME NEW g \in Graphs, NEW k \in Nat, NEW Below \in VisitCalls, FindWithin(g, Below, k),
         NEW n \in Ranks, NEW stack \in SUBSET Ranks, NEW s \in Searches, NEW next,
         n \in stack, Cardinality(Ranks \ stack) < k, HasFound(g, s), s.permanent \cap stack = {},
         \A m \in Successors(g, n) : LeadsTo(g, stack, m),
         next = VisitNext(g, n, stack, s, Below)
  PROVE  /\ GoesOn(g, s, next, stack)
         /\ ~next.cycle => Successors(g, n) \subseteq next.permanent
<1>1. PICK seen \in [0..MaxNodes -> Searches] :
        /\ seen[0] = s
        /\ \A m \in Ranks : seen[m] = IF m \in Successors(g, n) THEN Below[m][stack][seen[m - 1]]
                                      ELSE seen[m - 1]
        /\ next = seen[MaxNodes]
  <2>1. PICK seen : IsVisitNext(seen, g, n, stack, s, Below)
    BY VisitNextTurns
  <2> QED BY <2>1 DEF IsVisitNext
<1>2. MaxNodes \in Nat
  BY MaxNodesAssumption
<1> DEFINE Found(m) == \A x \in Successors(g, n) : x <= m => x \in seen[m].permanent
           good == {m \in Nat : m <= MaxNodes => /\ GoesOn(g, s, seen[m], stack)
                                                 /\ ~seen[m].cycle => Found(m)}
<1>3. 0 \in good
  <2>1. \A x \in Successors(g, n) : ~(x <= 0)
    BY <1>2 DEF Successors, Ranks
  <2> QED BY <1>1, <2>1 DEF GoesOn
<1>4. ASSUME NEW i \in Nat, i \in good PROVE i + 1 \in good
  <2> SUFFICES ASSUME i + 1 <= MaxNodes
               PROVE  GoesOn(g, s, seen[i + 1], stack) /\ (~seen[i + 1].cycle => Found(i + 1))
    OBVIOUS
  <2>1. PICK m : m = i + 1
    OBVIOUS
  <2>2. m \in Ranks /\ m - 1 = i /\ i <= MaxNodes /\ i \in 0..MaxNodes
    BY <1>2, <2>1 DEF Ranks
  <2>3. PICK before \in Searches : before = seen[i]
    BY <2>2
  <2>4. GoesOn(g, s, before, stack) /\ (~before.cycle => \A x \in Successors(g, n) : x <= i => x \in before.permanent)
    BY <1>4, <2>2, <2>3
  <2>5. \A x \in Successors(g, n) : x <= m => x <= i \/ x = m
    BY <1>2, <2>1 DEF Successors, Ranks
  <2>6. CASE m \notin Successors(g, n)
    <3>1. seen[m] = before
      BY <1>1, <2>2, <2>3, <2>6
    <3> QED BY <2>1, <2>4, <2>5, <2>6, <3>1
  <2>7. CASE m \in Successors(g, n)
    <3>1. PICK after : after = Below[m][stack][before]
      OBVIOUS
    <3>2. seen[m] = after
      BY <1>1, <2>2, <2>3, <2>7, <3>1
    <3>3. HasFound(g, before) /\ before.permanent \cap stack = {}
      BY <2>4 DEF GoesOn
    <3>4. GoesOn(g, before, after, stack) /\ (~after.cycle => m \in after.permanent)
      BY <2>2, <2>7, <3>1, <3>3 DEF FindWithin
    <3>5. GoesOn(g, s, after, stack)
      BY <2>4, <3>4 DEF GoesOn
    <3>6. ASSUME ~after.cycle, NEW x \in Successors(g, n), x <= m PROVE x \in after.permanent
      <4>1. ~before.cycle /\ before.permanent \subseteq after.permanent
        BY <3>4, <3>6 DEF GoesOn
      <4> QED BY <2>4, <2>5, <3>4, <3>6, <4>1
    <3> QED BY <2>1, <3>2, <3>5, <3>6
  <2> QED BY <2>6, <2>7
<1>5. MaxNodes \in good
  <2> HIDE DEF good
  <2> QED BY <1>2, <1>3, <1>4, EveryCount
<1>6. \A x \in Successors(g, n) : x <= MaxNodes
  BY <1>2 DEF Successors, Ranks
<1> QED BY <1>1, <1>2, <1>5, <1>6

LEMMA OnceIsFound ==
  ASSUME NEW g \in Graphs, NEW k \in Nat, NEW Below \in VisitCalls, FindWithin(g, Below, k),
         NEW n \in Ranks, NEW T \in SUBSET Ranks, NEW s \in Searches, NEW r,
         Cardinality(Ranks \ T) < k + 1, LeadsTo(g, T, n), HasFound(g, s), s.permanent \cap T = {},
         r = VisitOnce(g, n, T, s, Below)
  PROVE  GoesOn(g, s, r, T) /\ (~r.cycle => n \in r.permanent)
<1>1. CASE n \in s.permanent
  BY <1>1 DEF VisitOnce, GoesOn
<1>2. CASE n \notin s.permanent /\ n \in T
  <2>1. r = [s EXCEPT !.cycle = TRUE]
    BY <1>2 DEF VisitOnce
  <2>2. r \in Searches /\ r.cycle /\ r.permanent = s.permanent
    BY <2>1 DEF Searches
  <2>3. T \cup {n} = T
    BY <1>2
  <2>4. Circular(g, T)
    BY <1>2, <2>3 DEF LeadsTo, Circular
  <2>5. HasFound(g, r)
    BY <2>2, <2>4 DEF HasFound
  <2> QED BY <2>2, <2>5 DEF GoesOn
<1>3. CASE n \notin s.permanent /\ n \notin T
  <2>1. PICK stack \in SUBSET Ranks : stack = T \cup {n}
    OBVIOUS
  <2>2. PICK next : next = VisitNext(g, n, stack, s, Below)
    OBVIOUS
  <2>3. r = [next EXCEPT !.permanent = @ \cup {n}]
    BY <1>3, <2>1, <2>2 DEF VisitOnce
  <2>4. Cardinality(Ranks \ stack) < k
    <3>1. IsFiniteSet(Ranks \ T)
      <4>1. Ranks \ T \subseteq Ranks
        OBVIOUS
      <4> QED BY <4>1, RanksAreFinite, FS_Subset
    <3>2. n \in Ranks \ T /\ (Ranks \ T) \ {n} = Ranks \ stack
      BY <1>3, <2>1
    <3>3. Cardinality((Ranks \ T) \ {n}) = Cardinality(Ranks \ T) - 1
      BY ONLY <3>1, <3>2, FS_RemoveElement
    <3>4. Cardinality(Ranks \ T) \in Nat
      BY <3>1, FS_CardinalityType
    <3>5. PICK off \in Nat : off = Cardinality(Ranks \ T)
      BY <3>4
    <3>6. off < k + 1 /\ Cardinality(Ranks \ stack) = off - 1
      BY <3>2, <3>3, <3>5
    <3> QED BY ONLY <3>6, off \in Nat, k \in Nat
  <2>5. ASSUME NEW m \in Successors(g, n) PROVE LeadsTo(g, stack, m)
    <3> SUFFICES ASSUME NEW t \in stack PROVE Successors(g, t) \cap (stack \cup {m}) # {}
      BY DEF LeadsTo
    <3>1. CASE t = n
      BY <3>1
    <3>2. CASE t \in T
      BY <2>1, <3>2 DEF LeadsTo
    <3> QED BY <2>1, <3>1, <3>2
  <2>6. n \in stack /\ s.permanent \cap stack = {}
    BY <1>3, <2>1
  <2>7. GoesOn(g, s, next, stack) /\ (~next.cycle => Successors(g, n) \subseteq next.permanent)
    BY ONLY <2>2, <2>4, <2>5, <2>6, NextIsFound, g \in Graphs, k \in Nat, Below \in VisitCalls,
       FindWithin(g, Below, k), n \in Ranks, stack \in SUBSET Ranks, s \in Searches, HasFound(g, s)
  <2>8. PICK P : P = next.permanent
    OBVIOUS
  <2>9. /\ next \in Searches /\ P \in SUBSET Ranks /\ HasFound(g, next)
        /\ s.permanent \subseteq P /\ P \cap stack = {} /\ (s.cycle => next.cycle)
    BY <2>7, <2>8 DEF GoesOn, Searches
  <2>10. r \in Searches /\ r.permanent = P \cup {n} /\ r.cycle = next.cycle
    BY <2>3, <2>8, <2>9 DEF Searches
  <2>11. HasFound(g, r)
    <3>1. CASE next.cycle
      BY <2>9, <2>10, <3>1 DEF HasFound
    <3>2. CASE ~next.cycle
      <4>1. Successors(g, n) \subseteq P /\ n \notin P
        BY <2>1, <2>7, <2>8, <2>9, <3>2
      <4>2. (\A x \in P : Successors(g, x) \subseteq P) /\ StartSomewhere(g, P)
        BY <2>8, <2>9, <3>2 DEF HasFound
      <4>3. g[n] \cap (P \cup {n}) = {}
        BY <4>1, <4>2, <2>9 DEF Successors
      <4>4. ASSUME NEW S \in SUBSET (P \cup {n}), S # {} PROVE \E x \in S : g[x] \cap S = {}
        <5>1. CASE n \in S
          BY <4>3, <5>1
        <5>2. CASE n \notin S
          <6>1. S \in SUBSET P
            BY <5>2
          <6> QED BY <4>2, <4>4, <6>1 DEF StartSomewhere
        <5> QED BY <5>1, <5>2
      <4>5. StartSomewhere(g, P \cup {n})
        BY <4>4 DEF StartSomewhere
      <4> QED BY <2>10, <3>2, <4>1, <4>2, <4>5 DEF HasFound
    <3> QED BY <3>1, <3>2
  <2> QED BY <1>3, <2>1, <2>9, <2>10, <2>11 DEF GoesOn
<1> QED BY <1>1, <1>2, <1>3

LEMMA VisitFinds ==
  ASSUME NEW g \in Graphs
  PROVE  Visit(g) \in VisitCalls /\ FindWithin(g, Visit(g), MaxNodes + 1)
<1>1. PICK visit \in [0..MaxNodes + 1 -> VisitCalls] :
        /\ \A k \in 1..MaxNodes + 1 : \A n \in Ranks : \A T \in SUBSET Ranks : \A s \in Searches :
             visit[k][n][T][s] = VisitOnce(g, n, T, s, visit[k - 1])
        /\ Visit(g) = visit[MaxNodes + 1]
  BY VisitTurns
<1>2. MaxNodes \in Nat /\ MaxNodes + 1 \in Nat /\ MaxNodes + 1 \in 0..MaxNodes + 1
  BY MaxNodesAssumption
<1> DEFINE good == {k \in Nat : k <= MaxNodes + 1 => FindWithin(g, visit[k], k)}
<1>3. 0 \in good
  <2>1. \A T \in SUBSET Ranks : ~(Cardinality(Ranks \ T) < 0)
    <3> SUFFICES ASSUME NEW T \in SUBSET Ranks PROVE ~(Cardinality(Ranks \ T) < 0)
      OBVIOUS
    <3>1. IsFiniteSet(Ranks \ T)
      BY RanksAreFinite, FS_Subset
    <3>2. Cardinality(Ranks \ T) \in Nat
      BY <3>1, FS_CardinalityType
    <3> QED BY <3>2
  <2> QED BY <2>1 DEF FindWithin
<1>4. ASSUME NEW i \in Nat, i \in good PROVE i + 1 \in good
  <2> SUFFICES ASSUME i + 1 <= MaxNodes + 1 PROVE FindWithin(g, visit[i + 1], i + 1)
    OBVIOUS
  <2>1. PICK k : k = i + 1
    OBVIOUS
  <2>2. k \in 1..MaxNodes + 1 /\ k - 1 = i /\ i \in 0..MaxNodes + 1 /\ i <= MaxNodes + 1
    BY <1>2, <2>1
  <2>3. PICK Below \in VisitCalls : Below = visit[i]
    BY <2>2
  <2>4. FindWithin(g, Below, i)
    BY <1>4, <2>2, <2>3
  <2>5. ASSUME NEW n \in Ranks, NEW T \in SUBSET Ranks, NEW s \in Searches,
               Cardinality(Ranks \ T) < k, LeadsTo(g, T, n), HasFound(g, s), s.permanent \cap T = {}
        PROVE  /\ GoesOn(g, s, visit[k][n][T][s], T)
               /\ ~visit[k][n][T][s].cycle => n \in visit[k][n][T][s].permanent
    <3>1. PICK r : r = visit[k][n][T][s]
      OBVIOUS
    <3>2. r = VisitOnce(g, n, T, s, Below)
      BY <1>1, <2>2, <2>3, <3>1
    <3>3. GoesOn(g, s, r, T) /\ (~r.cycle => n \in r.permanent)
      BY <2>1, <2>4, <2>5, <3>2, OnceIsFound
    <3> QED BY <3>1, <3>3
  <2> QED BY <2>1, <2>5 DEF FindWithin
<1>5. MaxNodes + 1 \in good
  <2> HIDE DEF good
  <2> QED BY <1>2, <1>3, <1>4, EveryCount
<1> QED BY <1>1, <1>2, <1>5

\* The search reports a cycle when there is a circle, and none when any nodes have one
\* that the others do not feed.
LEMMA CyclesAreFound ==
  ASSUME NEW g \in Graphs
  PROVE  IF HasCycle(g) THEN \E S \in SUBSET Ranks : Circular(g, S)
         ELSE StartSomewhere(g, Ranks)
<1>1. PICK searched \in [0..MaxNodes -> Searches] :
        /\ searched[0] = NoSearch
        /\ \A n \in Ranks : searched[n] = Visit(g)[n][{}][searched[n - 1]]
        /\ HasCycle(g) = searched[MaxNodes].cycle
  BY SearchTurns
<1>2. MaxNodes \in Nat /\ MaxNodes \in 0..MaxNodes /\ 0 \in 0..MaxNodes
  BY MaxNodesAssumption
<1>3. PICK visit : visit = Visit(g)
  OBVIOUS
<1>4. FindWithin(g, visit, MaxNodes + 1)
  BY <1>3, VisitFinds
<1>5. \A n \in Ranks : searched[n] = visit[n][{}][searched[n - 1]]
  BY <1>1, <1>3
<1> DEFINE AllUpTo(n, P) == \A m \in Ranks : m <= n => m \in P
           good == {n \in Nat : n <= MaxNodes => /\ HasFound(g, searched[n])
                                                 /\ ~searched[n].cycle => AllUpTo(n, searched[n].permanent)}
<1>6. 0 \in good
  <2>1. \A m \in Ranks : ~(m <= 0)
    BY <1>2 DEF Ranks
  <2>2. HasFound(g, NoSearch)
    BY DEF HasFound, NoSearch, StartSomewhere
  <2> QED BY <1>1, <2>1, <2>2
<1>7. ASSUME NEW i \in Nat, i \in good PROVE i + 1 \in good
  <2> SUFFICES ASSUME i + 1 <= MaxNodes
               PROVE  HasFound(g, searched[i + 1])
                      /\ (~searched[i + 1].cycle => AllUpTo(i + 1, searched[i + 1].permanent))
    OBVIOUS
  <2>1. PICK n : n = i + 1
    OBVIOUS
  <2>2. n \in Ranks /\ n - 1 = i /\ i <= MaxNodes /\ i \in 0..MaxNodes
    BY <1>2, <2>1 DEF Ranks
  <2>3. PICK s \in Searches : s = searched[i]
    BY <2>2
  <2>4. HasFound(g, s) /\ (~s.cycle => AllUpTo(i, s.permanent))
    BY <1>7, <2>2, <2>3
  <2>5. PICK r : r = visit[n][{}][s]
    OBVIOUS
  <2>6. searched[n] = r
    BY <1>5, <2>2, <2>3, <2>5
  <2>7. GoesOn(g, s, r, {}) /\ (~r.cycle => n \in r.permanent)
    <3>1. Cardinality(Ranks \ {}) < MaxNodes + 1
      BY <1>2, RanksAreFinite
    <3>2. LeadsTo(g, {}, n) /\ s.permanent \cap {} = {} /\ {} \in SUBSET Ranks
      BY DEF LeadsTo
    <3> QED BY <1>4, <2>2, <2>4, <2>5, <3>1, <3>2 DEF FindWithin
  <2>8. \A m \in Ranks : m <= n => m <= i \/ m = n
    BY <2>1 DEF Ranks
  <2>9. ASSUME ~r.cycle, NEW m \in Ranks, m <= n PROVE m \in r.permanent
    <3>1. ~s.cycle /\ s.permanent \subseteq r.permanent
      BY <2>7, <2>9 DEF GoesOn
    <3> QED BY <2>4, <2>7, <2>8, <2>9, <3>1
  <2> QED BY <2>1, <2>6, <2>7, <2>9 DEF GoesOn
<1>8. MaxNodes \in good
  <2> HIDE DEF good
  <2> QED BY <1>2, <1>6, <1>7, EveryCount
<1>9. PICK s \in Searches : s = searched[MaxNodes]
  BY <1>2
<1>10. HasFound(g, s) /\ (~s.cycle => AllUpTo(MaxNodes, s.permanent)) /\ HasCycle(g) = s.cycle
  BY <1>1, <1>2, <1>8, <1>9
<1>11. CASE s.cycle
  BY <1>10, <1>11 DEF HasFound
<1>12. CASE ~s.cycle
  <2>1. \A m \in Ranks : m <= MaxNodes
    BY <1>2 DEF Ranks
  <2>2. s.permanent = Ranks
    BY <1>10, <1>12, <2>1 DEF Searches
  <2> QED BY <1>10, <1>12, <2>2 DEF HasFound
<1> QED BY <1>11, <1>12

(* A run stops short exactly when the simulation stops short, with the     *)
(* same nodes left over, and exactly when the compiler would have rejected *)
(* the graph: of nodes that are left over each has an input from another,  *)
(* and nodes that all lead to one of them are never all done.              *)
THEOREM OnlyCyclesStall == ScheduleSpec => []StallsOnlyOnCycles
<1>1. ScheduleInv => StallsOnlyOnCycles
  <2> SUFFICES ASSUME ScheduleInv PROVE StallsOnlyOnCycles
    OBVIOUS
  <2>1. up \in Graphs /\ pos \in 0..MaxNodes /\ trace \in Seq(Ranks) /\ Done \subseteq Ranks
    <3>1. up \in Graphs /\ pos \in 0..MaxNodes /\ trace \in Seq(Ranks)
      BY DEF ScheduleInv, ScheduleTypeOK, Graphs
    <3>2. 1 \in Ranks
      BY MaxNodesAssumption DEF Ranks
    <3> QED BY <3>1, <3>2, AppendedIsDone DEF Done
  <2>2. PICK k \in 0..MaxNodes - 1 : IsInPass(k)
    BY DEF ScheduleInv
  <2>3. loop \in {"completed", "stalled"} => Ready(Ranks, up, Done) = {}
    BY DEF ScheduleInv, EndsWhenNothingIsReady, Ready
  <2>4. loop \in {"completed", "stalled"} => trace = Simulate(up)
    BY <2>1, <2>2, <2>3, SimulationEnds DEF IsInPass, Done
  <2>5. ASSUME loop = "stalled" PROVE HasCycle(up)
    <3>1. Ranks \ Done # {} /\ \A n \in Ranks \ Done : ~(up[n] \subseteq Done)
      BY <2>1, <2>5 DEF ScheduleInv, EndsWhenNothingIsReady, Ready
    <3>2. \A n \in Ranks \ Done : up[n] \cap (Ranks \ Done) # {}
      BY <2>1, <3>1 DEF Graphs
    <3>3. ~StartSomewhere(up, Ranks)
      BY <3>1, <3>2 DEF StartSomewhere
    <3> QED BY <2>1, <3>3, CyclesAreFound
  <2>6. ASSUME loop = "completed" PROVE ~HasCycle(up)
    <3>1. Done = Ranks
      BY <2>6 DEF ScheduleInv, EndsWhenNothingIsReady
    <3>2. \A S \in SUBSET Ranks : ~Circular(up, S)
      BY <3>1 DEF ScheduleInv, NoCircleIsDone
    <3> QED BY <2>1, <3>2, CyclesAreFound
  <2> QED BY <2>4, <2>5, <2>6 DEF StallsOnlyOnCycles
<1> QED BY <1>1, ScheduleInvHolds, PTL
=============================================================================
