----------------------------- MODULE RunControl -----------------------------
(***************************************************************************)
(* What an operator is shown of a run: projectRunControl over its events.  *)
(*                                                                         *)
(* The runtime and the people who steer the run append to one log, each    *)
(* without waiting for the others (a pause may land behind the end of the  *)
(* run, a decision before its request or twice), so every sequence of      *)
(* events is a log; the projection folds it in the order of its sequences. *)
(***************************************************************************)
EXTENDS Naturals, Sequences, SequencesExt

CONSTANTS
  Approvals,    \* approval ids
  CostLimit,    \* budget.maxCostUsd of RunCreated
  MaxLogLength  \* bound: events of the run

ASSUME MaxLogLengthAssumption == MaxLogLength \in Nat
ASSUME CostLimitAssumption == CostLimit \in Nat

VARIABLE log

\* One representative per way the projection treats an event type.
Preparing == {"RoutingDecided", "RunCreated"}
Resuming == {"NodeStarted"}
Terminal == {"RunCompleted", "RunFailed", "RunCancelled"}
Neutral == {"ArtifactPublished"}

Event ==
  [type : Preparing \cup Resuming \cup Terminal \cup Neutral \cup {"RunPaused"}]
  \cup [type : {"ApprovalRequested"}, approval : Approvals]
  \cup [type : {"ApprovalResolved"}, approval : Approvals, decision : {"approved", "rejected"}]

LogInit == log = << >>

AppendRunEvent(e) ==
  /\ Len(log) < MaxLogLength
  /\ log' = Append(log, e)

LogNext == \E e \in Event : AppendRunEvent(e)

LogSpec == LogInit /\ [][LogNext]_log

-----------------------------------------------------------------------------
\* A variant with a plausible mistake: whatever happens in a paused run resumes it.
NextStatusEager(status, type) ==
  IF type = "RunPaused" THEN "paused"
  ELSE IF type \in Terminal THEN type
  ELSE IF status \in {"created", "paused"} /\ type \notin Preparing THEN "running" ELSE status

NextStatus(status, type) ==
  IF type = "RunPaused" THEN "paused"
  ELSE IF type \in Terminal THEN type
  ELSE IF status = "created" /\ type \notin Preparing THEN "running"
  ELSE IF status = "paused" /\ type \in Resuming THEN "running"
  ELSE status

\* A request puts its approval back to pending; a decision without a request is dropped.
NextInbox(inbox, e) ==
  CASE e.type = "ApprovalRequested" -> [inbox EXCEPT ![e.approval] = "pending"]
    [] e.type = "ApprovalResolved" /\ inbox[e.approval] # "none" ->
         [inbox EXCEPT ![e.approval] = e.decision]
    [] OTHER -> inbox

ProjectRunControl(events) ==
  FoldLeft(LAMBDA acc, e :
             [status |-> NextStatus(acc.status, e.type),
              inbox |-> NextInbox(acc.inbox, e),
              maxCost |-> IF e.type = "RunCreated" THEN CostLimit ELSE acc.maxCost],
           [status |-> "created", inbox |-> [a \in Approvals |-> "none"], maxCost |-> 0], events)

\* availableCommands
Commands(view) ==
  IF view.status \in Terminal THEN {}
  ELSE {<<"cancel">>, IF view.status = "paused" THEN <<"resume">> ELSE <<"pause">>}
       \cup {<<"resolve_approval", a>> : a \in {b \in Approvals : view.inbox[b] = "pending"}}

LogTypeOK == log \in BoundedSeq(Event, MaxLogLength)

-----------------------------------------------------------------------------
\* The last of the events found, 0 when there is none.
Latest(found) == Max(found \cup {0})

LifeWord(events) == Latest({i \in DOMAIN events : events[i].type \in Terminal \cup {"RunPaused"}})
Requested(events, a) ==
  Latest({i \in DOMAIN events : events[i].type = "ApprovalRequested" /\ events[i].approval = a})
Resolved(events, a) ==
  Latest({i \in DOMAIN events : events[i].type = "ApprovalResolved" /\ events[i].approval = a})

(* Said without a fold, what the operator may do: nothing exactly when the *)
(* last word on the life of the run was its end; resume exactly when it    *)
(* was a pause no work has followed; decide exactly the approvals whose    *)
(* last word is a request.  Late, early and repeated events change nothing *)
(* else.                                                                   *)
CommandsMatchTheLog ==
  LET view == ProjectRunControl(log)
      word == LifeWord(log)
      over == word # 0 /\ log[word].type \in Terminal
      halted == /\ word # 0 /\ log[word].type = "RunPaused"
                /\ \A i \in DOMAIN log : i > word => log[i].type \notin Resuming
  IN  /\ (Commands(view) = {}) <=> over
      /\ (<<"resume">> \in Commands(view)) <=> halted
      /\ \A a \in Approvals :
           /\ (<<"resolve_approval", a>> \in Commands(view)) <=> ~over /\ Requested(log, a) > Resolved(log, a)
           /\ Requested(log, a) # 0 /\ Resolved(log, a) > Requested(log, a) =>
                view.inbox[a] = log[Resolved(log, a)].decision
      /\ (view.status = "created") <=> \A i \in DOMAIN log : log[i].type \in Preparing
=============================================================================
