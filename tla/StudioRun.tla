----------------------------- MODULE StudioRun -----------------------------
(***************************************************************************)
(* POST /api/runs of the Studio server and the local-process run it        *)
(* launches.  Everything shares one Node process: a handler or a run is    *)
(* a coroutine that others may interleave with at each await, and a crash  *)
(* loses all of them at once while the files stay.                         *)
(*                                                                         *)
(* Every progress event of a run is persisted by JsonlStudioRunStore       *)
(* .append: a line of the shared history file, then the run's own          *)
(* run.json.  The history is kept here as one sequence of lines per run;   *)
(* no property relates lines of different runs.                            *)
(*                                                                         *)
(* A run's events are abstracted to the ones that tell what happened to a  *)
(* node or to the run, the manifest to a number of steps.                  *)
(***************************************************************************)
EXTENDS Naturals, FiniteSets, SequencesExt

CONSTANTS
  Runs,          \* POST /api/runs requests, and the runs they launch
  LauncherRuns,  \* those of a workflow whose launcher input is prepared from files
  StepCount,     \* steps of the manifest
  NoRecord,      \* no run.json
  MaxFaults,     \* bound: file writes that fail
  MaxCrashes     \* bound: crashes of the server process

ASSUME StudioAssumption ==
  LauncherRuns \subseteq Runs /\ StepCount \in Nat /\ MaxFaults \in Nat /\ MaxCrashes \in Nat

VARIABLES
  up,            \* the server process runs
  request,       \* how the handler of each POST stands, or what it answered
  activeRunIds,  \* the set in createStudioServer
  run,           \* the coroutine of executeStudioProcessRun, its records in the making
  lines,         \* the history file: the run's lines, oldest first
  runJson,       \* the run's run.json
  faults, crashes

disk == <<lines, runJson>>
vars == <<up, request, activeRunIds, run, disk, faults, crashes>>

Steps == 1..StepCount
NodeStatus == {"waiting", "running", "completed", "failed"}
Ended == {"returned", "rejected", "gone"}
Answers == {"accepted", "created", "failed", "refused"}  \* 202, 201, 400, 409

Event(type, step) == [type |-> type, step |-> step]
EventTypes == {"RunCreated", "NodeStarted", "NodeCompleted", "NodeFailed",
               "RunCompleted", "RunFailed"}
RunEvents == Seq([type : EventTypes, step : 0..StepCount])

Record == [status : {"running", "completed", "failed"},
           nodes : [Steps -> NodeStatus], events : RunEvents]

ASSUME NoRecordAssumption == NoRecord \notin Record

\* What persistRunning and the two final records snapshot.
Snapshot(status, nodes, events) == [status |-> status, nodes |-> nodes, events |-> events]

Unlaunched ==
  [pc |-> "none", step |-> 0, nodes |-> [s \in Steps |-> "waiting"],
   events |-> <<Event("RunCreated", 0)>>, pending |-> NoRecord, then |-> "none"]

Init ==
  /\ up = TRUE
  /\ request = [r \in Runs |-> "unsent"]
  /\ activeRunIds = {}
  /\ run = [r \in Runs |-> Unlaunched]
  /\ lines = [r \in Runs |-> <<>>]
  /\ runJson = [r \in Runs |-> NoRecord]
  /\ faults = 0 /\ crashes = 0

-----------------------------------------------------------------------------
(***************************************************************************)
(* The steps of a coroutine up to its next await.  Each returns the new    *)
(* run[r]: store.append awaits with the record it is given and goes on at  *)
(* `then' once both files are written.                                     *)
(***************************************************************************)
Persist(c, status, then) ==
  [c EXCEPT !.pc = "line", !.then = then,
            !.pending = Snapshot(status, c.nodes, c.events)]

LeaveActiveNode(c) == c  \* variant: the record is written with the node running

\* catch (error): the node still running failed, then the run did.
FailActiveNode(c) ==
  IF \E s \in Steps : c.nodes[s] = "running"
    THEN LET s == CHOOSE s \in Steps : c.nodes[s] = "running"
         IN [c EXCEPT !.nodes[s] = "failed", !.events = Append(@, Event("NodeFailed", s))]
    ELSE c

FailRun(c) == [c EXCEPT !.events = Append(@, Event("RunFailed", 0))]

Catch(c) == Persist(FailRun(FailActiveNode(c)), "failed", "return")

\* Promise.race([started, completion]): the first to settle is the answer.
Settle(r, answer) ==
  request' = [request EXCEPT ![r] = IF @ = "launched" THEN answer ELSE @]

Fault == faults < MaxFaults /\ faults' = faults + 1

-----------------------------------------------------------------------------
(***************************************************************************)
(* The request handler                                                     *)
(***************************************************************************)

\* Variant: the client is told before the running record is persisted.
LaunchAnswering(r) ==
  /\ activeRunIds' = activeRunIds \cup {r}
  /\ request' = [request EXCEPT ![r] = "accepted"]
  /\ run' = [run EXCEPT ![r] = Persist(@, "running", "started")]

\* From activeRunIds.add to the first await of the run, in one go.  The inputs
\* may fail their validation, which the run records as its failure.
Launch(r) ==
  /\ activeRunIds' = activeRunIds \cup {r}
  /\ request' = [request EXCEPT ![r] = "launched"]
  /\ \/ run' = [run EXCEPT ![r] = Persist(@, "running", "started")]
     \/ run' = [run EXCEPT ![r] = Catch(@)]

\* The check for an active run; raw inputs are taken from the body and the run is
\* launched at once, a launcher's inputs are first read from files.
Post(r) ==
  /\ up /\ request[r] = "unsent"
  /\ \/ /\ activeRunIds # {}
        /\ request' = [request EXCEPT ![r] = "refused"]
        /\ UNCHANGED <<activeRunIds, run>>
     \/ /\ activeRunIds = {} /\ r \in LauncherRuns
        /\ request' = [request EXCEPT ![r] = "preparing"]
        /\ UNCHANGED <<activeRunIds, run>>
     \/ /\ activeRunIds = {} /\ r \notin LauncherRuns
        /\ Launch(r)
  /\ UNCHANGED <<up, disk, faults, crashes>>

Prepared(r) ==
  /\ request[r] = "preparing"
  /\ Launch(r)
  /\ UNCHANGED <<up, disk, faults, crashes>>

PrepareFails(r) ==
  /\ request[r] = "preparing"
  /\ request' = [request EXCEPT ![r] = "failed"]
  /\ UNCHANGED <<up, activeRunIds, run, disk, faults, crashes>>

-----------------------------------------------------------------------------
(***************************************************************************)
(* JsonlStudioRunStore.append                                              *)
(***************************************************************************)
KeepServer == UNCHANGED <<up, crashes>>

AppendLine(r) ==
  /\ run[r].pc = "line"
  /\ lines' = [lines EXCEPT ![r] = Append(@, run[r].pending)]
  /\ run' = [run EXCEPT ![r].pc = "runJson"]
  /\ UNCHANGED <<request, activeRunIds, runJson, faults>> /\ KeepServer

LineIsWritten(c) == c.pc = "runJson"

\* A temporary file renamed over run.json; the append is complete.
WriteRunJson(r) ==
  /\ LineIsWritten(run[r])
  /\ runJson' = [runJson EXCEPT ![r] = run[r].pending]
  /\ run' = [run EXCEPT ![r].pc = run[r].then, ![r].pending = NoRecord, ![r].then = "none"]
  /\ UNCHANGED <<request, activeRunIds, lines, faults>> /\ KeepServer

\* completion.then(delete, delete): both outcomes leave the set.
Return(r) ==
  /\ run[r].pc = "return"
  /\ run' = [run EXCEPT ![r].pc = "returned"]
  /\ activeRunIds' = activeRunIds \ {r}
  /\ Settle(r, IF Last(run[r].events).type = "RunCompleted" THEN "created" ELSE "failed")
  /\ UNCHANGED <<disk, faults>> /\ KeepServer

\* Variant: the set is only left by a run that resolves.
RejectKeepingActive(r) ==
  /\ run' = [run EXCEPT ![r].pc = "rejected", ![r].pending = NoRecord, ![r].then = "none"]
  /\ Settle(r, "failed") /\ UNCHANGED activeRunIds

Reject(r) ==
  /\ run' = [run EXCEPT ![r].pc = "rejected", ![r].pending = NoRecord, ![r].then = "none"]
  /\ activeRunIds' = activeRunIds \ {r}
  /\ Settle(r, "failed")

\* A write fails and append throws: inside the try the run is failed, inside the
\* catch the run is rejected.
FailWrite(r) ==
  /\ run[r].pc \in {"line", "runJson"}
  /\ Fault
  /\ \/ /\ run[r].pending.status # "failed"
        /\ run' = [run EXCEPT ![r] = Catch(@)]
        /\ UNCHANGED <<request, activeRunIds>>
     \/ run[r].pending.status = "failed" /\ Reject(r)
  /\ UNCHANGED disk /\ KeepServer

-----------------------------------------------------------------------------
(***************************************************************************)
(* LocalProcessStudioExecutor.execute under executeStudioProcessRun        *)
(***************************************************************************)
Progress(r) ==
  UNCHANGED <<request, activeRunIds, disk, faults>> /\ KeepServer

\* onStarted resolves the race; then the execution directory is prepared, which is
\* persisted as "executionPrepared", or cannot be.
Started(r) ==
  /\ run[r].pc = "started"
  /\ Settle(r, "accepted")
  /\ \/ run' = [run EXCEPT ![r] = Persist(@, "running", "step")] /\ UNCHANGED faults
     \/ run' = [run EXCEPT ![r] = Catch(@)] /\ Fault
  /\ UNCHANGED <<activeRunIds, disk>> /\ KeepServer

MoreSteps(c) == c.step < StepCount

Starting(c) ==
  LET s == c.step + 1
  IN [c EXCEPT !.step = s, !.nodes[s] = "running", !.events = Append(@, Event("NodeStarted", s))]

\* "stepStarted" is persisted before the command is spawned.
StartStep(r) ==
  /\ run[r].pc = "step" /\ MoreSteps(run[r])
  /\ run' = [run EXCEPT ![r] = Persist(Starting(@), "running", "spawned")]
  /\ Progress(r)

\* Exit code 0, usage as required and every output hashed.
StepCompletes(r) ==
  /\ run[r].pc = "spawned"
  /\ LET s == run[r].step
         done == [run[r] EXCEPT !.nodes[s] = "completed",
                                !.events = Append(@, Event("NodeCompleted", s))]
     IN run' = [run EXCEPT ![r] = Persist(done, "running", "step")]
  /\ Progress(r)

\* Timed out, exit code # 0 or no usage: "stepFailed" is persisted, then thrown.
StepFails(r) ==
  /\ run[r].pc = "spawned"
  /\ LET s == run[r].step
         failed == [run[r] EXCEPT !.nodes[s] = "failed",
                                  !.events = Append(@, Event("NodeFailed", s))]
     IN run' = [run EXCEPT ![r] = Persist(failed, "running", "throw")]
  /\ Progress(r)

\* No such command, too much output, a log that cannot be written or an output that
\* is missing: execute throws without a progress event.
StepThrows(r) ==
  /\ run[r].pc \in {"spawned", "throw"}
  /\ run' = [run EXCEPT ![r] = Catch(@)]
  /\ Progress(r)

\* After the last step: the demo snapshot, RunCompleted and the completed record.
Complete(r) ==
  /\ run[r].pc = "step" /\ ~MoreSteps(run[r])
  /\ LET done == [run[r] EXCEPT !.events = Append(@, Event("RunCompleted", 0))]
     IN run' = [run EXCEPT ![r] = Persist(done, "completed", "return")]
  /\ Progress(r)

DemoSnapshotFails(r) ==
  /\ run[r].pc = "step" /\ ~MoreSteps(run[r])
  /\ run' = [run EXCEPT ![r] = Catch(@)]
  /\ Progress(r)

-----------------------------------------------------------------------------
\* The process dies with its handlers, its runs and activeRunIds; children go on,
\* unattended.
Crash ==
  /\ up /\ crashes < MaxCrashes
  /\ up' = FALSE /\ crashes' = crashes + 1
  /\ activeRunIds' = {}
  /\ run' = [r \in Runs |->
       IF run[r].pc \in Ended \cup {"none"} THEN run[r]
       ELSE [run[r] EXCEPT !.pc = "gone", !.pending = NoRecord, !.then = "none"]]
  /\ request' = [r \in Runs |->
       IF request[r] \in {"preparing", "launched"} THEN "lost" ELSE request[r]]
  /\ UNCHANGED <<disk, faults>>

\* Nothing is resumed: the runs of the previous process keep their last record.
Restart == ~up /\ up' = TRUE /\ UNCHANGED <<request, activeRunIds, run, disk, faults, crashes>>

RunStep(r) ==
  \/ AppendLine(r) \/ WriteRunJson(r) \/ Return(r) \/ FailWrite(r) \/ Started(r)
  \/ StartStep(r) \/ StepCompletes(r) \/ StepFails(r) \/ StepThrows(r)
  \/ Complete(r) \/ DemoSnapshotFails(r)

Next ==
  \/ \E r \in Runs : Post(r) \/ Prepared(r) \/ PrepareFails(r) \/ RunStep(r)
  \/ Crash \/ Restart

\* A coroutine that can go on does: a file operation ends, a command exits or is
\* ended by its timeout.  Nothing makes a client post or the process restart.
Fairness == \A r \in Runs : WF_vars(RunStep(r))

Spec == Init /\ [][Next]_vars /\ Fairness

-----------------------------------------------------------------------------
TypeOK ==
  /\ up \in BOOLEAN
  /\ request \in [Runs -> {"unsent", "preparing", "launched", "lost"} \cup Answers]
  /\ activeRunIds \subseteq Runs
  /\ \A r \in Runs :
       /\ run[r].pc \in {"none", "line", "runJson", "started", "step", "spawned", "throw",
                         "return"} \cup Ended
       /\ run[r].step \in 0..StepCount
       /\ run[r].pending \in Record \cup {NoRecord}
       /\ lines[r] \in Seq(Record)
       /\ runJson[r] \in Record \cup {NoRecord}
  /\ faults \in 0..MaxFaults /\ crashes \in 0..MaxCrashes

EventIn(record, type, step) == Event(type, step) \in ToSet(record.events)

\* A terminal record tells one story: completed means every node completed and
\* nothing failed; failed means no node is left running, each node that started
\* is on record as completed or failed, and the failure is the last event.
TerminalRecordsAreSettled ==
  \A r \in Runs : \A record \in ToSet(lines[r]) :
    /\ record.status = "completed" =>
         /\ \A s \in Steps : record.nodes[s] = "completed" /\ ~EventIn(record, "NodeFailed", s)
         /\ Last(record.events).type = "RunCompleted"
    /\ record.status = "failed" =>
         /\ \A s \in Steps :
              /\ record.nodes[s] # "running"
              /\ EventIn(record, "NodeStarted", s) <=>
                   EventIn(record, "NodeCompleted", s) \/ EventIn(record, "NodeFailed", s)
         /\ Last(record.events).type = "RunFailed"

\* The timeline of a run only grows: each of its lines extends the events of the
\* line before, whichever write failed in between.
EventsAppendOnly ==
  \A r \in Runs : \A i \in 2..Len(lines[r]) :
    IsPrefix(lines[r][i - 1].events, lines[r][i].events)

\* While the command of a step runs, the run's last line says that this step runs.
StartedStepsAreOnRecord ==
  \A r \in Runs : run[r].pc = "spawned" =>
    lines[r] # <<>> /\ Last(lines[r]).nodes[run[r].step] = "running"

\* A client told of a run (202 or 201) finds it in the history and in its run.json.
AnsweredRunsAreOnRecord ==
  \A r \in Runs : request[r] \in {"accepted", "created"} =>
    lines[r] # <<>> /\ runJson[r] # NoRecord

\* run.json never tells more than the history: it is one of the run's lines.
RunJsonTrailsHistory ==
  \A r \in Runs : runJson[r] = NoRecord \/ runJson[r] \in ToSet(lines[r])

\* Whatever is done or shown of a run is in its history first: the command that
\* runs, the answer to its client and the summary in run.json.
HistoryComesFirst == StartedStepsAreOnRecord /\ AnsweredRunsAreOnRecord /\ RunJsonTrailsHistory

\* A run that resolves has ended on record, whichever writes failed on the way: its
\* last line is a terminal one and its run.json repeats it.
EndedRunsAreOnRecord ==
  \A r \in Runs : run[r].pc = "returned" =>
    /\ lines[r] # <<>> /\ Last(lines[r]).status # "running"
    /\ runJson[r] = Last(lines[r])

\* However a run ends, its records tell one story that only grew, and it has not
\* ended before they say so.
RunsEndOnRecord == TerminalRecordsAreSettled /\ EventsAppendOnly /\ EndedRunsAreOnRecord

\* Every run leaves activeRunIds, so that the server takes the next one: it
\* returns, is rejected, or goes with the process.
EveryRunLeavesActive == \A r \in Runs : r \in activeRunIds ~> r \notin activeRunIds

\* docs/operations/studio.md: while a workflow runs, POST answers 409.
SingleActiveRun == Cardinality(activeRunIds) <= 1

\* ADR-021: the failed or completed status of a run is immutable history.
TerminalStatusIsFinal ==
  \A r \in Runs : \A i \in 2..Len(lines[r]) : lines[r][i - 1].status = "running"

=============================================================================
