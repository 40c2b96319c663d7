----------------------------- MODULE DemoStore -----------------------------
(***************************************************************************)
(* LocalStudioDemoStore: the demo snapshot of each run, and which of them  *)
(* is onboarded, kept as files.  A snapshot is the directory <run>/demo    *)
(* with its index.html; it is onboarded when it holds a marker file.       *)
(*                                                                         *)
(* Calls interleave at their awaits.  Only the body of onboard is          *)
(* serialised, by the promise chain onboardingTail, whose calls are the    *)
(* queue here; offboard and delete go on beside it.                        *)
(***************************************************************************)
EXTENDS Naturals, Sequences

CONSTANTS
  Runs,
  Calls,      \* bound: calls to onboard, offboard and delete
  NoRun,      \* the run of a call not made yet
  MaxFaults,  \* bound: file operations of onboard that fail
  MaxCrashes  \* bound: crashes of the process

ASSUME BoundsAssumption == MaxFaults \in Nat /\ MaxCrashes \in Nat
ASSUME NoRunAssumption == NoRun \notin Runs

VARIABLES
  directory,  \* runs whose demo directory exists
  files,      \* the files in it, index.html standing for all but the marker
  made,       \* runs whose snapshot has been created
  operation, run,  \* what each call asks, and of which demo
  at,         \* where each call is
  todo,       \* the other runs an onboarding has still to sweep
  queue,      \* onboardings chained on onboardingTail, oldest first
  faults, crashes

disk == <<directory, files, made>>
asked == <<operation, run>>
vars == <<disk, asked, at, todo, queue, faults, crashes>>

Files == {"index", "marker"}
Methods == {"onboard", "offboard", "delete"}
Over == {"returned", "threw", "lost"}

Init ==
  /\ directory = {} /\ files = [r \in Runs |-> {}] /\ made = {}
  /\ operation = [c \in Calls |-> "none"] /\ run = [c \in Calls |-> NoRun]
  /\ at = [c \in Calls |-> "none"] /\ todo = [c \in Calls |-> {}]
  /\ queue = <<>>
  /\ faults = 0 /\ crashes = 0

Goto(c, location) == at' = [at EXCEPT ![c] = location]
Budget == UNCHANGED <<faults, crashes>>

-----------------------------------------------------------------------------
\* createSnapshot: copied beside, then renamed to its place.
CreateSnapshot(r) ==
  /\ r \notin made
  /\ made' = made \cup {r}
  /\ directory' = directory \cup {r}
  /\ files' = [files EXCEPT ![r] = {"index"}]
  /\ UNCHANGED <<asked, at, todo, queue>> /\ Budget

Invoke(c, method, r) ==
  /\ at[c] = "none" /\ r \in made
  /\ operation' = [operation EXCEPT ![c] = method]
  /\ run' = [run EXCEPT ![c] = r]
  /\ Goto(c, method)
  /\ UNCHANGED <<disk, todo, queue>> /\ Budget

-----------------------------------------------------------------------------
(***************************************************************************)
(* onboard                                                                 *)
(***************************************************************************)

\* No snapshot, nothing to do.
Exists(c) ==
  /\ at[c] = "onboard"
  /\ Goto(c, IF "index" \in files[run[c]] THEN "chain" ELSE "returned")
  /\ UNCHANGED <<disk, asked, todo, queue>> /\ Budget

Chain(c) ==
  /\ at[c] = "chain"
  /\ queue' = Append(queue, c)
  /\ Goto(c, "waiting")
  /\ UNCHANGED <<disk, asked, todo>> /\ Budget

AnyTurn(c) == TRUE  \* variant: the previous onboarding is not awaited

ItsTurn(c) == queue # <<>> /\ Head(queue) = c

\* readdir of the root: the other runs, to be swept one by one.
Enter(c) ==
  /\ at[c] = "waiting" /\ ItsTurn(c)
  /\ todo' = [todo EXCEPT ![c] = Runs \ {run[c]}]
  /\ Goto(c, "sweep")
  /\ UNCHANGED <<disk, asked, queue>> /\ Budget

Sweep(c) ==
  /\ at[c] = "sweep"
  /\ \E other \in todo[c] :
       /\ files' = [files EXCEPT ![other] = @ \ {"marker"}]
       /\ todo' = [todo EXCEPT ![c] = @ \ {other}]
  /\ UNCHANGED <<directory, made, asked, at, queue>> /\ Budget

\* release() in the finally block: whether the onboarding returned or threw.
Release == queue' = Tail(queue)

\* Variant: an onboarding that throws does not release its successor.
LeaveOnSuccess(c, outcome) ==
  /\ Goto(c, outcome) /\ todo' = [todo EXCEPT ![c] = {}]
  /\ IF outcome = "threw" THEN UNCHANGED queue ELSE Release

Leave(c, outcome) ==
  /\ Goto(c, outcome) /\ todo' = [todo EXCEPT ![c] = {}]
  /\ Release

\* Variant: the directory is made again if it has gone.
MarkAnew(c) ==
  LET r == run[c]
  IN /\ at[c] = "sweep" /\ todo[c] = {}
     /\ directory' = directory \cup {r}
     /\ files' = [files EXCEPT ![r] = @ \cup {"marker"}]
     /\ Leave(c, "returned")
     /\ UNCHANGED <<made, asked>> /\ Budget

\* writeFile of the marker, unless it is there; it throws if the directory has gone
\* since the snapshot was looked for.
Mark(c) ==
  LET r == run[c]
  IN /\ at[c] = "sweep" /\ todo[c] = {}
     /\ \/ /\ r \in directory
           /\ files' = [files EXCEPT ![r] = @ \cup {"marker"}]
           /\ Leave(c, "returned")
        \/ /\ r \notin directory
           /\ Leave(c, "threw")
           /\ UNCHANGED files
     /\ UNCHANGED <<directory, made, asked>> /\ Budget

\* Any file operation of the body can fail.
OnboardFails(c) ==
  /\ (at[c] = "waiting" /\ ItsTurn(c)) \/ at[c] = "sweep"
  /\ faults < MaxFaults /\ faults' = faults + 1
  /\ Leave(c, "threw")
  /\ UNCHANGED <<disk, asked, crashes>>

-----------------------------------------------------------------------------
Offboard(c) ==
  /\ at[c] = "offboard"
  /\ files' = [files EXCEPT ![run[c]] = @ \ {"marker"}]
  /\ Goto(c, "returned")
  /\ UNCHANGED <<directory, made, asked, todo, queue>> /\ Budget

\* delete: rm with recursive removes the files one after the other, then their
\* directory; what is written into it meanwhile is removed as well or makes rm throw.
RemoveFile(c) ==
  LET r == run[c]
  IN /\ at[c] = "delete"
     /\ \E file \in files[r] : files' = [files EXCEPT ![r] = @ \ {file}]
     /\ UNCHANGED <<directory, made, asked, at, todo, queue>> /\ Budget

RemoveDirectory(c) ==
  LET r == run[c]
  IN /\ at[c] = "delete"
     /\ \/ /\ files[r] = {}
           /\ directory' = directory \ {r}
           /\ Goto(c, "returned")
        \/ /\ "index" \notin files[r] /\ "marker" \in files[r]
           /\ Goto(c, "threw") /\ UNCHANGED directory
     /\ UNCHANGED <<files, made, asked, todo, queue>> /\ Budget

\* Calls die with the process, onboardingTail too; files stay.
Crash ==
  /\ crashes < MaxCrashes /\ crashes' = crashes + 1
  /\ at' = [c \in Calls |-> IF at[c] \in Over \cup {"none"} THEN at[c] ELSE "lost"]
  /\ todo' = [c \in Calls |-> {}]
  /\ queue' = <<>>
  /\ UNCHANGED <<disk, asked, faults>>

CallStep(c) ==
  \/ Exists(c) \/ Chain(c) \/ Enter(c) \/ Sweep(c) \/ Mark(c) \/ OnboardFails(c)
  \/ Offboard(c) \/ RemoveFile(c) \/ RemoveDirectory(c)

Next ==
  \/ \E r \in Runs : CreateSnapshot(r)
  \/ \E c \in Calls, r \in Runs, method \in Methods : Invoke(c, method, r)
  \/ \E c \in Calls : CallStep(c)
  \/ Crash

\* File operations end; nothing makes a client call.
Fairness == \A c \in Calls : WF_vars(CallStep(c))

Spec == Init /\ [][Next]_vars /\ Fairness

-----------------------------------------------------------------------------
Location == Methods \cup Over \cup {"none", "chain", "waiting", "sweep"}
TypeOK ==
  /\ directory \subseteq Runs /\ made \subseteq Runs
  /\ files \in [Runs -> SUBSET Files]
  /\ \A r \in Runs \ directory : files[r] = {}
  /\ operation \in [Calls -> Methods \cup {"none"}] /\ run \in [Calls -> Runs \cup {NoRun}]
  /\ \A c \in Calls : at[c] = "none" \/ run[c] \in Runs
  /\ at \in [Calls -> Location] /\ todo \in [Calls -> SUBSET Runs]
  /\ queue \in Seq(Calls)
  /\ faults \in 0..MaxFaults /\ crashes \in 0..MaxCrashes

Onboarded == {r \in Runs : "marker" \in files[r]}

\* The active demo is unique (lessons-and-corrections.md), however onboardings,
\* offboardings, deletions and crashes interleave.
AtMostOneOnboarded == \A r, other \in Onboarded : r = other

\* A marker without the snapshot it activates is left only by a deletion: one that
\* is removing the snapshot, or one that was cut short.
OnboardedDemoIsWhole ==
  \A r \in Onboarded : "index" \in files[r] \/
    \E c \in Calls :
      operation[c] = "delete" /\ run[c] = r /\ at[c] # "returned"

\* An onboarding that waits its turn gets it, whatever became of those before it.
OnboardingsEnd == \A c \in Calls : at[c] = "waiting" ~> at[c] \in Over

=============================================================================
