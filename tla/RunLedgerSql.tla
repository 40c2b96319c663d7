---------------------------- MODULE RunLedgerSql ----------------------------
(***************************************************************************)
(* The same promises kept by PostgreSQL: awf_append_event,                 *)
(* awf_promote_branch and INSERT INTO run_branches of migration 0001,      *)
(* called by several sessions, each call a transaction of its own at the   *)
(* default isolation level (READ COMMITTED): every statement of a function *)
(* sees what is committed when the statement starts, and a row lock is     *)
(* kept until the transaction ends.  A session may lose its connection at  *)
(* any point before the commit.                                            *)
(***************************************************************************)
EXTENDS Naturals, FiniteSets, Sequences, SequencesExt

CONSTANTS Tenants, Runs, Keys, Branches, Sessions
CONSTANT RunTenant    \* runs.tenant_id
CONSTANT None         \* SQL NULL; a row lock held by nobody
CONSTANT Expectations \* values given as p_expected_next_sequence and p_expected_generation
CONSTANT MaxCalls     \* calls made by each session

ASSUME RunTenantAssumption == RunTenant \in [Runs -> Tenants]
ASSUME NoneAssumption == None \notin Nat \cup Sessions \cup Branches \cup Tenants
ASSUME ExpectationsAssumption == Expectations \subseteq Nat
ASSUME MaxCallsAssumption == MaxCalls \in Nat

VARIABLES
  rows,     \* committed rows of events, with the expectation they were written under
  branches, \* committed rows of run_branches, per run
  pointer,  \* committed active_branch_id and branch_generation of each row of runs
  rowLock,  \* rowLock[r]: the session whose transaction locked r's row of runs
  session,  \* what each session is doing, and how its last call ended
  made,     \* calls begun by each session
  swaps     \* history: the promotions committed for each run

vars == <<rows, branches, pointer, rowLock, session, made, swaps>>

AppendCall == [op : {"append"}, tenant : Tenants, run : Runs, key : Keys,
               expected : Expectations \cup {None}]
PromoteCall == [op : {"promote"}, tenant : Tenants, run : Runs, branch : Branches,
                expected : Expectations]
Call == AppendCall \cup PromoteCall

Errors == {"run_not_found", "sequence_conflict", "duplicate_key", "duplicate_sequence",
           "branch_conflict", "connection_lost"}
AtAppend == {"locking", "reading", "inserting", "inserted"}
AtPromote == {"scanning", "updating", "updated"}

Row == [run : Runs, sequence : Nat \ {0}, key : Keys, expected : Expectations \cup {None}]
Swap == [branch : Branches, expected : Expectations]

TypeOK ==
  /\ rows \subseteq Row
  /\ branches \in [Runs -> SUBSET Branches]
  /\ pointer \in [Runs -> [branch : Branches \cup {None}, generation : Nat]]
  /\ rowLock \in [Runs -> Sessions \cup {None}]
  /\ session \in [Sessions -> [pc : {"idle"} \cup AtAppend \cup AtPromote,
                               call : Call \cup {None}, next : Nat,
                               result : {"none", "ok"} \cup Errors]]
  /\ \A s \in Sessions :
       /\ session[s].pc \in AtAppend => session[s].call \in AppendCall
       /\ session[s].pc \in AtPromote => session[s].call \in PromoteCall
       /\ session[s].pc \in {"inserting", "inserted"} => session[s].next > 0
  /\ made \in [Sessions -> 0 .. MaxCalls]
  /\ swaps \in [Runs -> Seq(Swap)]

Init ==
  /\ rows = {}
  /\ branches = [r \in Runs |-> {}]
  /\ pointer = [r \in Runs |-> [branch |-> None, generation |-> 0]]
  /\ rowLock = [r \in Runs |-> None]
  /\ session = [s \in Sessions |-> [pc |-> "idle", call |-> None, next |-> 0, result |-> "none"]]
  /\ made = [s \in Sessions |-> 0]
  /\ swaps = [r \in Runs |-> << >>]

-----------------------------------------------------------------------------
RunOf(s) == session[s].call.run
RowsOf(r) == {e \in rows : e.run = r}
Goto(s, pc) == session' = [session EXCEPT ![s].pc = pc]

\* A variant with a plausible mistake: a failed call leaves its lock behind.
EndKeepingLock(s, result) ==
  /\ session' = [session EXCEPT ![s] = [pc |-> "idle", call |-> None, next |-> 0,
                                        result |-> result]]
  /\ rowLock' = IF result = "ok" THEN [rowLock EXCEPT ![RunOf(s)] = None] ELSE rowLock

\* The end of a transaction: its locks go with it.
End(s, result) ==
  /\ session' = [session EXCEPT ![s] = [pc |-> "idle", call |-> None, next |-> 0,
                                        result |-> result]]
  /\ rowLock' = [r \in Runs |-> IF rowLock[r] = s THEN None ELSE rowLock[r]]

\* RAISE EXCEPTION, or a violated constraint: the transaction rolls back.
Raise(s, error) == End(s, error) /\ UNCHANGED <<rows, branches, pointer, made, swaps>>

Begin(s, c) ==
  /\ session[s].pc = "idle" /\ made[s] < MaxCalls
  /\ made' = [made EXCEPT ![s] = @ + 1]
  /\ session' = [session EXCEPT ![s] = [pc |-> IF c.op = "append" THEN "locking" ELSE "scanning",
                                        call |-> c, next |-> 0, result |-> "none"]]
  /\ UNCHANGED <<rows, branches, pointer, rowLock, swaps>>

\* A variant with a plausible mistake: SELECT without FOR UPDATE.
SelectOnly(s) == UNCHANGED rowLock

TakeRowLock(s) ==
  /\ rowLock[RunOf(s)] = None
  /\ rowLock' = [rowLock EXCEPT ![RunOf(s)] = s]

-----------------------------------------------------------------------------
(* awf_append_event                                                        *)

\* PERFORM 1 FROM runs ... FOR UPDATE
LockRun(s) ==
  /\ session[s].pc = "locking"
  /\ IF RunTenant[RunOf(s)] # session[s].call.tenant
     THEN Raise(s, "run_not_found")
     ELSE /\ TakeRowLock(s)
          /\ Goto(s, "reading")
          /\ UNCHANGED <<rows, branches, pointer, made, swaps>>

\* COALESCE(MAX(sequence), 0)
LastSequence(r) ==
  IF RowsOf(r) = {} THEN 0
  ELSE CHOOSE m \in {e.sequence : e \in RowsOf(r)} : \A e \in RowsOf(r) : e.sequence <= m

NextSequence(r) == LastSequence(r) + 1

ReadMax(s) ==
  /\ session[s].pc = "reading"
  /\ IF session[s].call.expected \in {None, NextSequence(RunOf(s))}
     THEN /\ session' = [session EXCEPT ![s].pc = "inserting", ![s].next = NextSequence(RunOf(s))]
          /\ UNCHANGED <<rows, branches, pointer, rowLock, made, swaps>>
     ELSE Raise(s, "sequence_conflict")

NewRow(s) == [run |-> RunOf(s), sequence |-> session[s].next, key |-> session[s].call.key,
              expected |-> session[s].call.expected]

\* PRIMARY KEY and UNIQUE: a committed clash fails the insert, one that is
\* not committed makes it wait.
Clashes(e, f) == e.run = f.run /\ (e.sequence = f.sequence \/ e.key = f.key)

InsertEvent(s) ==
  /\ session[s].pc = "inserting"
  /\ \A o \in Sessions : session[o].pc = "inserted" => ~Clashes(NewRow(s), NewRow(o))
  /\ IF \E e \in rows : Clashes(NewRow(s), e)
     THEN Raise(s, IF session[s].next \in {e.sequence : e \in RowsOf(RunOf(s))}
                   THEN "duplicate_sequence" ELSE "duplicate_key")
     ELSE Goto(s, "inserted") /\ UNCHANGED <<rows, branches, pointer, rowLock, made, swaps>>

CommitEvent(s) ==
  /\ session[s].pc = "inserted"
  /\ rows' = rows \cup {NewRow(s)}
  /\ End(s, "ok")
  /\ UNCHANGED <<branches, pointer, made, swaps>>

-----------------------------------------------------------------------------
(* awf_promote_branch: one UPDATE, which selects the row by its committed  *)
(* version, waits for the row and selects again by the version it finds.   *)
Selects(c) ==
  /\ RunTenant[c.run] = c.tenant
  /\ pointer[c.run].generation = c.expected
  /\ c.branch \in branches[c.run]

ScanRuns(s) ==
  /\ session[s].pc = "scanning"
  /\ IF Selects(session[s].call)
     THEN Goto(s, "updating") /\ UNCHANGED <<rows, branches, pointer, rowLock, made, swaps>>
     ELSE Raise(s, "branch_conflict")

\* A variant with a plausible mistake: the generation is read, then the row
\* is updated by its key.
UpdateRunUnchecked(s) ==
  /\ session[s].pc = "updating"
  /\ TakeRowLock(s)
  /\ Goto(s, "updated")
  /\ UNCHANGED <<rows, branches, pointer, made, swaps>>

UpdateRun(s) ==
  /\ session[s].pc = "updating" /\ rowLock[RunOf(s)] = None
  /\ IF Selects(session[s].call)
     THEN /\ TakeRowLock(s)
          /\ Goto(s, "updated")
          /\ UNCHANGED <<rows, branches, pointer, made, swaps>>
     ELSE Raise(s, "branch_conflict")

CommitPromotion(s) ==
  /\ session[s].pc = "updated"
  /\ LET c == session[s].call IN
     /\ pointer' = [pointer EXCEPT ![c.run] = [branch |-> c.branch, generation |-> @.generation + 1]]
     /\ swaps' = [swaps EXCEPT ![c.run] =
                    Append(@, [branch |-> c.branch, expected |-> c.expected])]
  /\ End(s, "ok")
  /\ UNCHANGED <<rows, branches, made>>

-----------------------------------------------------------------------------
\* INSERT INTO run_branches, with its keys to runs and to the parent branch.
InsertBranch(r, b, parent) ==
  /\ b \notin branches[r]
  /\ parent \in branches[r] \cup {None}
  /\ branches' = [branches EXCEPT ![r] = @ \cup {b}]
  /\ UNCHANGED <<rows, pointer, rowLock, session, made, swaps>>

Disconnect(s) ==
  /\ session[s].pc # "idle"
  /\ Raise(s, "connection_lost")

Statement(s) ==
  LockRun(s) \/ ReadMax(s) \/ InsertEvent(s) \/ CommitEvent(s)
    \/ ScanRuns(s) \/ UpdateRun(s) \/ CommitPromotion(s)

Next ==
  \/ \E s \in Sessions : Statement(s) \/ Disconnect(s) \/ \E c \in Call : Begin(s, c)
  \/ \E r \in Runs, b \in Branches, parent \in Branches \cup {None} : InsertBranch(r, b, parent)

\* The server runs every statement that can run.
Fairness == \A s \in Sessions : WF_vars(Statement(s))

Spec == Init /\ [][Next]_vars /\ Fairness

-----------------------------------------------------------------------------
(* What the row lock on runs is for.  Writers wait for each other: none is  *)
(* turned away because another wrote at the same time, only by its key (a  *)
(* retry) or a run that is not its tenant's.  And whoever has read a run   *)
(* up to some sequence has missed nothing: no event ever becomes visible   *)
(* behind one that is visible, however the transactions overlap.           *)
WritersTakeTurns ==
  [][/\ \A s \in Sessions : session'[s].result # "duplicate_sequence"
     /\ \A e \in rows' \ rows : \A f \in RowsOf(e.run) : f.sequence < e.sequence]_vars

(* Every call returns, whatever the other sessions do or abandon.          *)
CallsReturn == \A s \in Sessions : []<>(session[s].pc = "idle")

\* The rows of a run in the order of their sequences.
InOrder(r) ==
  [i \in 1 .. Cardinality(RowsOf(r)) |->
     LET e == CHOOSE f \in RowsOf(r) :
                Cardinality({g \in RowsOf(r) : g.sequence < f.sequence}) = i - 1
     IN  [key |-> e.key, expected |-> e.expected]]

Ledger == INSTANCE RunLedger WITH
  owner <- [r \in Runs |-> IF RowsOf(r) = {} THEN None ELSE RunTenant[r]],
  events <- [r \in Runs |-> InOrder(r)],
  branches <- branches,
  promotions <- swaps

(* The three sets of rows behave as the in-memory stores of the same       *)
(* ports: sequences without gaps, keys used once, each append and each     *)
(* swap made on exactly the state its caller expected.                     *)
ImplementsLedger == Ledger!Spec
=============================================================================
