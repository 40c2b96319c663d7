----------------------------- MODULE RunLedger ------------------------------
(***************************************************************************)
(* What the stores of a run promise: InMemoryRunEventStore (its events),   *)
(* InMemoryRevisionStore (its branches) and InMemoryBranchPointerStore     *)
(* behind CandidatePromoter (its active branch).  Their methods run        *)
(* without an await between check and write, so each is one step; a call   *)
(* that throws changes nothing.                                            *)
(*                                                                         *)
(* The expectations a call was made with are kept beside what it wrote, so *)
(* that an implementation is held to them.                                 *)
(***************************************************************************)
EXTENDS Naturals, Sequences, SequencesExt

CONSTANTS Tenants, Runs, Keys, Branches
CONSTANT Expectations  \* the next sequences and generations callers may expect
CONSTANT None  \* no tenant, no branch, no expectation

VARIABLES
  owner,     \* tenantByRun
  events,    \* eventsByRun[r]: the i-th element has sequence i
  branches,  \* branch ids of each run
  promotions \* promotions[r]: the swaps of r's pointer; its length is the generation

vars == <<owner, events, branches, promotions>>

Init ==
  /\ owner = [r \in Runs |-> None]
  /\ events = [r \in Runs |-> << >>]
  /\ branches = [r \in Runs |-> {}]
  /\ promotions = [r \in Runs |-> << >>]

EventKeys(r) == {e.key : e \in ToSet(events[r])}

AppendEvent(t, r, key, expected) ==
  /\ owner[r] \in {None, t}
  /\ expected \in {None, Len(events[r]) + 1}
  /\ key \notin EventKeys(r)
  /\ owner' = [owner EXCEPT ![r] = t]
  /\ events' = [events EXCEPT ![r] = Append(@, [key |-> key, expected |-> expected])]
  /\ UNCHANGED <<branches, promotions>>

\* registerBase (parent = None) and createRevision
CreateBranch(r, b, parent) ==
  /\ b \notin branches[r]
  /\ parent \in branches[r] \cup {None}
  /\ branches' = [branches EXCEPT ![r] = @ \cup {b}]
  /\ UNCHANGED <<owner, events, promotions>>

\* promote and rollback: requireBranch, then compareAndSwap
Promote(r, b, expected) ==
  /\ b \in branches[r]
  /\ expected = Len(promotions[r])
  /\ promotions' = [promotions EXCEPT ![r] = Append(@, [branch |-> b, expected |-> expected])]
  /\ UNCHANGED <<owner, events, branches>>

Next ==
  \E r \in Runs :
    \/ \E t \in Tenants, key \in Keys, expected \in Expectations \cup {None} : AppendEvent(t, r, key, expected)
    \/ \E b \in Branches, parent \in Branches \cup {None} : CreateBranch(r, b, parent)
    \/ \E b \in Branches, expected \in Expectations : Promote(r, b, expected)

Spec == Init /\ [][Next]_vars
=============================================================================
