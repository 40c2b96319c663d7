------------------------ MODULE PreviewEnvironments ------------------------
(***************************************************************************)
(* PGlitePreviewEnvironmentPort: short-lived environments, each with an    *)
(* embedded database of its own, and the calls made on them.  Everything   *)
(* runs in one process; a call is a coroutine that others interleave with  *)
(* at its awaits, between two queries of one call in particular.           *)
(*                                                                         *)
(* PGlite is external: it runs one query at a time, refuses queries and a  *)
(* second close once a close has begun, and a close may fail.              *)
(***************************************************************************)
EXTENDS Naturals, FiniteSets, Sequences

CONSTANTS
  Envs,       \* environment ids, each drawn once by randomUUID
  Calls,      \* calls of inspect, destroy, appendResourceVersion, recordCommandResult
  Keys,       \* pairs of a command id and an idempotency key
  Digests,    \* request digests
  None,
  MaxVersion, \* bound: expected versions that callers give
  MaxFaults   \* bound: closes that fail

ASSUME BoundAssumption == MaxVersion \in Nat /\ MaxFaults \in Nat

VARIABLES
  provision,     \* how the provisioning of each environment stands
  environments,  \* keys of #environments
  database,      \* the PGlite instance of each environment
  expired,       \* environments whose lease is over by the clock
  versions,      \* resource_versions of the environment's resource: who wrote each
  results,       \* command_results: digest and result of each key, None without a row
  call,          \* how each call stands, and what it was answered
  ended,         \* history: environments some caller was told are no more
  faults

tables == <<versions, results>>
vars == <<provision, environments, database, expired, tables, call, ended, faults>>

Request ==
  [op : {"inspect", "destroy"}, env : Envs]
    \cup [op : {"append"}, env : Envs, expected : 0..MaxVersion]
    \cup [op : {"record"}, env : Envs, key : Keys, digest : Digests]

Row == [digest : Digests, result : Calls]
ASSUME NoneAssumption == None \notin Calls \cup Request \cup Row

Answers == {"none", "ready", "unknown", "expired", "destroyed", "not_found", "error",
            "appended", "version_conflict", "recorded", "replayed", "idempotency_conflict"}

NewCall == [pc |-> "idle", request |-> None, answer |-> "none", version |-> 0, result |-> None]

Init ==
  /\ provision = [e \in Envs |-> "none"]
  /\ environments = {}
  /\ database = [e \in Envs |-> "none"]
  /\ expired = {}
  /\ versions = [e \in Envs |-> <<>>]
  /\ results = [e \in Envs |-> [k \in Keys |-> None]]
  /\ call = [c \in Calls |-> NewCall]
  /\ ended = {}
  /\ faults = 0

Answer(c, answer) == call' = [call EXCEPT ![c].pc = "done", ![c].answer = answer]

-----------------------------------------------------------------------------
(* provision, and the clock                                                *)

\* The lease counts from here; the migration and the contract rows follow.
Provision(e) ==
  /\ provision[e] = "none"
  /\ provision' = [provision EXCEPT ![e] = "migrating"]
  /\ database' = [database EXCEPT ![e] = "open"]
  /\ UNCHANGED <<environments, expired, tables, call, ended, faults>>

Provisioned(e) ==
  /\ provision[e] = "migrating"
  /\ provision' = [provision EXCEPT ![e] = "resolved"]
  /\ environments' = environments \cup {e}
  /\ UNCHANGED <<database, expired, tables, call, ended, faults>>

\* Variant: the error is thrown on without closing the database.
RejectOpen(e) ==
  /\ provision[e] = "migrating"
  /\ provision' = [provision EXCEPT ![e] = "rejected"]
  /\ UNCHANGED <<environments, database, expired, tables, call, ended, faults>>

ProvisionFails(e) ==
  /\ provision[e] = "migrating"
  /\ provision' = [provision EXCEPT ![e] = "rejected"]
  /\ database' = [database EXCEPT ![e] = "closing"]
  /\ UNCHANGED <<environments, expired, tables, call, ended, faults>>

LeaseEnds(e) ==
  /\ provision[e] # "none" /\ e \notin expired
  /\ expired' = expired \cup {e}
  /\ UNCHANGED <<provision, environments, database, tables, call, ended, faults>>

-----------------------------------------------------------------------------
(* Calls                                                                   *)

\* The first step of every call: the look into #environments by inspect or destroy.
\* Its lease over, an environment is closed by whoever looks.
Begin(c, q) ==
  /\ call[c].pc = "idle"
  /\ LET Goto(pc, answer) ==
           call' = [call EXCEPT ![c] = [NewCall EXCEPT !.pc = pc, !.request = q,
                                          !.answer = answer]]
         closes == q.op = "destroy" \/ q.env \in expired
     IN \/ /\ q.env \notin environments
           /\ Goto("done", IF q.op \in {"inspect", "destroy"} THEN "unknown" ELSE "not_found")
           /\ UNCHANGED database
        \/ /\ q.env \in environments /\ closes /\ database[q.env] = "open"
           /\ Goto("closing", "none")
           /\ database' = [database EXCEPT ![q.env] = "closing"]
        \/ /\ q.env \in environments /\ closes /\ database[q.env] # "open"
           /\ Goto("done", "error")
           /\ UNCHANGED database
        \/ /\ q.env \in environments /\ ~closes
           /\ IF q.op = "inspect" THEN Goto("done", "ready") ELSE Goto("lookup", "none")
           /\ UNCHANGED database
  /\ UNCHANGED <<provision, environments, expired, tables, ended, faults>>

\* What a call is told when it has closed the environment.
Told(op) ==
  CASE op = "destroy" -> "destroyed" [] op = "inspect" -> "expired" [] OTHER -> "not_found"

\* close resolves, the environment is deleted and the caller told that it is no more.
Closed(c) ==
  /\ call[c].pc = "closing"
  /\ LET q == call[c].request IN
     /\ database' = [database EXCEPT ![q.env] = "closed"]
     /\ environments' = environments \ {q.env}
     /\ Answer(c, Told(q.op))
     /\ ended' = ended \cup {q.env}
  /\ UNCHANGED <<provision, expired, tables, faults>>

\* close rejects: the call does too, and the environment is not deleted.
CloseFails(c) ==
  /\ call[c].pc = "closing"
  /\ faults < MaxFaults /\ faults' = faults + 1
  /\ Answer(c, "error")
  /\ UNCHANGED <<provision, environments, database, expired, tables, ended>>

\* #database looks again after its await.
Lookup(c) ==
  /\ call[c].pc = "lookup"
  /\ IF call[c].request.env \in environments
     THEN call' = [call EXCEPT ![c].pc = "query"]
     ELSE Answer(c, "not_found")
  /\ UNCHANGED <<provision, environments, database, expired, tables, ended, faults>>

\* A query on a database that is closing or closed rejects.
QueryFails(c) ==
  /\ call[c].pc \in {"query", "insert"} /\ database[call[c].request.env] # "open"
  /\ Answer(c, "error")
  /\ UNCHANGED <<provision, environments, database, expired, tables, ended, faults>>

Queries(c, op, pc) ==
  /\ call[c].pc = pc /\ call[c].request.op = op
  /\ database[call[c].request.env] = "open"
  /\ UNCHANGED <<provision, environments, database, expired, ended, faults>>

\* aawp_preview.append_resource_version
AppendVersion(c) ==
  /\ Queries(c, "append", "query")
  /\ LET e == call[c].request.env IN
     IF Len(versions[e]) # call[c].request.expected
     THEN Answer(c, "version_conflict") /\ UNCHANGED versions
     ELSE /\ versions' = [versions EXCEPT ![e] = Append(@, c)]
          /\ call' = [call EXCEPT ![c].pc = "done", ![c].answer = "appended",
                                  ![c].version = Len(versions[e]) + 1]
  /\ UNCHANGED results

RowOf(c) == results[call[c].request.env][call[c].request.key]

SelectResult(c) ==
  /\ Queries(c, "record", "query")
  /\ \/ /\ RowOf(c) = None
        /\ call' = [call EXCEPT ![c].pc = "insert"]
     \/ /\ RowOf(c) # None /\ RowOf(c).digest = call[c].request.digest
        /\ call' = [call EXCEPT ![c].pc = "done", ![c].answer = "replayed",
                                ![c].result = RowOf(c).result]
     \/ /\ RowOf(c) # None /\ RowOf(c).digest # call[c].request.digest
        /\ Answer(c, "idempotency_conflict")
  /\ UNCHANGED tables

\* Variant: ON CONFLICT DO UPDATE.
UpsertResult(c) ==
  /\ Queries(c, "record", "insert")
  /\ LET q == call[c].request IN
     results' = [results EXCEPT ![q.env][q.key] = [digest |-> q.digest, result |-> c]]
  /\ call' = [call EXCEPT ![c].pc = "done", ![c].answer = "recorded", ![c].result = c]
  /\ UNCHANGED versions

\* The primary key rejects the row of a call that came second.
InsertResult(c) ==
  /\ Queries(c, "record", "insert")
  /\ LET q == call[c].request IN
     IF RowOf(c) # None
     THEN Answer(c, "error") /\ UNCHANGED results
     ELSE /\ results' = [results EXCEPT ![q.env][q.key] = [digest |-> q.digest, result |-> c]]
          /\ call' = [call EXCEPT ![c].pc = "done", ![c].answer = "recorded", ![c].result = c]
  /\ UNCHANGED versions

CallStep(c) ==
  \/ Closed(c) \/ CloseFails(c) \/ Lookup(c) \/ QueryFails(c)
  \/ AppendVersion(c) \/ SelectResult(c) \/ InsertResult(c)

Next ==
  \/ \E e \in Envs : Provision(e) \/ Provisioned(e) \/ ProvisionFails(e) \/ LeaseEnds(e)
  \/ \E c \in Calls : CallStep(c) \/ \E q \in Request : Begin(c, q)

Spec == Init /\ [][Next]_vars

-----------------------------------------------------------------------------
AnswersOf(op) ==
  CASE op = "inspect" -> {"ready", "unknown", "expired", "error"}
    [] op = "destroy" -> {"unknown", "destroyed", "error"}
    [] op = "append" -> {"appended", "version_conflict", "not_found", "error"}
    [] op = "record" -> {"recorded", "replayed", "idempotency_conflict", "not_found", "error"}

CallRecord == [pc : {"idle", "closing", "lookup", "query", "insert", "done"},
               request : Request \cup {None}, answer : Answers,
               version : Nat, result : Calls \cup {None}]

Coherent(r) ==
  /\ r.pc = "idle" <=> r.request = None
  /\ r.pc = "done" <=> r.answer # "none"
  /\ r.pc = "done" => r.answer \in AnswersOf(r.request.op)
  /\ r.pc \in {"lookup", "query"} => r.request.op \in {"append", "record"}
  /\ r.pc = "insert" => r.request.op = "record"
  /\ r.answer \in {"recorded", "replayed"} <=> r.result # None

TypeOK ==
  /\ provision \in [Envs -> {"none", "migrating", "resolved", "rejected"}]
  /\ environments \subseteq Envs /\ expired \subseteq Envs /\ ended \subseteq Envs
  /\ database \in [Envs -> {"none", "open", "closing", "closed"}]
  /\ versions \in [Envs -> Seq(Calls)]
  /\ results \in [Envs -> [Keys -> Row \cup {None}]]
  /\ call \in [Calls -> {r \in CallRecord : Coherent(r)}]
  /\ faults \in 0..MaxFaults

\* However recordings of one command overlap, one of them is the first and every caller
\* that gets a result gets the one on record, which is that of its own request digest.
AnswersAgree ==
  \A c \in Calls : call[c].answer \in {"recorded", "replayed"} =>
    /\ RowOf(c) = [digest |-> call[c].request.digest, result |-> call[c].result]
    /\ call[c].answer = "recorded" => call[c].result = c

\* A caller told that its version was appended expected the version before, and its
\* payload is and stays that version: no update is lost, however appends overlap.
AppendsAreCompareAndSwap ==
  \A c \in Calls : call[c].answer = "appended" =>
    LET q == call[c].request IN
    /\ call[c].version = q.expected + 1
    /\ call[c].version \in 1..Len(versions[q.env]) /\ versions[q.env][call[c].version] = c

\* What a caller was told of its command or its version is what the tables hold from
\* then on, whichever calls overlapped with it.
AnswersStand == AnswersAgree /\ AppendsAreCompareAndSwap

\* No database outlives its environment: an open one is being provisioned or can be
\* destroyed, and an environment whose database is not open has a call that closes it,
\* or one that failed to.
DatabasesAreOwned ==
  \A e \in Envs :
    /\ database[e] = "open" => provision[e] = "migrating" \/ e \in environments
    /\ e \in environments /\ database[e] # "open" =>
         \E c \in Calls :
           /\ call[c].pc \in {"closing", "done"} /\ call[c].request.env = e
           /\ call[c].pc = "done" => call[c].answer = "error"

\* Once some caller was told that an environment is no more, no call under way writes to
\* it and no later one finds it.
EndedStay ==
  \A e \in ended :
    /\ versions'[e] = versions[e] /\ results'[e] = results[e] /\ e \notin environments'
    /\ \A c \in Calls : call[c].pc = "idle" /\ call'[c].pc # "idle" /\ call'[c].request.env = e
         => call'[c].answer \in {"unknown", "not_found"}
EndIsFinal == [][EndedStay]_vars

\* The end of an environment is the end of its database and the other way round.
EndsAreClean == [][DatabasesAreOwned' /\ EndedStay]_vars
=============================================================================
