-------------------------- MODULE StudioRun_proofs --------------------------
(***************************************************************************)
(* The records of Studio runs, for any runs, manifest length and number of *)
(* failed writes and crashes.                                              *)
(*                                                                         *)
(* A run is a story told by its nodes and its events together (Story).     *)
(* What it has on disk lags behind by at most the record it is writing,    *)
(* and where it goes on after a write depends on what that record says     *)
(* (Sound); so whatever is done next is on record, and a run cannot return *)
(* before its last line is a terminal one.                                 *)
(***************************************************************************)
EXTENDS StudioRun, SequenceTheorems, TLAPS

Resumed == {"started", "step", "spawned", "throw"}
Writing == {"line", "runJson"}

Coroutine ==
  [pc : {"none", "return"} \cup Resumed \cup Writing \cup Ended,
   step : 0..StepCount, nodes : [Steps -> NodeStatus], events : RunEvents,
   pending : Record \cup {NoRecord}, then : {"none", "return"} \cup Resumed]

\* The nodes and the events of a run or a record say the same.
Story(c) ==
  \A s \in Steps :
    /\ EventIn(c, "NodeStarted", s) <=> c.nodes[s] # "waiting"
    /\ EventIn(c, "NodeCompleted", s) <=> c.nodes[s] = "completed"
    /\ EventIn(c, "NodeFailed", s) <=> c.nodes[s] = "failed"

\* Where a run is, or will be when its record is written.
At(c) == IF c.pc \in Writing THEN c.then ELSE c.pc

\* Steps are taken one after the other, and only the last one taken may run.
InOrder(c) ==
  /\ \A s \in Steps : /\ s < c.step => c.nodes[s] = "completed"
                      /\ s > c.step => c.nodes[s] = "waiting"
  /\ At(c) = "started" => c.step = 0
  /\ At(c) = "step" /\ c.step > 0 => c.nodes[c.step] = "completed"
  /\ At(c) = "spawned" => c.step > 0 /\ c.nodes[c.step] = "running"
  /\ At(c) = "throw" => c.step > 0 /\ c.nodes[c.step] = "failed"

\* What TerminalRecordsAreSettled asks of one record.
Settled(record) ==
  /\ record.status = "completed" =>
       /\ \A s \in Steps : record.nodes[s] = "completed" /\ ~EventIn(record, "NodeFailed", s)
       /\ Last(record.events).type = "RunCompleted"
  /\ record.status = "failed" =>
       /\ \A s \in Steps :
            /\ record.nodes[s] # "running"
            /\ EventIn(record, "NodeStarted", s) <=>
                 EventIn(record, "NodeCompleted", s) \/ EventIn(record, "NodeFailed", s)
       /\ Last(record.events).type = "RunFailed"

\* The record that is being written is a true one, and says where the run goes on.
TrueRecord(c) ==
  c.pc \in Writing =>
    /\ c.pending \in Record /\ Settled(c.pending)
    /\ c.pending.nodes = c.nodes /\ c.pending.events = c.events
    /\ c.then # "none"
    /\ c.then = "return" <=> c.pending.status # "running"

\* The lines of a run tell its events so far, each line more than the one before.
Grown(c, ls) ==
  /\ \A i \in 1..Len(ls) : Settled(ls[i]) /\ IsPrefix(ls[i].events, c.events)
  /\ \A i \in 2..Len(ls) : IsPrefix(ls[i - 1].events, ls[i].events)

\* What is on disk when a run is somewhere.
OnDisk(c, ls, json) ==
  /\ json = NoRecord \/ json \in ToSet(ls)
  /\ c.pc = "none" => c = Unlaunched /\ ls = <<>>
  /\ c.pc = "runJson" => ls # <<>> /\ Last(ls) = c.pending
  /\ c.pc \in Resumed \cup {"return", "returned"} => ls # <<>> /\ json = Last(ls)
  /\ c.pc \in Resumed => Last(ls).nodes = c.nodes
  /\ c.pc \in {"return", "returned"} => Last(ls).status # "running"

Sound(c, ls, json, req) ==
  /\ Story(c) /\ InOrder(c) /\ TrueRecord(c) /\ Grown(c, ls) /\ OnDisk(c, ls, json)
  /\ req \in {"unsent", "preparing"} => c.pc = "none"
  /\ req \in {"accepted", "created"} => ls # <<>> /\ json # NoRecord

Types ==
  /\ up \in BOOLEAN /\ activeRunIds \subseteq Runs
  /\ request \in [Runs -> {"unsent", "preparing", "launched", "lost"} \cup Answers]
  /\ run \in [Runs -> Coroutine]
  /\ lines \in [Runs -> Seq(Record)] /\ runJson \in [Runs -> Record \cup {NoRecord}]
  /\ faults \in 0..MaxFaults /\ crashes \in 0..MaxCrashes

IInv == Types /\ \A r \in Runs : Sound(run[r], lines[r], runJson[r], request[r])

-----------------------------------------------------------------------------
(* Sequences.                                                              *)

LEMMA Appended ==
  ASSUME NEW S, NEW s \in Seq(S), NEW e \in S
  PROVE  /\ Append(s, e) \in Seq(S) /\ Append(s, e) # <<>>
         /\ Len(Append(s, e)) = Len(s) + 1 /\ Last(Append(s, e)) = e
         /\ \A i \in 1..Len(s) : Append(s, e)[i] = s[i]
BY DEF Last

LEMMA AppendedSet ==
  ASSUME NEW S, NEW s \in Seq(S), NEW e \in S
  PROVE  ToSet(Append(s, e)) = ToSet(s) \cup {e}
<1>1. /\ DOMAIN s = 1..Len(s) /\ DOMAIN Append(s, e) = 1..Len(s) + 1 /\ Len(s) \in Nat
      /\ Append(s, e)[Len(s) + 1] = e
  OBVIOUS
<1>2. \A i \in 1..Len(s) : Append(s, e)[i] = s[i]
  OBVIOUS
<1> QED BY <1>1, <1>2 DEF ToSet

LEMMA PrefixByElements ==
  ASSUME NEW S, NEW s \in Seq(S), NEW t \in Seq(S)
  PROVE  IsPrefix(s, t) <=> Len(s) <= Len(t) /\ \A i \in 1..Len(s) : s[i] = t[i]
<1>1. CASE Len(s) <= Len(t)
  <2>1. /\ SubSeq(s, 1, Len(s)) \in Seq(S) /\ SubSeq(t, 1, Len(s)) \in Seq(S)
        /\ Len(SubSeq(s, 1, Len(s))) = Len(s) /\ Len(SubSeq(t, 1, Len(s))) = Len(s)
        /\ \A i \in 1..Len(s) : SubSeq(s, 1, Len(s))[i] = s[i] /\ SubSeq(t, 1, Len(s))[i] = t[i]
    BY <1>1
  <2>2. SubSeq(s, 1, Len(s)) = SubSeq(t, 1, Len(s))
          <=> \A i \in 1..Len(s) : SubSeq(s, 1, Len(s))[i] = SubSeq(t, 1, Len(s))[i]
    BY <2>1, SeqEqual
  <2> QED BY <1>1, <2>1, <2>2 DEF IsPrefix
<1>2. CASE ~(Len(s) <= Len(t))
  BY <1>2 DEF IsPrefix
<1> QED BY <1>1, <1>2

LEMMA PrefixGrows ==
  ASSUME NEW S, NEW s \in Seq(S), NEW t \in Seq(S), NEW e \in S, IsPrefix(s, t)
  PROVE  IsPrefix(s, Append(t, e))
<1>1. Append(t, e) \in Seq(S) /\ Len(Append(t, e)) = Len(t) + 1
      /\ \A i \in 1..Len(t) : Append(t, e)[i] = t[i]
  BY Appended
<1>2. Len(s) <= Len(t) /\ \A i \in 1..Len(s) : s[i] = t[i]
  BY PrefixByElements
<1>3. Len(s) \in Nat /\ Len(t) \in Nat
  OBVIOUS
<1>4. Len(s) <= Len(Append(t, e)) /\ \A i \in 1..Len(s) : s[i] = Append(t, e)[i]
  BY <1>1, <1>2, <1>3
<1> QED BY <1>1, <1>4, PrefixByElements

LEMMA PrefixIsOrder ==
  ASSUME NEW S, NEW s \in Seq(S), NEW t \in Seq(S), NEW u \in Seq(S)
  PROVE  IsPrefix(s, s) /\ (IsPrefix(s, t) /\ IsPrefix(t, u) => IsPrefix(s, u))
<1>1. Len(s) \in Nat /\ Len(t) \in Nat /\ Len(u) \in Nat
  OBVIOUS
<1>2. IsPrefix(s, s)
  BY <1>1, PrefixByElements
<1>3. ASSUME IsPrefix(s, t), IsPrefix(t, u) PROVE IsPrefix(s, u)
  <2>1. /\ Len(s) <= Len(t) /\ \A i \in 1..Len(s) : s[i] = t[i]
        /\ Len(t) <= Len(u) /\ \A i \in 1..Len(t) : t[i] = u[i]
    BY <1>3, PrefixByElements
  <2>2. Len(s) <= Len(u) /\ \A i \in 1..Len(s) : s[i] = u[i]
    BY <1>1, <2>1
  <2> QED BY <2>2, PrefixByElements
<1> QED BY <1>2, <1>3

-----------------------------------------------------------------------------
(* A run between two awaits.                                               *)

\* An event is added to the story of a run.
LEMMA EventAdded ==
  ASSUME NEW c \in Coroutine, NEW type \in EventTypes, NEW step \in 0..StepCount
  PROVE  LET events == Append(c.events, Event(type, step)) IN
         /\ events \in RunEvents /\ IsPrefix(c.events, events)
         /\ Last(events).type = type
         /\ ToSet(events) = ToSet(c.events) \cup {Event(type, step)}
<1>1. c.events \in RunEvents /\ Event(type, step) \in [type : EventTypes, step : 0..StepCount]
  BY DEF Coroutine, Event
<1>2. Event(type, step).type = type
  BY DEF Event
<1> DEFINE S == [type : EventTypes, step : 0..StepCount]
           e == Event(type, step)
<1>3. c.events \in Seq(S) /\ e \in S /\ RunEvents = Seq(S)
  BY <1>1 DEF RunEvents
<1> HIDE DEF S, e
<1>4. Append(c.events, e) \in Seq(S) /\ Last(Append(c.events, e)) = e
  BY <1>3, Appended
<1>5. ToSet(Append(c.events, e)) = ToSet(c.events) \cup {e}
  BY <1>3, AppendedSet
<1>6. IsPrefix(c.events, c.events)
  BY <1>3, PrefixIsOrder
<1>7. IsPrefix(c.events, Append(c.events, e))
  BY <1>3, <1>6, PrefixGrows
<1> QED BY <1>2, <1>3, <1>4, <1>5, <1>7 DEF e

\* A run x, gone on from c, waits for its record to be written.
LEMMA Persisted ==
  ASSUME NEW c \in Coroutine, NEW x \in Coroutine, NEW ls \in Seq(Record), NEW json,
         NEW status \in {"running", "completed", "failed"}, NEW then \in {"return"} \cup Resumed,
         Grown(c, ls), json = NoRecord \/ json \in ToSet(ls),
         IsPrefix(c.events, x.events), Story(x), InOrder(Persist(x, status, then)),
         Settled(Snapshot(status, x.nodes, x.events)),
         then = "return" \/ status = "running", then # "return" \/ status # "running"
  PROVE  LET d == Persist(x, status, then) IN
         /\ d \in Coroutine /\ Story(d) /\ InOrder(d) /\ TrueRecord(d) /\ Grown(d, ls) /\ OnDisk(d, ls, json)
<1> DEFINE d == Persist(x, status, then)
           snapshot == Snapshot(status, x.nodes, x.events)
<1>1. /\ snapshot \in Record /\ snapshot.status = status
      /\ snapshot.nodes = x.nodes /\ snapshot.events = x.events
  BY DEF Coroutine, Snapshot, Record
<1>2. /\ d \in Coroutine /\ d.pc = "line" /\ d.then = then /\ d.pending = snapshot
      /\ d.nodes = x.nodes /\ d.events = x.events
  BY <1>1 DEF Persist, Coroutine, Writing
<1>3. Story(d)
  BY <1>2 DEF Story, EventIn
<1>4. TrueRecord(d)
  BY <1>1, <1>2 DEF TrueRecord, Resumed
<1>5. Grown(d, ls)
  <2>1. ASSUME NEW i \in 1..Len(ls) PROVE IsPrefix(ls[i].events, d.events)
    <3>1. ls[i].events \in RunEvents /\ c.events \in RunEvents /\ x.events \in RunEvents
      <4>1. ls[i] \in Record
        OBVIOUS
      <4> QED BY <4>1 DEF Record, Coroutine
    <3>2. IsPrefix(ls[i].events, c.events)
      BY DEF Grown
    <3> QED BY <1>2, <3>1, <3>2, PrefixIsOrder DEF RunEvents
  <2> QED BY <2>1 DEF Grown
<1>6. OnDisk(d, ls, json)
  BY <1>2 DEF OnDisk, Resumed
<1> QED BY <1>2, <1>3, <1>4, <1>5, <1>6

\* A node of a run changes its status, and an event tells of it.
Told(c, s, status, type) ==
  [c EXCEPT !.nodes[s] = status, !.events = Append(@, Event(type, s))]

\* What happened to a node and the event that tells of it keep the story of a run.
LEMMA NodeTold ==
  ASSUME NEW c \in Coroutine, Story(c), NEW s \in Steps, NEW type, NEW status,
         \/ type = "NodeStarted" /\ status = "running" /\ c.nodes[s] = "waiting"
         \/ type = "NodeCompleted" /\ status = "completed" /\ c.nodes[s] = "running"
         \/ type = "NodeFailed" /\ status = "failed" /\ c.nodes[s] = "running"
  PROVE  LET x == Told(c, s, status, type) IN
         /\ x \in Coroutine /\ Story(x) /\ IsPrefix(c.events, x.events) /\ x.step = c.step
         /\ x.nodes[s] = status /\ \A q \in Steps \ {s} : x.nodes[q] = c.nodes[q]
         /\ Last(x.events).type = type
<1> DEFINE events == Append(c.events, Event(type, s))
           x == Told(c, s, status, type)
<1>1. c.nodes \in [Steps -> NodeStatus] /\ c.events \in RunEvents
  BY DEF Coroutine
<1>2. s \in 0..StepCount /\ type \in EventTypes /\ status \in NodeStatus
  BY StudioAssumption DEF Steps, EventTypes, NodeStatus
<1>3. /\ events \in RunEvents /\ IsPrefix(c.events, events) /\ Last(events).type = type
      /\ ToSet(events) = ToSet(c.events) \cup {Event(type, s)}
  BY <1>2, EventAdded
<1>4. x = [c EXCEPT !.nodes[s] = status, !.events = events]
  BY DEF Told
<1> HIDE DEF events, x
<1>5. /\ x.nodes = [c.nodes EXCEPT ![s] = status] /\ x.events = events /\ x.step = c.step
      /\ x \in Coroutine
  BY <1>1, <1>2, <1>3, <1>4 DEF Coroutine
<1>6. x.nodes[s] = status /\ \A q \in Steps \ {s} : x.nodes[q] = c.nodes[q]
  BY <1>1, <1>5
<1>7. \A q \in Steps, t \in EventTypes :
        Event(t, q) \in ToSet(x.events) <=> Event(t, q) \in ToSet(c.events) \/ (t = type /\ q = s)
  BY <1>3, <1>5 DEF Event
<1>8. Story(x)
  BY <1>6, <1>7 DEF Story, EventIn, EventTypes
<1> QED BY <1>3, <1>5, <1>6, <1>8 DEF x

\* FailActiveNode leaves no node running and keeps the story.
LEMMA ActiveNodeFails ==
  ASSUME NEW c \in Coroutine, Story(c), InOrder(c)
  PROVE  LET x == FailActiveNode(c) IN
         /\ x \in Coroutine /\ Story(x) /\ IsPrefix(c.events, x.events) /\ x.step = c.step
         /\ \A s \in Steps : x.nodes[s] # "running"
         /\ \A s \in Steps : /\ s < c.step => x.nodes[s] = "completed"
                             /\ s > c.step => x.nodes[s] = "waiting"
<1> DEFINE x == FailActiveNode(c)
<1>1. c.nodes \in [Steps -> NodeStatus] /\ c.events \in RunEvents /\ c.step \in 0..StepCount
  BY DEF Coroutine
<1>2. CASE \E s \in Steps : c.nodes[s] = "running"
  <2> DEFINE s == CHOOSE s \in Steps : c.nodes[s] = "running"
  <2>1. s \in Steps /\ c.nodes[s] = "running"
    BY <1>2
  <2>2. x = Told(c, s, "failed", "NodeFailed")
    BY <1>2 DEF FailActiveNode, Told
  <2> HIDE DEF s, x
  <2>3. /\ x \in Coroutine /\ Story(x) /\ IsPrefix(c.events, x.events)
        /\ x.step = c.step
        /\ x.nodes[s] = "failed" /\ \A q \in Steps \ {s} : x.nodes[q] = c.nodes[q]
    BY <2>1, <2>2, NodeTold
  <2>4. s = c.step
    BY <1>1, <2>1, StudioAssumption DEF InOrder, Steps
  <2>5. ASSUME NEW q \in Steps
        PROVE  /\ q < c.step => x.nodes[q] = "completed"
               /\ q > c.step => x.nodes[q] = "waiting"
               /\ x.nodes[q] # "running"
    <3>1. x.nodes[q] = IF q = c.step THEN "failed" ELSE c.nodes[q]
      BY <1>1, <2>1, <2>3, <2>4
    <3>2. q \in Nat /\ c.step \in Nat
      BY <1>1, StudioAssumption DEF Steps
    <3> QED BY <3>1, <3>2 DEF InOrder
  <2> QED BY <2>3, <2>5 DEF x
<1>3. CASE ~\E s \in Steps : c.nodes[s] = "running"
  <2>1. x = c
    BY <1>3 DEF FailActiveNode
  <2> QED BY <1>1, <1>3, <2>1, PrefixIsOrder DEF InOrder, RunEvents
<1> QED BY <1>2, <1>3

\* Catch: the failure of a run is a record that is true of it.
LEMMA Caught ==
  ASSUME NEW c \in Coroutine, NEW ls \in Seq(Record), NEW json, Story(c), InOrder(c),
         Grown(c, ls), json = NoRecord \/ json \in ToSet(ls)
  PROVE  LET d == Catch(c) IN
         /\ d \in Coroutine /\ Story(d) /\ InOrder(d) /\ TrueRecord(d) /\ Grown(d, ls) /\ OnDisk(d, ls, json)
<1> DEFINE y == FailActiveNode(c)
           x == FailRun(y)
<1>1. /\ y \in Coroutine /\ Story(y) /\ IsPrefix(c.events, y.events) /\ y.step = c.step
      /\ \A s \in Steps : y.nodes[s] # "running"
      /\ \A s \in Steps : /\ s < c.step => y.nodes[s] = "completed"
                          /\ s > c.step => y.nodes[s] = "waiting"
  BY ActiveNodeFails
<1> HIDE DEF y
<1>2. 0 \in 0..StepCount /\ \A s \in Steps : s # 0
  BY StudioAssumption DEF Steps
<1> DEFINE events == Append(y.events, Event("RunFailed", 0))
<1>3. /\ events \in RunEvents /\ IsPrefix(y.events, events)
      /\ Last(events).type = "RunFailed"
      /\ ToSet(events) = ToSet(y.events) \cup {Event("RunFailed", 0)}
  <2>1. "RunFailed" \in EventTypes
    BY DEF EventTypes
  <2> QED BY <1>1, <1>2, <2>1, EventAdded
<1>4. x = [y EXCEPT !.events = events]
  BY DEF FailRun
<1> HIDE DEF x, events
<1>5. /\ x \in Coroutine /\ x.nodes = y.nodes /\ x.events = events /\ x.step = y.step
  BY <1>1, <1>3, <1>4 DEF Coroutine
<1>6. Story(x)
  <2>1. \A q \in Steps, type \in EventTypes :
          Event(type, q) \in ToSet(x.events) <=> Event(type, q) \in ToSet(y.events)
    BY <1>2, <1>3, <1>5 DEF Event
  <2> QED BY <1>1, <1>5, <2>1 DEF Story, EventIn, EventTypes
<1>7. IsPrefix(c.events, x.events)
  BY <1>1, <1>3, <1>5, PrefixIsOrder DEF Coroutine, RunEvents
<1>8. Settled(Snapshot("failed", x.nodes, x.events))
  BY <1>1, <1>3, <1>5, <1>6 DEF Settled, Snapshot, Story, EventIn, Coroutine, NodeStatus
<1>9. InOrder(Persist(x, "failed", "return"))
  <2>1. LET d == Persist(x, "failed", "return") IN
        At(d) = "return" /\ d.nodes = x.nodes /\ d.step = x.step
    BY <1>5 DEF Persist, At, Writing, Coroutine
  <2> QED BY <1>1, <1>5, <2>1 DEF InOrder
<1> QED BY <1>5, <1>6, <1>7, <1>8, <1>9, Persisted DEF Catch, x, y

-----------------------------------------------------------------------------
(* The steps of the server.                                                *)

LEMMA InitIInv == Init => IInv
<1> SUFFICES ASSUME Init PROVE IInv
  OBVIOUS
<1>1. Unlaunched \in Coroutine
  <2>1. Event("RunCreated", 0) \in [type : EventTypes, step : 0..StepCount]
    BY StudioAssumption DEF Event, EventTypes
  <2>2. <<Event("RunCreated", 0)>> \in RunEvents
    BY <2>1 DEF RunEvents
  <2> QED BY <2>2, StudioAssumption DEF Unlaunched, Coroutine, NodeStatus
<1>2. Types
  BY <1>1, StudioAssumption DEF Init, Types
<1>3. Story(Unlaunched)
  <2>1. \A e \in ToSet(Unlaunched.events) : e.type = "RunCreated"
    BY DEF Unlaunched, ToSet, Event
  <2>2. \A s \in Steps, type \in {"NodeStarted", "NodeCompleted", "NodeFailed"} :
          ~EventIn(Unlaunched, type, s)
    BY <2>1 DEF EventIn, Event
  <2>3. \A s \in Steps : Unlaunched.nodes[s] = "waiting"
    BY DEF Unlaunched
  <2> QED BY <2>2, <2>3 DEF Story
<1>4. Sound(Unlaunched, <<>>, NoRecord, "unsent")
  <2>1. Unlaunched.pc = "none" /\ Unlaunched.step = 0 /\ At(Unlaunched) = "none"
        /\ \A s \in Steps : Unlaunched.nodes[s] = "waiting"
    BY DEF Unlaunched, At, Writing
  <2>2. InOrder(Unlaunched)
    BY <2>1, StudioAssumption DEF InOrder, Steps
  <2>3. Grown(Unlaunched, <<>>)
    BY DEF Grown
  <2>4. OnDisk(Unlaunched, <<>>, NoRecord) /\ TrueRecord(Unlaunched)
    BY <2>1 DEF OnDisk, TrueRecord, Writing, Resumed
  <2> QED BY <1>3, <2>1, <2>2, <2>3, <2>4 DEF Sound
<1> QED BY <1>2, <1>4 DEF Init, IInv

\* One run takes a step, in the run itself, on disk or for its client.
LEMMA OneRunSteps ==
  ASSUME IInv, NEW r \in Runs, NEW d \in Coroutine, Types', run' = [run EXCEPT ![r] = d],
         \A q \in Runs \ {r} : /\ lines'[q] = lines[q] /\ runJson'[q] = runJson[q]
                               /\ request'[q] = request[q],
         Sound(d, lines'[r], runJson'[r], request'[r])
  PROVE  IInv'
<1>1. run'[r] = d /\ \A q \in Runs \ {r} : run'[q] = run[q]
  BY DEF IInv, Types
<1>2. ASSUME NEW q \in Runs PROVE Sound(run'[q], lines'[q], runJson'[q], request'[q])
  BY <1>1 DEF IInv
<1> QED BY <1>2 DEF IInv, Sound, Story, InOrder, TrueRecord, Grown, OnDisk

\* A run waits for its next record to be written; its client may be told of it.
LEMMA RecordNext ==
  ASSUME IInv, NEW r \in Runs, NEW d \in Coroutine, run' = [run EXCEPT ![r] = d],
         Story(d), InOrder(d), TrueRecord(d), Grown(d, lines[r]),
         OnDisk(d, lines[r], runJson[r]),
         UNCHANGED <<up, lines, runJson, crashes>>, faults' \in 0..MaxFaults,
         activeRunIds' \subseteq Runs,
         \/ UNCHANGED request /\ request[r] \notin {"unsent", "preparing"}
         \/ request' = [request EXCEPT ![r] = "launched"]
         \/ /\ request' = [request EXCEPT ![r] = "accepted"]
            /\ lines[r] # <<>> /\ runJson[r] # NoRecord
  PROVE  IInv'
<1>1. Types'
  BY DEF IInv, Types, Answers
<1>2. /\ request'[r] \notin {"unsent", "preparing"}
      /\ request'[r] \in {"accepted", "created"} => lines[r] # <<>> /\ runJson[r] # NoRecord
      /\ \A q \in Runs \ {r} : request'[q] = request[q]
  BY DEF IInv, Types, Sound
<1>3. Sound(d, lines'[r], runJson'[r], request'[r])
  BY <1>2 DEF Sound
<1> QED BY <1>1, <1>2, <1>3, OneRunSteps

\* What the invariant says of one run.
LEMMA RunIsSound ==
  ASSUME IInv, NEW r \in Runs
  PROVE  /\ run[r] \in Coroutine /\ lines[r] \in Seq(Record)
         /\ runJson[r] = NoRecord \/ runJson[r] \in ToSet(lines[r])
         /\ Story(run[r]) /\ InOrder(run[r]) /\ TrueRecord(run[r]) /\ Grown(run[r], lines[r])
         /\ OnDisk(run[r], lines[r], runJson[r])
         /\ request[r] \in {"unsent", "preparing"} => run[r].pc = "none"
         /\ request[r] \in {"accepted", "created"} => lines[r] # <<>> /\ runJson[r] # NoRecord
BY DEF IInv, Types, Sound, OnDisk

\* A run fails: Catch, from wherever it is.
LEMMA CatchStep ==
  ASSUME IInv, NEW r \in Runs, run' = [run EXCEPT ![r] = Catch(@)],
         UNCHANGED <<up, lines, runJson, crashes>>, faults' \in 0..MaxFaults,
         activeRunIds' \subseteq Runs,
         \/ UNCHANGED request /\ request[r] \notin {"unsent", "preparing"}
         \/ request' = [request EXCEPT ![r] = "launched"]
         \/ /\ request' = [request EXCEPT ![r] = "accepted"]
            /\ lines[r] # <<>> /\ runJson[r] # NoRecord
  PROVE  IInv'
<1> DEFINE d == Catch(run[r])
<1>1. /\ d \in Coroutine /\ Story(d) /\ InOrder(d) /\ TrueRecord(d)
      /\ Grown(d, lines[r]) /\ OnDisk(d, lines[r], runJson[r])
  BY RunIsSound, Caught
<1>2. run' = [run EXCEPT ![r] = d]
  OBVIOUS
<1> HIDE DEF d
<1> QED BY <1>1, <1>2, RecordNext

\* A run that went on to x has its running record written.
LEMMA RunningStep ==
  ASSUME IInv, NEW r \in Runs, NEW x \in Coroutine, NEW then \in Resumed,
         run' = [run EXCEPT ![r] = Persist(x, "running", then)],
         Story(x), IsPrefix(run[r].events, x.events), InOrder(Persist(x, "running", then)),
         UNCHANGED <<up, lines, runJson, crashes, faults>>, activeRunIds' \subseteq Runs,
         \/ UNCHANGED request /\ request[r] \notin {"unsent", "preparing"}
         \/ request' = [request EXCEPT ![r] = "launched"]
         \/ /\ request' = [request EXCEPT ![r] = "accepted"]
            /\ lines[r] # <<>> /\ runJson[r] # NoRecord
  PROVE  IInv'
<1> DEFINE d == Persist(x, "running", then)
<1>1. Settled(Snapshot("running", x.nodes, x.events))
  BY DEF Settled, Snapshot
<1>2. then \in {"return"} \cup Resumed /\ then # "return"
  BY DEF Resumed
<1>3. /\ d \in Coroutine /\ Story(d) /\ InOrder(d) /\ TrueRecord(d)
      /\ Grown(d, lines[r]) /\ OnDisk(d, lines[r], runJson[r])
  <2>1. /\ run[r] \in Coroutine /\ lines[r] \in Seq(Record) /\ Grown(run[r], lines[r])
        /\ runJson[r] = NoRecord \/ runJson[r] \in ToSet(lines[r])
    BY RunIsSound
  <2>2. "running" \in {"running", "completed", "failed"}
    OBVIOUS
  <2> QED BY <1>1, <1>2, <2>1, <2>2, Persisted
<1>4. faults' \in 0..MaxFaults
  BY DEF IInv, Types
<1> HIDE DEF d
<1> QED BY <1>3, <1>4, RecordNext DEF d

\* Where a run is once its record is written.
LEMMA OrderPersisted ==
  ASSUME NEW x \in Coroutine, NEW status, NEW then,
         \A s \in Steps : /\ s < x.step => x.nodes[s] = "completed"
                          /\ s > x.step => x.nodes[s] = "waiting",
         then = "started" => x.step = 0,
         then = "step" /\ x.step > 0 => x.nodes[x.step] = "completed",
         then = "spawned" => x.step > 0 /\ x.nodes[x.step] = "running",
         then = "throw" => x.step > 0 /\ x.nodes[x.step] = "failed"
  PROVE  InOrder(Persist(x, status, then))
<1> DEFINE d == Persist(x, status, then)
<1>1. At(d) = then /\ d.step = x.step /\ d.nodes = x.nodes
  BY DEF Persist, At, Writing, Coroutine
<1> HIDE DEF d
<1>2. InOrder(d)
  BY <1>1 DEF InOrder
<1> QED BY <1>2 DEF d

LEMMA LaunchStep ==
  ASSUME IInv, NEW r \in Runs, request[r] \in {"unsent", "preparing"}, Launch(r),
         UNCHANGED <<up, disk, faults, crashes>>
  PROVE  IInv'
<1>1. /\ run[r] = Unlaunched /\ run[r] \in Coroutine /\ Story(run[r])
      /\ run[r].step = 0 /\ \A s \in Steps : run[r].nodes[s] = "waiting"
  BY RunIsSound DEF OnDisk, Unlaunched
<1>2. /\ activeRunIds' \subseteq Runs /\ UNCHANGED <<lines, runJson>> /\ faults' \in 0..MaxFaults
      /\ request' = [request EXCEPT ![r] = "launched"]
  BY DEF IInv, Types, Launch, disk
<1>3. CASE run' = [run EXCEPT ![r] = Persist(@, "running", "started")]
  <2>1. InOrder(Persist(run[r], "running", "started"))
    BY <1>1, StudioAssumption, OrderPersisted DEF Steps
  <2>2. IsPrefix(run[r].events, run[r].events)
    BY <1>1, PrefixIsOrder DEF Coroutine, RunEvents
  <2>3. "started" \in Resumed
    BY DEF Resumed
  <2> QED BY <1>1, <1>2, <1>3, <2>1, <2>2, <2>3, RunningStep
<1>4. CASE run' = [run EXCEPT ![r] = Catch(@)]
  BY <1>2, <1>4, CatchStep
<1> QED BY <1>3, <1>4 DEF Launch

\* The handler of a request answers without a run.
LEMMA AnswerStep ==
  ASSUME IInv, NEW r \in Runs, NEW answer \in {"refused", "preparing", "failed"},
         request[r] \in {"unsent", "preparing"}, request' = [request EXCEPT ![r] = answer],
         UNCHANGED <<up, activeRunIds, run, disk, faults, crashes>>
  PROVE  IInv'
<1>1. /\ request'[r] = answer /\ \A q \in Runs \ {r} : request'[q] = request[q]
      /\ UNCHANGED <<lines, runJson>> /\ Types'
  BY DEF IInv, Types, Answers, disk
<1>2. ASSUME NEW q \in Runs PROVE Sound(run[q], lines[q], runJson[q], request'[q])
  <2>1. Sound(run[q], lines[q], runJson[q], request[q])
    BY DEF IInv
  <2> QED BY <1>1, <2>1 DEF Sound
<1> QED BY <1>1, <1>2 DEF IInv, Sound, Story, InOrder, TrueRecord, Grown, OnDisk

LEMMA HandlerStep ==
  ASSUME IInv, NEW r \in Runs, Post(r) \/ Prepared(r) \/ PrepareFails(r)
  PROVE  IInv'
<1>1. CASE Post(r) /\ ~Launch(r)
  BY <1>1, AnswerStep DEF Post
<1>2. CASE Post(r) /\ Launch(r)
  BY <1>2, LaunchStep DEF Post
<1>3. CASE Prepared(r)
  BY <1>3, LaunchStep DEF Prepared
<1>4. CASE PrepareFails(r)
  BY <1>4, AnswerStep DEF PrepareFails
<1> QED BY <1>1, <1>2, <1>3, <1>4

\* A record of a run is appended to the history, then kept as its run.json.
LEMMA WriteStep ==
  ASSUME IInv, NEW r \in Runs, AppendLine(r) \/ WriteRunJson(r)
  PROVE  IInv'
<1> DEFINE c == run[r]
<1>1. /\ c \in Coroutine /\ lines[r] \in Seq(Record)
      /\ Story(c) /\ InOrder(c) /\ TrueRecord(c) /\ Grown(c, lines[r])
      /\ OnDisk(c, lines[r], runJson[r])
      /\ request[r] \notin {"unsent", "preparing"} \/ c.pc = "none"
      /\ request[r] \in {"accepted", "created"} => lines[r] # <<>> /\ runJson[r] # NoRecord
  BY RunIsSound
<1>2. c.pc \in Writing => /\ c.pending \in Record /\ Settled(c.pending) /\ c.pending # NoRecord
                          /\ c.pending.nodes = c.nodes /\ c.pending.events = c.events
                          /\ c.then \in {"return"} \cup Resumed
                          /\ c.then = "return" <=> c.pending.status # "running"
  <2> SUFFICES ASSUME c.pc \in Writing
               PROVE  /\ c.pending \in Record /\ Settled(c.pending) /\ c.pending # NoRecord
                      /\ c.pending.nodes = c.nodes /\ c.pending.events = c.events
                      /\ c.then \in {"return"} \cup Resumed
                      /\ c.then = "return" <=> c.pending.status # "running"
    OBVIOUS
  <2>1. c.then \in {"none", "return"} \cup Resumed
    BY <1>1 DEF Coroutine
  <2> QED BY <1>1, <2>1, NoRecordAssumption DEF TrueRecord
<1>3. CASE AppendLine(r)
  <2> DEFINE d == [c EXCEPT !.pc = "runJson"]
             ls == Append(lines[r], c.pending)
  <2>1. /\ c.pc = "line" /\ run' = [run EXCEPT ![r] = d]
        /\ UNCHANGED <<up, crashes, request, activeRunIds, runJson, faults>>
        /\ lines' = [lines EXCEPT ![r] = ls]
    BY <1>3 DEF AppendLine, KeepServer
  <2>2. /\ d \in Coroutine /\ d.pc = "runJson" /\ d.step = c.step /\ d.nodes = c.nodes
        /\ d.events = c.events /\ d.pending = c.pending /\ d.then = c.then
    BY <1>1 DEF Coroutine, Writing
  <2>3. /\ c.pending \in Record /\ Settled(c.pending) /\ c.pending.events = c.events
    BY <1>2, <2>1 DEF Writing
  <2>4. /\ ls \in Seq(Record) /\ ls # <<>> /\ Len(ls) = Len(lines[r]) + 1 /\ Last(ls) = c.pending
        /\ \A i \in 1..Len(lines[r]) : ls[i] = lines[r][i]
        /\ ToSet(ls) = ToSet(lines[r]) \cup {c.pending}
        /\ ls[Len(lines[r]) + 1] = c.pending
    BY <1>1, <2>3, Appended, AppendedSet DEF Last
  <2> HIDE DEF ls, d
  <2>5. Story(d) /\ InOrder(d) /\ TrueRecord(d)
    BY <1>1, <2>1, <2>2 DEF Story, EventIn, InOrder, At, TrueRecord, Writing
  <2>6. Grown(d, ls)
    <3>1. Len(lines[r]) \in Nat
      BY <1>1
    <3>2. IsPrefix(c.events, c.events)
      BY <1>1, PrefixIsOrder DEF Coroutine, RunEvents
    <3>3. ASSUME NEW i \in 1..Len(ls) PROVE Settled(ls[i]) /\ IsPrefix(ls[i].events, d.events)
      BY <1>1, <2>2, <2>3, <2>4, <3>1, <3>2 DEF Grown
    <3>4. ASSUME NEW i \in 2..Len(ls) PROVE IsPrefix(ls[i - 1].events, ls[i].events)
      <4>1. CASE i \in 2..Len(lines[r])
        BY <1>1, <2>4, <3>1, <4>1 DEF Grown
      <4>2. CASE i = Len(lines[r]) + 1
        <5>1. i - 1 \in 1..Len(lines[r]) /\ ls[i] = c.pending /\ ls[i - 1] = lines[r][i - 1]
          BY <2>4, <3>1, <4>2
        <5> QED BY <1>1, <2>3, <5>1 DEF Grown
      <4> QED BY <2>4, <3>1, <4>1, <4>2
    <3> QED BY <3>3, <3>4 DEF Grown
  <2>7. OnDisk(d, ls, runJson[r])
    BY <1>1, <2>2, <2>4 DEF OnDisk, Resumed
  <2>8. /\ lines' \in [Runs -> Seq(Record)] /\ lines'[r] = ls
        /\ \A q \in Runs \ {r} : lines'[q] = lines[q]
    BY <2>1, <2>4 DEF IInv, Types
  <2>9. Types'
    BY <2>1, <2>2, <2>8 DEF IInv, Types
  <2>10. Sound(d, lines'[r], runJson'[r], request'[r])
    BY <1>1, <2>1, <2>4, <2>5, <2>6, <2>7, <2>8 DEF Sound
  <2> QED BY <2>1, <2>2, <2>8, <2>9, <2>10, OneRunSteps
<1>4. CASE WriteRunJson(r)
  <2> DEFINE d == [c EXCEPT !.pc = c.then, !.pending = NoRecord, !.then = "none"]
  <2>1. /\ c.pc = "runJson" /\ run' = [run EXCEPT ![r] = d]
        /\ UNCHANGED <<up, crashes, request, activeRunIds, lines, faults>>
        /\ runJson' = [runJson EXCEPT ![r] = c.pending]
    BY <1>4 DEF WriteRunJson, KeepServer, LineIsWritten
  <2>2. c.then \in {"return"} \cup Resumed /\ c.pending \in Record /\ c.pc \in Writing
    BY <1>2, <2>1 DEF Writing
  <2>3. /\ d \in Coroutine /\ d.pc = c.then /\ d.step = c.step /\ d.nodes = c.nodes
        /\ d.events = c.events
    BY <1>1, <2>2 DEF Coroutine
  <2> HIDE DEF d
  <2>4. d.pc \notin Writing /\ d.pc \notin {"none", "runJson", "returned"}
    BY <2>2, <2>3 DEF Writing, Resumed
  <2>5. Story(d) /\ InOrder(d) /\ TrueRecord(d) /\ Grown(d, lines[r])
    BY <1>1, <2>2, <2>3, <2>4 DEF Story, EventIn, InOrder, At, TrueRecord, Grown
  <2>6. c.pending = Last(lines[r]) /\ lines[r] # <<>>
    BY <1>1, <2>1 DEF OnDisk
  <2>7. c.pending \in ToSet(lines[r])
    BY <1>1, <2>6 DEF ToSet, Last
  <2>8. OnDisk(d, lines[r], c.pending)
    BY <1>2, <2>2, <2>3, <2>4, <2>6, <2>7 DEF OnDisk, Resumed
  <2>9. /\ runJson' \in [Runs -> Record \cup {NoRecord}] /\ runJson'[r] = c.pending
        /\ \A q \in Runs \ {r} : runJson'[q] = runJson[q]
    BY <2>1, <2>2 DEF IInv, Types
  <2>10. Types'
    BY <2>1, <2>3, <2>9 DEF IInv, Types
  <2>11. Sound(d, lines'[r], runJson'[r], request'[r])
    BY <1>1, <1>2, <2>1, <2>2, <2>5, <2>6, <2>8, <2>9 DEF Sound, Writing
  <2> QED BY <2>1, <2>3, <2>9, <2>10, <2>11, OneRunSteps
<1> QED BY <1>3, <1>4

\* A run ends, and its client is told of it if it has not been answered.
LEMMA EndStep ==
  ASSUME IInv, NEW r \in Runs, NEW d \in Coroutine, run' = [run EXCEPT ![r] = d],
         d.pc \in Ended, d.pc = "returned" => run[r].pc = "return", run[r].pc # "none",
         d.step = run[r].step, d.nodes = run[r].nodes, d.events = run[r].events,
         UNCHANGED <<up, lines, runJson, crashes>>, faults' \in 0..MaxFaults,
         activeRunIds' \subseteq Runs,
         \/ Settle(r, "failed")
         \/ Settle(r, "created") /\ run[r].pc = "return"
  PROVE  IInv'
<1>1. /\ run[r] \in Coroutine /\ lines[r] \in Seq(Record)
      /\ Story(run[r]) /\ InOrder(run[r]) /\ Grown(run[r], lines[r])
      /\ OnDisk(run[r], lines[r], runJson[r])
      /\ request[r] \notin {"unsent", "preparing"}
      /\ request[r] \in {"accepted", "created"} => lines[r] # <<>> /\ runJson[r] # NoRecord
  BY RunIsSound
<1>2. d.pc \notin Writing \cup Resumed /\ d.pc \notin {"none", "return", "runJson"}
  BY DEF Ended, Writing, Resumed
<1>3. run[r].pc = "return" =>
        /\ lines[r] # <<>> /\ runJson[r] = Last(lines[r]) /\ Last(lines[r]).status # "running"
        /\ runJson[r] # NoRecord
  <2>1. lines[r] # <<>> => Last(lines[r]) \in Record
    BY <1>1 DEF Last
  <2> QED BY <1>1, <2>1, NoRecordAssumption DEF OnDisk
<1>4. Story(d) /\ InOrder(d) /\ TrueRecord(d) /\ Grown(d, lines[r])
  BY <1>1, <1>2 DEF Story, EventIn, InOrder, At, TrueRecord, Grown, Resumed, Writing
<1>5. OnDisk(d, lines[r], runJson[r])
  BY <1>1, <1>2, <1>3 DEF OnDisk
<1>6. /\ Types' /\ \A q \in Runs \ {r} : request'[q] = request[q]
      /\ request'[r] \in {request[r], "failed"} \/ (request'[r] = "created" /\ run[r].pc = "return")
  BY DEF IInv, Types, Settle, Answers
<1>7. Sound(d, lines'[r], runJson'[r], request'[r])
  BY <1>1, <1>3, <1>4, <1>5, <1>6 DEF Sound
<1> QED BY <1>6, <1>7, OneRunSteps

LEMMA ReturnStep ==
  ASSUME IInv, NEW r \in Runs, Return(r)
  PROVE  IInv'
<1> DEFINE d == [run[r] EXCEPT !.pc = "returned"]
<1>1. /\ run[r].pc = "return" /\ run' = [run EXCEPT ![r] = d]
      /\ activeRunIds' = activeRunIds \ {r} /\ UNCHANGED <<up, lines, runJson, crashes, faults>>
      /\ Settle(r, "created") \/ Settle(r, "failed")
  BY DEF Return, KeepServer, disk
<1>2. run[r] \in Coroutine
  BY RunIsSound
<1>3. /\ d \in Coroutine /\ d.pc = "returned" /\ d.step = run[r].step
      /\ d.nodes = run[r].nodes /\ d.events = run[r].events
  BY <1>2 DEF Coroutine, Ended
<1>4. activeRunIds' \subseteq Runs /\ faults' \in 0..MaxFaults
  BY <1>1 DEF IInv, Types
<1> HIDE DEF d
<1> QED BY <1>1, <1>3, <1>4, EndStep DEF Ended

LEMMA FailWriteStep ==
  ASSUME IInv, NEW r \in Runs, FailWrite(r)
  PROVE  IInv'
<1>1. /\ run[r].pc \in {"line", "runJson"} /\ UNCHANGED <<up, lines, runJson, crashes>>
      /\ faults < MaxFaults /\ faults' = faults + 1
  BY DEF FailWrite, Fault, KeepServer, disk
<1>2. /\ run[r] \in Coroutine /\ request[r] \notin {"unsent", "preparing"}
      /\ activeRunIds \subseteq Runs /\ faults' \in 0..MaxFaults
  BY <1>1, RunIsSound, StudioAssumption DEF IInv, Types
<1>3. CASE run' = [run EXCEPT ![r] = Catch(@)] /\ UNCHANGED <<request, activeRunIds>>
  BY <1>1, <1>2, <1>3, CatchStep
<1>4. CASE Reject(r)
  <2> DEFINE d == [run[r] EXCEPT !.pc = "rejected", !.pending = NoRecord, !.then = "none"]
  <2>1. /\ run' = [run EXCEPT ![r] = d] /\ activeRunIds' = activeRunIds \ {r}
        /\ Settle(r, "failed")
    BY <1>4 DEF Reject
  <2>2. /\ d \in Coroutine /\ d.pc = "rejected" /\ d.step = run[r].step
        /\ d.nodes = run[r].nodes /\ d.events = run[r].events
    BY <1>2 DEF Coroutine, Ended
  <2>3. activeRunIds' \subseteq Runs
    BY <1>2, <2>1
  <2> HIDE DEF d
  <2> QED BY <1>1, <1>2, <2>1, <2>2, <2>3, EndStep DEF Ended
<1> QED BY <1>3, <1>4 DEF FailWrite

\* Once a record is written a run goes on with the step its nodes tell of, and its
\* client can find it.
LEMMA ResumedRun ==
  ASSUME IInv, NEW r \in Runs, run[r].pc \in Resumed
  PROVE  /\ request[r] \notin {"unsent", "preparing"} /\ lines[r] # <<>>
         /\ runJson[r] # NoRecord
         /\ \A s \in Steps : /\ s < run[r].step => run[r].nodes[s] = "completed"
                             /\ s > run[r].step => run[r].nodes[s] = "waiting"
         /\ run[r].pc = "started" => run[r].step = 0
         /\ run[r].pc = "step" /\ run[r].step > 0 => run[r].nodes[run[r].step] = "completed"
         /\ run[r].pc = "spawned" => run[r].step > 0 /\ run[r].nodes[run[r].step] = "running"
<1>1. /\ lines[r] \in Seq(Record) /\ InOrder(run[r]) /\ OnDisk(run[r], lines[r], runJson[r])
      /\ request[r] \in {"unsent", "preparing"} => run[r].pc = "none"
  BY RunIsSound
<1>2. run[r].pc \notin Writing /\ run[r].pc # "none"
  BY DEF Writing, Resumed
<1>3. lines[r] # <<>> /\ runJson[r] = Last(lines[r])
  BY <1>1 DEF OnDisk
<1>4. runJson[r] # NoRecord
  BY <1>1, <1>3, NoRecordAssumption DEF Last
<1> QED BY <1>1, <1>2, <1>3, <1>4 DEF InOrder, At

LEMMA StartedStep ==
  ASSUME IInv, NEW r \in Runs, Started(r)
  PROVE  IInv'
<1>1. /\ run[r].pc = "started" /\ Settle(r, "accepted")
      /\ UNCHANGED <<up, activeRunIds, lines, runJson, crashes>>
  BY DEF Started, KeepServer, disk
<1>2. run[r].pc \in Resumed /\ "step" \in Resumed
  BY <1>1 DEF Resumed
<1>3. /\ request[r] \notin {"unsent", "preparing"} /\ lines[r] # <<>> /\ runJson[r] # NoRecord
      /\ run[r].step = 0
      /\ \A s \in Steps : /\ s < run[r].step => run[r].nodes[s] = "completed"
                          /\ s > run[r].step => run[r].nodes[s] = "waiting"
  BY <1>1, <1>2, ResumedRun
<1>4. request' = request \/ request' = [request EXCEPT ![r] = "accepted"]
  BY <1>1 DEF Settle, IInv, Types
<1>5. activeRunIds' \subseteq Runs /\ run[r] \in Coroutine /\ Story(run[r])
  BY <1>1, RunIsSound DEF IInv, Types
<1>6. CASE run' = [run EXCEPT ![r] = Persist(@, "running", "step")] /\ UNCHANGED faults
  <2>1. InOrder(Persist(run[r], "running", "step"))
    BY <1>3, <1>5, OrderPersisted
  <2>2. IsPrefix(run[r].events, run[r].events)
    BY <1>5, PrefixIsOrder DEF Coroutine, RunEvents
  <2> QED BY <1>1, <1>2, <1>3, <1>4, <1>5, <1>6, <2>1, <2>2, RunningStep
<1>7. CASE run' = [run EXCEPT ![r] = Catch(@)] /\ Fault
  <2>1. faults' \in 0..MaxFaults
    BY <1>7, StudioAssumption DEF Fault, IInv, Types
  <2> QED BY <1>1, <1>3, <1>4, <1>5, <1>7, <2>1, CatchStep
<1> QED BY <1>6, <1>7 DEF Started

\* A node of a run changed and the run has its running record written.
LEMMA NodeStep ==
  ASSUME IInv, NEW r \in Runs, run[r].pc \in Resumed, NEW c \in Coroutine, Story(c),
         c.events = run[r].events, c.step \in Steps, NEW type, NEW status, NEW then \in Resumed,
         \A s \in Steps : /\ s < c.step => c.nodes[s] = "completed"
                          /\ s > c.step => c.nodes[s] = "waiting",
         \/ /\ type = "NodeStarted" /\ status = "running" /\ then = "spawned"
            /\ c.nodes[c.step] = "waiting"
         \/ /\ type = "NodeCompleted" /\ status = "completed" /\ then = "step"
            /\ c.nodes[c.step] = "running"
         \/ /\ type = "NodeFailed" /\ status = "failed" /\ then = "throw"
            /\ c.nodes[c.step] = "running",
         run' = [run EXCEPT ![r] = Persist(Told(c, c.step, status, type), "running", then)],
         Progress(r)
  PROVE  IInv'
<1> DEFINE x == Told(c, c.step, status, type)
<1>1. /\ x \in Coroutine /\ Story(x) /\ IsPrefix(c.events, x.events) /\ x.step = c.step
      /\ x.nodes[c.step] = status /\ \A q \in Steps \ {c.step} : x.nodes[q] = c.nodes[q]
  BY NodeTold
<1>2. run' = [run EXCEPT ![r] = Persist(x, "running", then)]
  OBVIOUS
<1> HIDE DEF x
<1>3. c.step \in Nat /\ c.step > 0 /\ \A s \in Steps : s \in Nat
  BY StudioAssumption DEF Steps
<1>4. \A s \in Steps : /\ s < x.step => x.nodes[s] = "completed"
                       /\ s > x.step => x.nodes[s] = "waiting"
  BY <1>1, <1>3
<1>5. InOrder(Persist(x, "running", then))
  BY <1>1, <1>3, <1>4, OrderPersisted
<1>6. /\ request[r] \notin {"unsent", "preparing"} /\ activeRunIds' \subseteq Runs
      /\ UNCHANGED <<up, lines, runJson, crashes, faults, request>>
  BY ResumedRun DEF Progress, KeepServer, disk, IInv, Types
<1> QED BY <1>1, <1>2, <1>5, <1>6, RunningStep

LEMMA StartStepStep ==
  ASSUME IInv, NEW r \in Runs, StartStep(r)
  PROVE  IInv'
<1> DEFINE c == [run[r] EXCEPT !.step = run[r].step + 1]
<1>1. /\ run[r].pc = "step" /\ run[r].step < StepCount /\ Progress(r)
      /\ run' = [run EXCEPT ![r] = Persist(Starting(run[r]), "running", "spawned")]
  BY DEF StartStep, MoreSteps
<1>2. /\ run[r] \in Coroutine /\ Story(run[r]) /\ run[r].pc \in Resumed /\ "spawned" \in Resumed
  BY <1>1, RunIsSound DEF Resumed
<1>3. /\ \A s \in Steps : /\ s < run[r].step => run[r].nodes[s] = "completed"
                          /\ s > run[r].step => run[r].nodes[s] = "waiting"
      /\ run[r].step > 0 => run[r].nodes[run[r].step] = "completed"
  BY <1>1, <1>2, ResumedRun
<1>4. run[r].step + 1 \in Steps /\ run[r].step \in Nat /\ \A s \in Steps : s \in Nat /\ s > 0
  BY <1>1, <1>2, StudioAssumption DEF Coroutine, Steps
<1>5. /\ c \in Coroutine /\ c.step = run[r].step + 1 /\ c.nodes = run[r].nodes
      /\ c.events = run[r].events
  BY <1>2, <1>4 DEF Coroutine, Steps
<1>6. Starting(run[r]) = Told(c, c.step, "running", "NodeStarted")
  BY <1>2, <1>5 DEF Starting, Told, Coroutine
<1> HIDE DEF c
<1>7. Story(c)
  BY <1>2, <1>5 DEF Story, EventIn
<1>8. \A s \in Steps : /\ s < c.step => c.nodes[s] = "completed"
                       /\ s > c.step => c.nodes[s] = "waiting"
  BY <1>3, <1>4, <1>5
<1>9. c.step \in Steps /\ c.nodes[c.step] = "waiting"
  BY <1>3, <1>4, <1>5
<1>10. run' = [run EXCEPT ![r] =
                 Persist(Told(c, c.step, "running", "NodeStarted"), "running", "spawned")]
  BY <1>1, <1>6
<1>11. /\ run[r].pc \in Resumed /\ c \in Coroutine /\ Story(c) /\ c.events = run[r].events
       /\ c.step \in Steps /\ "spawned" \in Resumed /\ c.nodes[c.step] = "waiting" /\ Progress(r)
  BY <1>1, <1>2, <1>5, <1>7, <1>9
<1> QED BY <1>8, <1>10, <1>11, NodeStep

LEMMA StepEndsStep ==
  ASSUME IInv, NEW r \in Runs, StepCompletes(r) \/ StepFails(r)
  PROVE  IInv'
<1> DEFINE c == run[r]
<1>1. c.pc = "spawned" /\ c.pc \in Resumed /\ {"step", "throw"} \subseteq Resumed /\ Progress(r)
  BY DEF StepCompletes, StepFails, Resumed
<1>2. /\ c \in Coroutine /\ Story(c)
      /\ \A s \in Steps : /\ s < c.step => c.nodes[s] = "completed"
                          /\ s > c.step => c.nodes[s] = "waiting"
      /\ c.step > 0 /\ c.nodes[c.step] = "running"
  BY <1>1, RunIsSound, ResumedRun
<1>3. c.step \in Steps
  BY <1>2, StudioAssumption DEF Coroutine, Steps
<1>4. CASE StepCompletes(r)
  <2>1. run' = [run EXCEPT ![r] =
                  Persist(Told(c, c.step, "completed", "NodeCompleted"), "running", "step")]
    BY <1>4 DEF StepCompletes, Told
  <2> QED BY <1>1, <1>2, <1>3, <2>1, NodeStep
<1>5. CASE StepFails(r)
  <2>1. run' = [run EXCEPT ![r] =
                  Persist(Told(c, c.step, "failed", "NodeFailed"), "running", "throw")]
    BY <1>5 DEF StepFails, Told
  <2> QED BY <1>1, <1>2, <1>3, <2>1, NodeStep
<1> QED BY <1>4, <1>5

\* A command or the demo snapshot throws.
LEMMA ThrowStep ==
  ASSUME IInv, NEW r \in Runs, StepThrows(r) \/ DemoSnapshotFails(r)
  PROVE  IInv'
<1>1. run[r].pc \in Resumed /\ run' = [run EXCEPT ![r] = Catch(@)] /\ Progress(r)
  BY DEF StepThrows, DemoSnapshotFails, Resumed
<1>2. request[r] \notin {"unsent", "preparing"}
  BY <1>1, ResumedRun
<1>3. /\ UNCHANGED <<up, lines, runJson, crashes, request>> /\ faults' \in 0..MaxFaults
      /\ activeRunIds' \subseteq Runs
  BY <1>1 DEF Progress, KeepServer, disk, IInv, Types
<1> QED BY <1>1, <1>2, <1>3, CatchStep

\* After the last step every node is completed, and the completed record says so.
LEMMA CompleteStep ==
  ASSUME IInv, NEW r \in Runs, Complete(r)
  PROVE  IInv'
<1> DEFINE c == run[r]
           events == Append(c.events, Event("RunCompleted", 0))
           x == [c EXCEPT !.events = events]
           d == Persist(x, "completed", "return")
<1>1. c.pc = "step" /\ ~(c.step < StepCount) /\ run' = [run EXCEPT ![r] = d] /\ Progress(r)
  BY DEF Complete, MoreSteps
<1>2. c.pc \in Resumed
  BY <1>1 DEF Resumed
<1>3. /\ c \in Coroutine /\ lines[r] \in Seq(Record) /\ Story(c) /\ Grown(c, lines[r])
      /\ runJson[r] = NoRecord \/ runJson[r] \in ToSet(lines[r])
  BY RunIsSound
<1>4. /\ request[r] \notin {"unsent", "preparing"}
      /\ \A s \in Steps : /\ s < c.step => c.nodes[s] = "completed"
                          /\ s > c.step => c.nodes[s] = "waiting"
      /\ c.step > 0 => c.nodes[c.step] = "completed"
  BY <1>1, <1>2, ResumedRun
<1>5. 0 \in 0..StepCount /\ \A s \in Steps : s # 0 /\ s \in Nat /\ s <= StepCount /\ s > 0
  BY StudioAssumption DEF Steps
<1>6. \A s \in Steps : c.nodes[s] = "completed"
  BY <1>1, <1>3, <1>4, <1>5, StudioAssumption DEF Coroutine
<1> HIDE DEF c
<1>7. /\ events \in RunEvents /\ IsPrefix(c.events, events) /\ Last(events).type = "RunCompleted"
      /\ ToSet(events) = ToSet(c.events) \cup {Event("RunCompleted", 0)}
  <2>1. "RunCompleted" \in EventTypes
    BY DEF EventTypes
  <2> QED BY <1>3, <1>5, <2>1, EventAdded
<1> HIDE DEF events
<1>8. /\ x \in Coroutine /\ x.nodes = c.nodes /\ x.events = events /\ x.step = c.step
  BY <1>3, <1>7 DEF Coroutine
<1> HIDE DEF x
<1>9. Story(x)
  <2>1. \A q \in Steps, type \in EventTypes :
          Event(type, q) \in ToSet(x.events) <=> Event(type, q) \in ToSet(c.events)
    BY <1>5, <1>7, <1>8 DEF Event
  <2> QED BY <1>3, <1>8, <2>1 DEF Story, EventIn, EventTypes
<1>10. Settled(Snapshot("completed", x.nodes, x.events))
  BY <1>6, <1>7, <1>8, <1>9 DEF Settled, Snapshot, Story, EventIn
<1>11. InOrder(d)
  BY <1>4, <1>8, OrderPersisted
<1>12. IsPrefix(c.events, x.events)
  BY <1>7, <1>8
<1>13. /\ d \in Coroutine /\ Story(d) /\ InOrder(d) /\ TrueRecord(d)
       /\ Grown(d, lines[r]) /\ OnDisk(d, lines[r], runJson[r])
  BY <1>3, <1>8, <1>9, <1>10, <1>11, <1>12, Persisted
<1>14. /\ UNCHANGED <<up, lines, runJson, crashes, request>> /\ faults' \in 0..MaxFaults
       /\ activeRunIds' \subseteq Runs
  BY <1>1 DEF Progress, KeepServer, disk, IInv, Types
<1> HIDE DEF d
<1> QED BY <1>1, <1>4, <1>13, <1>14, RecordNext DEF c

\* The process dies: what is on disk stays, every run in progress is gone.
LEMMA CrashStep ==
  ASSUME IInv, Crash
  PROVE  IInv'
<1>1. /\ UNCHANGED <<lines, runJson, faults>> /\ activeRunIds' = {} /\ up' = FALSE
      /\ crashes < MaxCrashes /\ crashes' = crashes + 1
  BY DEF Crash, disk
<1>2. \A r \in Runs :
        /\ run'[r] = IF run[r].pc \in Ended \cup {"none"} THEN run[r]
                     ELSE [run[r] EXCEPT !.pc = "gone", !.pending = NoRecord, !.then = "none"]
        /\ request'[r] = IF request[r] \in {"preparing", "launched"} THEN "lost" ELSE request[r]
  BY DEF Crash
<1>3. ASSUME NEW r \in Runs
      PROVE  run'[r] \in Coroutine /\ Sound(run'[r], lines[r], runJson[r], request'[r])
  <2>1. run[r] \in Coroutine /\ Sound(run[r], lines[r], runJson[r], request[r])
    BY DEF IInv, Types
  <2>2. request'[r] \in {request[r], "lost"}
    BY <1>2
  <2>3. CASE run[r].pc \in Ended \cup {"none"}
    BY <1>2, <2>1, <2>2, <2>3 DEF Sound
  <2>4. CASE run[r].pc \notin Ended \cup {"none"}
    <3> DEFINE d == [run[r] EXCEPT !.pc = "gone", !.pending = NoRecord, !.then = "none"]
    <3>1. run'[r] = d
      BY <1>2, <2>4
    <3>2. /\ d \in Coroutine /\ d.pc = "gone" /\ d.nodes = run[r].nodes
          /\ d.events = run[r].events /\ d.step = run[r].step
      BY <2>1 DEF Coroutine, Ended
    <3> HIDE DEF d
    <3>3. d.pc \notin Writing \cup Resumed
      BY <3>2 DEF Writing, Resumed
    <3>4. Story(d) /\ InOrder(d) /\ TrueRecord(d) /\ Grown(d, lines[r])
      BY <2>1, <3>2, <3>3 DEF Sound, Story, EventIn, InOrder, At, TrueRecord, Grown
    <3>5. OnDisk(d, lines[r], runJson[r])
      BY <2>1, <3>2, <3>3 DEF Sound, OnDisk
    <3>6. request'[r] \notin {"unsent", "preparing"}
      BY <1>2, <2>1, <2>4 DEF Sound
    <3> QED BY <2>1, <2>2, <3>1, <3>2, <3>4, <3>5, <3>6 DEF Sound
  <2> QED BY <2>3, <2>4
<1>4. Types'
  <2>1. run' \in [Runs -> Coroutine]
    BY <1>3 DEF Crash
  <2>2. request' \in [Runs -> {"unsent", "preparing", "launched", "lost"} \cup Answers]
    BY DEF Crash, IInv, Types
  <2>3. crashes' \in 0..MaxCrashes
    BY <1>1, StudioAssumption DEF IInv, Types
  <2> QED BY <1>1, <2>1, <2>2, <2>3 DEF IInv, Types
<1> QED BY <1>1, <1>3, <1>4 DEF IInv, Sound, Story, InOrder, TrueRecord, Grown, OnDisk

LEMMA NextIInv == IInv /\ [Next]_vars => IInv'
<1> SUFFICES ASSUME IInv, [Next]_vars PROVE IInv'
  OBVIOUS
<1>1. CASE \E r \in Runs : Post(r) \/ Prepared(r) \/ PrepareFails(r)
  BY <1>1, HandlerStep
<1>2. ASSUME NEW r \in Runs, RunStep(r) PROVE IInv'
  BY <1>2, WriteStep, ReturnStep, FailWriteStep, StartedStep, StartStepStep, StepEndsStep,
     ThrowStep, CompleteStep DEF RunStep
<1>3. CASE Crash
  BY <1>3, CrashStep
<1>4. CASE Restart \/ UNCHANGED vars
  <2>1. Types' /\ UNCHANGED <<request, run, lines, runJson>>
    BY <1>4 DEF Restart, vars, disk, IInv, Types
  <2> QED BY <2>1 DEF IInv, Sound, Story, InOrder, TrueRecord, Grown, OnDisk
<1> QED BY <1>1, <1>2, <1>3, <1>4 DEF Next

LEMMA Invariance == Spec => []IInv
<1> QED BY InitIInv, NextIInv, PTL DEF Spec

-----------------------------------------------------------------------------
(* What a run, its client and its history can rely on.                     *)

\* Every variable keeps its type.
THEOREM TypeCorrect == Spec => []TypeOK
<1>1. IInv => TypeOK
  BY DEF IInv, Types, TypeOK, Coroutine, Resumed, Writing
<1> QED BY <1>1, Invariance, PTL

\* Whatever is done or shown of a run is in its history first: the command that runs, the
\* answer to its client and the summary in run.json.
THEOREM HistoryLeads == Spec => []HistoryComesFirst
<1>1. IInv => HistoryComesFirst
  <2> SUFFICES ASSUME IInv PROVE HistoryComesFirst
    OBVIOUS
  <2>1. StartedStepsAreOnRecord
    <3>1. ASSUME NEW r \in Runs, run[r].pc = "spawned"
          PROVE  lines[r] # <<>> /\ Last(lines[r]).nodes[run[r].step] = "running"
      <4>1. run[r].pc \in Resumed /\ run[r].pc \notin Writing
        BY <3>1 DEF Resumed, Writing
      <4>2. OnDisk(run[r], lines[r], runJson[r]) /\ InOrder(run[r])
        BY RunIsSound
      <4>3. lines[r] # <<>> /\ Last(lines[r]).nodes = run[r].nodes
        BY <4>1, <4>2 DEF OnDisk
      <4>4. run[r].nodes[run[r].step] = "running"
        BY <3>1, <4>1, <4>2 DEF InOrder, At
      <4> QED BY <4>3, <4>4
    <3> QED BY <3>1 DEF StartedStepsAreOnRecord
  <2>2. AnsweredRunsAreOnRecord /\ RunJsonTrailsHistory
    BY RunIsSound DEF AnsweredRunsAreOnRecord, RunJsonTrailsHistory
  <2> QED BY <2>1, <2>2 DEF HistoryComesFirst
<1> QED BY <1>1, Invariance, PTL

\* However a run ends, its records tell one story that only grew, and it has not returned
\* before they say so: whichever writes failed, and whenever the process died.
THEOREM RunsEndAsRecorded == Spec => []RunsEndOnRecord
<1>1. IInv => RunsEndOnRecord
  <2> SUFFICES ASSUME IInv PROVE RunsEndOnRecord
    OBVIOUS
  <2>1. \A r \in Runs : Grown(run[r], lines[r]) /\ OnDisk(run[r], lines[r], runJson[r])
                        /\ lines[r] \in Seq(Record)
    BY RunIsSound
  <2>2. TerminalRecordsAreSettled
    <3>1. ASSUME NEW r \in Runs, NEW record \in ToSet(lines[r]) PROVE Settled(record)
      <4>1. PICK i \in 1..Len(lines[r]) : record = lines[r][i]
        BY <2>1 DEF ToSet
      <4> QED BY <2>1, <4>1 DEF Grown
    <3> QED BY <3>1 DEF TerminalRecordsAreSettled, Settled
  <2>3. EventsAppendOnly
    BY <2>1 DEF Grown, EventsAppendOnly
  <2>4. EndedRunsAreOnRecord
    BY <2>1 DEF OnDisk, EndedRunsAreOnRecord
  <2> QED BY <2>2, <2>3, <2>4 DEF RunsEndOnRecord
<1> QED BY <1>1, Invariance, PTL
=============================================================================
