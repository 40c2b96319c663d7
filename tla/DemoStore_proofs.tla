-------------------------- MODULE DemoStore_proofs --------------------------
(***************************************************************************)
(* At most one demo is onboarded, for any number of runs and of calls to   *)
(* the store, of failing file operations and of crashes.                   *)
(*                                                                         *)
(* The argument is that of a critical section: the calls that sweep hold   *)
(* the head of the promise chain, so there is one of them at a time        *)
(* (TurnsAreExclusive, which needs ChainIsOpen: the chain holds a call     *)
(* once, while it waits or sweeps), and outside what it has still to       *)
(* sweep, only its own run can be onboarded (SweptBehind).                 *)
(*                                                                         *)
(* Deletions are outside the chain, so a marker may be written into a      *)
(* directory that is being emptied.  What is kept is that a directory      *)
(* without its index has a deletion that has not returned                  *)
(* (EmptiedByDeletion): the deletion that returns takes the directory, and *)
(* with it the marker, away for good.                                      *)
(***************************************************************************)
EXTENDS DemoStore, TLAPS

\* The chain holds a call once, and only while it waits or sweeps.
ChainIsOpen ==
  /\ \A i, j \in 1..Len(queue) : queue[i] = queue[j] => i = j
  /\ \A i \in 1..Len(queue) : at[queue[i]] \in {"waiting", "sweep"}

\* The call that sweeps is at the head.
TurnsAreExclusive ==
  \A c \in Calls : at[c] = "sweep" => queue # <<>> /\ Head(queue) = c

SweptBehind ==
  \A c \in Calls : at[c] = "sweep" => Onboarded \subseteq {run[c]} \cup todo[c]

IInv == TypeOK /\ ChainIsOpen /\ TurnsAreExclusive /\ SweptBehind /\ AtMostOneOnboarded

-----------------------------------------------------------------------------
LEMMA InitIInv == Init => IInv
BY BoundsAssumption, SMT
  DEF Init, IInv, TypeOK, ChainIsOpen, TurnsAreExclusive, SweptBehind, AtMostOneOnboarded,
      Onboarded, Location, Methods, Over, Files

\* A step beside the chain that adds no marker and takes no call into or out of the
\* chain leaves the section closed.
LEMMA Apart ==
  ASSUME IInv, TypeOK', UNCHANGED <<queue, run, todo>>, Onboarded' \subseteq Onboarded,
         NEW c \in Calls, at[c] \notin {"waiting", "sweep"}, NEW location,
         location \notin {"waiting", "sweep"}, Goto(c, location)
  PROVE  IInv'
<1>1. /\ at'[c] \notin {"waiting", "sweep"}
      /\ \A other \in Calls : other # c => at'[other] = at[other]
  BY SMT DEF IInv, TypeOK, Goto
<1>2. ChainIsOpen'
  BY <1>1, SMT DEF IInv, TypeOK, ChainIsOpen
<1>3. TurnsAreExclusive'
  BY <1>1, SMT DEF IInv, TurnsAreExclusive
<1>4. SweptBehind'
  BY <1>1, SMT DEF IInv, SweptBehind
<1>5. QED
  BY <1>2, <1>3, <1>4, SMT DEF IInv, AtMostOneOnboarded

\* So does one that moves no call.
LEMMA Idle ==
  ASSUME IInv, TypeOK', UNCHANGED <<queue, asked, at, todo>>, Onboarded' \subseteq Onboarded
  PROVE  IInv'
BY SMT DEF IInv, ChainIsOpen, TurnsAreExclusive, SweptBehind, AtMostOneOnboarded, asked

\* The call at the head leaves the chain, having put no marker beside its own.
LEMMA LeaveStep ==
  ASSUME IInv, TypeOK', NEW c \in Calls, NEW outcome \in Over,
         ItsTurn(c), Leave(c, outcome), AtMostOneOnboarded'
  PROVE  IInv'
<1>1. /\ queue \in Seq(Calls) /\ queue # <<>> /\ queue[1] = c
      /\ queue' = Tail(queue) /\ Len(queue') = Len(queue) - 1
      /\ \A i \in 1..Len(queue') : queue'[i] = queue[i + 1]
  BY SMT DEF IInv, TypeOK, Leave, Release, ItsTurn
<1>2. \A i \in 1..Len(queue') : queue'[i] # c
  BY <1>1, SMT DEF IInv, ChainIsOpen
<1>3. at'[c] = outcome /\ \A other \in Calls : other # c => at'[other] = at[other]
  BY SMT DEF IInv, TypeOK, Leave, Goto
<1>4. ChainIsOpen'
  BY <1>1, <1>2, <1>3, SMT DEF IInv, ChainIsOpen
<1>5. \A other \in Calls : at'[other] # "sweep"
  BY <1>1, <1>3, SMT DEF IInv, TurnsAreExclusive, Over
<1>6. QED
  BY <1>4, <1>5, SMT DEF IInv, TurnsAreExclusive, SweptBehind

-----------------------------------------------------------------------------
LEMMA TypeStep == IInv /\ [Next]_vars => TypeOK'
<1> SUFFICES ASSUME IInv, [Next]_vars PROVE TypeOK'
  OBVIOUS
<1> TypeOK
  BY DEF IInv
<1> USE BoundsAssumption DEF TypeOK, Budget, disk, asked, Goto, Location, Over, Methods
<1>1. CASE UNCHANGED vars
  BY <1>1, SMT DEF vars
<1>2. ASSUME NEW r \in Runs, CreateSnapshot(r) PROVE TypeOK'
  BY <1>2, SMT DEF CreateSnapshot, Files
<1>3. ASSUME NEW c \in Calls, NEW r \in Runs, NEW method \in Methods, Invoke(c, method, r)
      PROVE  TypeOK'
  BY <1>3, SMT DEF Invoke
<1>4. ASSUME NEW c \in Calls, CallStep(c) PROVE TypeOK'
  <2>1. CASE Exists(c)
    BY <2>1, SMT DEF Exists
  <2>2. CASE Chain(c)
    BY <2>2, SMT DEF Chain
  <2>3. CASE Enter(c)
    BY <2>3, SMT DEF Enter
  <2>4. CASE Sweep(c)
    BY <2>4, SMT DEF Sweep
  <2>5. CASE Mark(c)
    <3>1. queue # <<>>
      BY <2>5 DEF Mark, IInv, TurnsAreExclusive
    <3>2. files' \in [Runs -> SUBSET Files]
      BY <2>5, SMT DEF Mark, Files
    <3>3. \A r \in Runs \ directory' : files'[r] = {}
      BY <2>5, SMT DEF Mark
    <3>4. UNCHANGED <<directory, made, operation, run, faults, crashes>>
      BY <2>5 DEF Mark
    <3>5. queue' \in Seq(Calls)
      <4>1. Release
        BY <2>5 DEF Mark, Leave
      <4>2. QED
        BY <3>1, <4>1, SMT DEF Release
    <3>6. at' \in [Calls -> Location] /\ todo' \in [Calls -> SUBSET Runs]
      BY <2>5, SMT DEF Mark, Leave
    <3>7. \A other \in Calls : at'[other] = "none" \/ run'[other] \in Runs
      BY <2>5, <3>4, SMT DEF Mark, Leave
    <3>8. QED
      BY <3>2, <3>3, <3>4, <3>5, <3>6, <3>7, SMT
  <2>6. CASE OnboardFails(c)
    <3>1. queue # <<>>
      BY <2>6 DEF OnboardFails, ItsTurn, IInv, TurnsAreExclusive
    <3>2. QED
      BY <2>6, <3>1, SMT DEF OnboardFails, Leave, Release
  <2>7. CASE Offboard(c)
    BY <2>7, SMT DEF Offboard
  <2>8. CASE RemoveFile(c)
    BY <2>8, SMT DEF RemoveFile
  <2>9. CASE RemoveDirectory(c)
    BY <2>9, SMT DEF RemoveDirectory
  <2>10. QED
    BY <1>4, <2>1, <2>2, <2>3, <2>4, <2>5, <2>6, <2>7, <2>8, <2>9 DEF CallStep
<1>5. CASE Crash
  BY <1>5, SMT DEF Crash
<1>6. QED
  BY <1>1, <1>2, <1>3, <1>4, <1>5 DEF Next

LEMMA CallIInv ==
  ASSUME IInv, TypeOK', NEW c \in Calls, CallStep(c)
  PROVE  IInv'
<1> TypeOK
  BY DEF IInv
<1>1. CASE Exists(c)
  <2>1. PICK location \in {"chain", "returned"} : Goto(c, location)
    BY <1>1 DEF Exists
  <2>2. Onboarded' \subseteq Onboarded
    BY <1>1 DEF Exists, Onboarded, disk
  <2>3. QED
    BY <1>1, <2>1, <2>2, Apart DEF Exists, asked
<1>2. CASE Chain(c)
  <2>1. queue' = Append(queue, c) /\ queue \in Seq(Calls)
    BY <1>2 DEF Chain, TypeOK
  <2>2. /\ Len(queue') = Len(queue) + 1 /\ queue'[Len(queue) + 1] = c
        /\ \A i \in 1..Len(queue) : queue'[i] = queue[i]
    BY <2>1, SMT
  <2>3. /\ at'[c] = "waiting" /\ \A other \in Calls : other # c => at'[other] = at[other]
        /\ UNCHANGED <<run, todo>> /\ Onboarded' = Onboarded
    BY <1>2, SMT DEF Chain, TypeOK, Goto, asked, disk, Onboarded
  <2>4. \A i \in 1..Len(queue) : queue[i] \in Calls /\ queue[i] # c
    BY <1>2, <2>1, SMT DEF Chain, IInv, ChainIsOpen
  <2>5. ChainIsOpen'
    BY <2>1, <2>2, <2>3, <2>4, SMT DEF IInv, ChainIsOpen
  <2>6. TurnsAreExclusive'
    BY <2>1, <2>2, <2>3, SMT DEF IInv, TurnsAreExclusive
  <2>7. SweptBehind'
    BY <2>3, SMT DEF IInv, SweptBehind
  <2>8. QED
    BY <2>3, <2>5, <2>6, <2>7, SMT DEF IInv, AtMostOneOnboarded
<1>3. CASE Enter(c)
  <2>1. UNCHANGED <<queue, run>> /\ Onboarded' = Onboarded /\ ItsTurn(c)
    BY <1>3 DEF Enter, Onboarded, asked, disk
  <2>2. /\ at'[c] = "sweep" /\ todo'[c] = Runs \ {run[c]}
        /\ \A other \in Calls : other # c => at'[other] = at[other] /\ todo'[other] = todo[other]
    BY <1>3, SMT DEF Enter, TypeOK, Goto
  <2>3. ChainIsOpen'
    <3>1. \A i \in 1..Len(queue) : queue[i] \in Calls
      BY SMT DEF TypeOK
    <3>2. QED
      BY <2>1, <2>2, <3>1, SMT DEF IInv, ChainIsOpen
  <2>4. TurnsAreExclusive'
    BY <2>1, <2>2, SMT DEF IInv, TurnsAreExclusive, ItsTurn
  <2>5. SweptBehind'
    BY <2>1, <2>2, SMT DEF IInv, SweptBehind, Onboarded
  <2>6. QED
    BY <2>1, <2>3, <2>4, <2>5, SMT DEF IInv, AtMostOneOnboarded
<1>4. CASE Sweep(c)
  <2>1. PICK other \in todo[c] : /\ files' = [files EXCEPT ![other] = @ \ {"marker"}]
                                 /\ todo' = [todo EXCEPT ![c] = @ \ {other}]
    BY <1>4 DEF Sweep
  <2>2. UNCHANGED <<queue, run, at>> /\ Onboarded' = Onboarded \ {other}
    BY <1>4, <2>1, SMT DEF Sweep, TypeOK, Onboarded, asked
  <2>3. ChainIsOpen' /\ TurnsAreExclusive'
    BY <2>2, SMT DEF IInv, ChainIsOpen, TurnsAreExclusive
  <2>4. SweptBehind'
    BY <2>1, <2>2, SMT DEF IInv, SweptBehind, TypeOK
  <2>5. QED
    BY <2>2, <2>3, <2>4, SMT DEF IInv, AtMostOneOnboarded
<1>5. CASE Mark(c)
  <2>1. ItsTurn(c)
    BY <1>5 DEF Mark, IInv, TurnsAreExclusive, ItsTurn
  <2>2. Onboarded' \subseteq {run[c]}
    BY <1>5, SMT DEF Mark, IInv, SweptBehind, Onboarded, TypeOK
  <2>3. AtMostOneOnboarded'
    BY <2>2, SMT DEF AtMostOneOnboarded
  <2>4. Leave(c, "returned") \/ Leave(c, "threw")
    BY <1>5 DEF Mark
  <2>5. QED
    BY <2>1, <2>3, <2>4, LeaveStep DEF Over
<1>6. CASE OnboardFails(c)
  <2>1. ItsTurn(c) /\ Leave(c, "threw")
    BY <1>6 DEF OnboardFails, IInv, TurnsAreExclusive, ItsTurn
  <2>2. AtMostOneOnboarded'
    BY <1>6 DEF OnboardFails, IInv, AtMostOneOnboarded, Onboarded, disk
  <2>3. QED
    BY <2>1, <2>2, LeaveStep DEF Over
<1>7. CASE Offboard(c)
  <2>1. Onboarded' \subseteq Onboarded
    BY <1>7, SMT DEF Offboard, Onboarded, TypeOK
  <2>2. QED
    BY <1>7, <2>1, Apart DEF Offboard, asked
<1>8. CASE RemoveFile(c)
  <2>1. Onboarded' \subseteq Onboarded
    BY <1>8, SMT DEF RemoveFile, Onboarded, TypeOK
  <2>2. QED
    BY <1>8, <2>1, Idle DEF RemoveFile
<1>9. CASE RemoveDirectory(c)
  <2>1. PICK location \in {"returned", "threw"} : Goto(c, location)
    BY <1>9 DEF RemoveDirectory
  <2>2. QED
    BY <1>9, <2>1, Apart DEF RemoveDirectory, Onboarded, asked
<1>10. QED
  BY <1>1, <1>2, <1>3, <1>4, <1>5, <1>6, <1>7, <1>8, <1>9 DEF CallStep

LEMMA NextIInv == IInv /\ [Next]_vars => IInv'
<1> SUFFICES ASSUME IInv, [Next]_vars PROVE IInv'
  OBVIOUS
<1> TypeOK /\ TypeOK'
  BY TypeStep DEF IInv
<1>1. CASE UNCHANGED vars
  BY <1>1, Idle DEF vars, disk, Onboarded
<1>2. ASSUME NEW r \in Runs, CreateSnapshot(r) PROVE IInv'
  <2>1. Onboarded' \subseteq Onboarded
    BY <1>2, SMT DEF CreateSnapshot, Onboarded, TypeOK
  <2>2. QED
    BY <1>2, <2>1, Idle DEF CreateSnapshot
<1>3. ASSUME NEW c \in Calls, NEW r \in Runs, NEW method \in Methods, Invoke(c, method, r)
      PROVE  IInv'
  <2>1. /\ UNCHANGED <<queue, todo>> /\ Onboarded' = Onboarded
        /\ at[c] = "none" /\ at'[c] \notin {"waiting", "sweep"}
        /\ \A other \in Calls : other # c => at'[other] = at[other] /\ run'[other] = run[other]
    BY <1>3, SMT DEF Invoke, Goto, Onboarded, disk, TypeOK, Methods
  <2>2. ChainIsOpen'
    BY <2>1, SMT DEF IInv, ChainIsOpen, TypeOK
  <2>3. TurnsAreExclusive'
    BY <2>1, SMT DEF IInv, TurnsAreExclusive
  <2>4. SweptBehind'
    BY <2>1, SMT DEF IInv, SweptBehind
  <2>5. QED
    BY <2>1, <2>2, <2>3, <2>4, SMT DEF IInv, AtMostOneOnboarded
<1>4. ASSUME NEW c \in Calls, CallStep(c) PROVE IInv'
  BY <1>4, CallIInv
<1>5. CASE Crash
  <2>1. queue' = <<>> /\ Onboarded' = Onboarded /\ \A c \in Calls : at'[c] # "sweep"
    BY <1>5, SMT DEF Crash, disk, Onboarded, Over
  <2>2. QED
    BY <2>1, SMT DEF IInv, ChainIsOpen, TurnsAreExclusive, SweptBehind, AtMostOneOnboarded
<1>6. QED
  BY <1>1, <1>2, <1>3, <1>4, <1>5 DEF Next

LEMMA Invariance == Spec => []IInv
BY InitIInv, NextIInv, PTL DEF Spec

-----------------------------------------------------------------------------
\* The store's files and the calls on them keep their shape: nothing is in a demo
\* directory that does not exist.
THEOREM TypeCorrect == Spec => []TypeOK
<1>1. IInv => TypeOK
  BY DEF IInv
<1>2. QED
  BY <1>1, Invariance, PTL

\* The active demo is unique, which is what the promise chain of onboard is for.
THEOREM ActiveDemoIsUnique == Spec => []AtMostOneOnboarded
<1>1. IInv => AtMostOneOnboarded
  BY DEF IInv
<1>2. QED
  BY <1>1, Invariance, PTL

-----------------------------------------------------------------------------
(* Where a call is tells what it was asked.                                *)
TakenAsAsked ==
  \A c \in Calls :
    /\ at[c] = "none" => operation[c] = "none"
    /\ at[c] \in {"chain", "waiting", "sweep"} => operation[c] = "onboard"
    /\ at[c] \in Methods => operation[c] = at[c]

\* Call c was asked to delete r and has not done so.
Deleting(c, r) == operation[c] = "delete" /\ run[c] = r /\ at[c] # "returned"

EmptiedByDeletion ==
  \A r \in directory : "index" \in files[r] \/ \E c \in Calls : Deleting(c, r)

WholeInv == TakenAsAsked /\ EmptiedByDeletion

\* A deletion stays until it returns; a call made anew is not one yet.
LEMMA DeletionStays ==
  ASSUME TypeOK, WholeInv, NEW c \in Calls, NEW r \in Runs, Deleting(c, r), [Next]_vars,
         r \in directory'
  PROVE  Deleting(c, r)' \/ "index" \in files'[r]
<1>1. at[c] \notin {"none", "onboard", "offboard", "chain", "waiting", "sweep", "returned"}
  BY DEF WholeInv, TakenAsAsked, Deleting, Methods
<1>2. CASE UNCHANGED vars
  BY <1>2 DEF vars, asked, Deleting
<1>3. ASSUME NEW q \in Runs, CreateSnapshot(q) PROVE Deleting(c, r)'
  BY <1>3 DEF CreateSnapshot, asked, Deleting
<1>4. ASSUME NEW d \in Calls, NEW q \in Runs, NEW method \in Methods, Invoke(d, method, q)
      PROVE  Deleting(c, r)'
  BY <1>1, <1>4 DEF Invoke, Goto, Deleting, TypeOK
<1>5. ASSUME NEW d \in Calls, CallStep(d) PROVE Deleting(c, r)'
  <2>1. UNCHANGED asked
    BY <1>5 DEF CallStep, Exists, Chain, Enter, Sweep, Mark, OnboardFails, Offboard,
                RemoveFile, RemoveDirectory
  <2>2. CASE d # c
    <3>1. at'[c] = at[c]
      <4>1. UNCHANGED at \/ \E location : Goto(d, location)
        BY <1>5 DEF CallStep, Exists, Chain, Enter, Sweep, Mark, OnboardFails, Offboard,
                    RemoveFile, RemoveDirectory, Leave
      <4> QED BY <2>2, <4>1 DEF Goto, TypeOK
    <3> QED BY <2>1, <3>1 DEF Deleting, asked
  <2>3. CASE d = c
    <3>1. RemoveFile(c) \/ RemoveDirectory(c)
      BY <1>1, <1>5, <2>3 DEF CallStep, Exists, Chain, Enter, Sweep, Mark, OnboardFails, Offboard
    <3>2. CASE RemoveFile(c)
      BY <2>1, <3>2 DEF RemoveFile, Deleting, asked
    <3>3. CASE RemoveDirectory(c)
      <4>1. run[c] = r
        BY DEF Deleting
      <4>2. Goto(c, "threw")
        BY <3>3, <4>1 DEF RemoveDirectory
      <4> QED BY <2>1, <4>2 DEF Deleting, Goto, TypeOK, asked
    <3> QED BY <3>1, <3>2, <3>3
  <2> QED BY <2>2, <2>3
<1>6. CASE Crash
  BY <1>6 DEF Crash, Deleting, asked
<1> QED BY <1>2, <1>3, <1>4, <1>5, <1>6 DEF Next

LEMMA TakenAsAskedStep ==
  ASSUME TypeOK, TakenAsAsked, [Next]_vars
  PROVE  TakenAsAsked'
<1>1. CASE UNCHANGED vars
  BY <1>1 DEF vars, asked, TakenAsAsked
<1>2. ASSUME NEW q \in Runs, CreateSnapshot(q) PROVE TakenAsAsked'
  BY <1>2 DEF CreateSnapshot, asked, TakenAsAsked
<1>3. ASSUME NEW d \in Calls, NEW q \in Runs, NEW method \in Methods, Invoke(d, method, q)
      PROVE  TakenAsAsked'
  BY <1>3 DEF Invoke, Goto, TakenAsAsked, TypeOK, Methods
<1>4. ASSUME NEW d \in Calls, CallStep(d) PROVE TakenAsAsked'
  <2>1. UNCHANGED asked
    BY <1>4 DEF CallStep, Exists, Chain, Enter, Sweep, Mark, OnboardFails, Offboard,
                RemoveFile, RemoveDirectory
  <2>2. \/ UNCHANGED at
        \/ \E location \in Over : Goto(d, location)
        \/ /\ at[d] \in {"onboard", "chain", "waiting"}
           /\ \E location \in {"chain", "waiting", "sweep"} : Goto(d, location)
    BY <1>4 DEF CallStep, Exists, Chain, Enter, Sweep, Mark, OnboardFails, Offboard,
                RemoveFile, RemoveDirectory, Leave, Over
  <2> QED BY <2>1, <2>2 DEF TakenAsAsked, Goto, TypeOK, asked, Over, Methods
<1>5. CASE Crash
  BY <1>5 DEF Crash, TakenAsAsked, asked, Over, Methods
<1> QED BY <1>1, <1>2, <1>3, <1>4, <1>5 DEF Next

LEMMA WholeStep ==
  ASSUME TypeOK, WholeInv, [Next]_vars
  PROVE  WholeInv'
<1>1. TakenAsAsked'
  BY TakenAsAskedStep DEF WholeInv
<1>2. ASSUME NEW r \in directory', ~\E c \in Calls : Deleting(c, r)'
      PROVE  "index" \in files'[r]
  <2>1. (r \in directory /\ r \in Runs) \/ (\E q \in Runs : CreateSnapshot(q) /\ r = q)
    BY DEF TypeOK, Next, vars, disk, CreateSnapshot, Invoke, CallStep, Exists, Chain, Enter, Sweep,
           Mark, OnboardFails, Offboard, RemoveFile, RemoveDirectory, Crash
  <2>2. ASSUME NEW q \in Runs, CreateSnapshot(q), r = q PROVE "index" \in files'[r]
    BY <2>2 DEF CreateSnapshot, TypeOK
  <2>3. CASE r \in directory /\ r \in Runs
    <3>1. CASE \E c \in Calls : Deleting(c, r)
      BY <1>2, <2>3, <3>1, DeletionStays
    <3>2. CASE "index" \in files[r]
      <4>1. CASE \E c \in Calls : RemoveFile(c) /\ run[c] = r
        <5>1. PICK c \in Calls : RemoveFile(c) /\ run[c] = r
          BY <4>1
        <5>2. at[c] = "delete" /\ UNCHANGED <<operation, run, at>>
          BY <5>1 DEF RemoveFile, asked
        <5>3. Deleting(c, r)'
          BY <5>1, <5>2 DEF Deleting, WholeInv, TakenAsAsked, Methods
        <5> QED BY <1>2, <5>3
      <4>2. CASE ~\E c \in Calls : RemoveFile(c) /\ run[c] = r
        <5>1. CASE UNCHANGED vars \/ Crash \/ \E q \in Runs : CreateSnapshot(q)
          BY <3>2, <5>1 DEF vars, disk, Crash, CreateSnapshot, TypeOK
        <5>2. ASSUME NEW c \in Calls, NEW q \in Runs, NEW method \in Methods, Invoke(c, method, q)
              PROVE  "index" \in files'[r]
          BY <3>2, <5>2 DEF Invoke, disk
        <5>3. ASSUME NEW c \in Calls, CallStep(c), ~RemoveFile(c)
              PROVE  "index" \in files'[r]
          BY <2>3, <3>2, <5>3 DEF CallStep, Exists, Chain, Enter, Sweep, Mark, OnboardFails, Offboard,
             RemoveDirectory, disk, TypeOK
        <5>4. ASSUME NEW c \in Calls, RemoveFile(c), run[c] # r PROVE "index" \in files'[r]
          BY <2>3, <3>2, <5>4 DEF RemoveFile, TypeOK
        <5> QED BY <4>2, <5>1, <5>2, <5>3, <5>4 DEF Next
      <4> QED BY <4>1, <4>2
    <3> QED BY <2>3, <3>1, <3>2 DEF WholeInv, EmptiedByDeletion
  <2> QED BY <2>1, <2>2, <2>3
<1> QED BY <1>1, <1>2 DEF WholeInv, EmptiedByDeletion

\* A marker is found without the snapshot it activates only beside a deletion that is
\* at work or was cut short: no interleaving of the other calls leaves one.
THEOREM MarkersAreOfWholeDemos == Spec => []OnboardedDemoIsWhole
<1>1. Init => WholeInv
  BY DEF Init, WholeInv, TakenAsAsked, EmptiedByDeletion, Methods
<1>2. TypeOK /\ WholeInv => OnboardedDemoIsWhole
  BY DEF TypeOK, WholeInv, EmptiedByDeletion, OnboardedDemoIsWhole, Onboarded, Deleting
<1> QED BY <1>1, <1>2, WholeStep, TypeCorrect, PTL DEF Spec
=============================================================================
