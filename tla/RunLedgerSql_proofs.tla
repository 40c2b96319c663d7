------------------------ MODULE RunLedgerSql_proofs ------------------------
(***************************************************************************)
(* The SQL functions keep the promises of the in-memory stores, for any    *)
(* tenants, runs, keys, branches and sessions.                             *)
(*                                                                         *)
(* A transaction that has read a run for writing holds the run's row lock, *)
(* so what it has read is still what is committed (Held): the sequence it  *)
(* writes is the next one, the generation it replaces the current one.     *)
(* The sequences of a run are therefore 1, 2, ... without a gap and each   *)
(* key is used once (Numbered), and the i-th row is the one with i - 1     *)
(* rows below it, which is how the refinement of RunLedger reads the rows  *)
(* in order (Listed).                                                      *)
(***************************************************************************)
EXTENDS RunLedgerSql, FiniteSetTheorems, FunctionTheorems, SequenceTheorems, TLAPS

Writing == {"reading", "inserting", "inserted", "updated"}

Sequences(r) == {e.sequence : e \in RowsOf(r)}

\* The sequences of a run have no gap; a sequence and a key name one row.
Numbered ==
  /\ \A r \in Runs : \E n \in Nat : Sequences(r) = 1..n
  /\ \A e, f \in rows : Clashes(e, f) => e = f

\* What a transaction has read before it writes is still so, and its lock sees to it.
Held(s) ==
  /\ session[s].pc \in Writing => rowLock[RunOf(s)] = s
  /\ session[s].pc \in {"inserting", "inserted"} =>
       /\ Sequences(RunOf(s)) = 1..(session[s].next - 1)
       /\ session[s].call.expected \in {None, session[s].next}
  /\ session[s].pc = "inserted" => \A e \in RowsOf(RunOf(s)) : ~Clashes(NewRow(s), e)
  /\ session[s].pc = "updated" => Selects(session[s].call)

\* No session was ever told of a sequence that another took.
NeverTurnedAway == \A s \in Sessions : session[s].result # "duplicate_sequence"

\* The generation of a run counts its swaps.
SwapsAreCounted == \A r \in Runs : pointer[r].generation = Len(swaps[r])

IInv ==
  TypeOK /\ Numbered /\ (\A s \in Sessions : Held(s)) /\ NeverTurnedAway /\ SwapsAreCounted

-----------------------------------------------------------------------------
(* The last sequence of a run, and its rows in order.                      *)

LEMMA LastOfNumbered ==
  ASSUME NEW r, NEW n \in Nat, Sequences(r) = 1..n
  PROVE  LastSequence(r) = n
<1>1. CASE n = 0
  <2>1. RowsOf(r) = {}
    <3>1. \A e \in RowsOf(r) : e.sequence \in 1..n
      BY DEF Sequences
    <3> QED BY <1>1, <3>1
  <2> QED BY <1>1, <2>1 DEF LastSequence
<1>2. CASE n # 0
  <2>1. RowsOf(r) # {} /\ n \in Sequences(r)
    BY <1>2 DEF Sequences
  <2>2. \A e \in RowsOf(r) : e.sequence \in 1..n
    BY DEF Sequences
  <2>3. \A m \in Sequences(r) : (\A e \in RowsOf(r) : e.sequence <= m) <=> m = n
    <3>1. ASSUME NEW m \in Sequences(r), \A e \in RowsOf(r) : e.sequence <= m PROVE m = n
      <4>1. PICK e \in RowsOf(r) : e.sequence = n
        BY <2>1 DEF Sequences
      <4> QED BY <3>1, <4>1
    <3>2. \A e \in RowsOf(r) : e.sequence <= n
      BY <2>2
    <3> QED BY <3>1, <3>2
  <2>4. LastSequence(r) = CHOOSE m \in Sequences(r) : \A e \in RowsOf(r) : e.sequence <= m
    BY <2>1 DEF LastSequence, Sequences
  <2> QED BY <2>1, <2>3, <2>4
<1> QED BY <1>1, <1>2

\* Row e of a set of rows, as RunLedger keeps it.
Kept(e) == [key |-> e.key, expected |-> e.expected]

Below(R, f) == {g \in R : g.sequence < f.sequence}

RowAt(R, i) == CHOOSE f \in R : Cardinality(Below(R, f)) = i - 1

\* InOrder of any set of rows.
Listed(R) == [i \in 1..Cardinality(R) |-> Kept(RowAt(R, i))]

Dense(R, n) ==
  /\ n \in Nat /\ {e.sequence : e \in R} = 1..n
  /\ \A e, f \in R : e.sequence = f.sequence => e = f

\* A set of rows numbered up to n has n rows.
LEMMA DenseCount ==
  ASSUME NEW R, NEW n, Dense(R, n)
  PROVE  IsFiniteSet(R) /\ Cardinality(R) = n
<1> DEFINE f == [e \in R |-> e.sequence]
<1>1. f \in Bijection(R, 1..n)
  <2>1. f \in [R -> 1..n] /\ \A e \in R : f[e] = e.sequence
    BY DEF Dense
  <2> HIDE DEF f
  <2>2. IsInjective(f)
    BY <2>1 DEF IsInjective, Dense
  <2>3. \A i \in 1..n : \E e \in R : f[e] = i
    BY <2>1 DEF Dense
  <2> QED BY <2>1, <2>2, <2>3 DEF Bijection, Injection, Surjection
<1> HIDE DEF f
<1>2. ExistsBijection(1..n, R)
  <2>1. ExistsBijection(R, 1..n)
    BY <1>1 DEF ExistsBijection
  <2> QED BY <2>1, Fun_ExistsBijSymmetric
<1>3. n \in Nat
  BY DEF Dense
<1> QED BY <1>2, <1>3, FS_CountingElements, FS_NatBijection

LEMMA BelowCount ==
  ASSUME NEW R, NEW n, Dense(R, n), NEW f \in R
  PROVE  Cardinality(Below(R, f)) = f.sequence - 1
<1> DEFINE B == Below(R, f)
<1>1. f.sequence \in 1..n /\ n \in Nat
  BY DEF Dense
<1>2. {e.sequence : e \in B} = 1..(f.sequence - 1)
  <2>1. \A e \in R : e.sequence \in 1..n
    BY DEF Dense
  <2>2. ASSUME NEW i \in 1..(f.sequence - 1) PROVE \E e \in B : i = e.sequence
    <3>1. i \in 1..n
      BY <1>1
    <3>2. PICK e \in R : e.sequence = i
      BY <3>1 DEF Dense
    <3> QED BY <1>1, <3>2 DEF Below
  <2> QED BY <1>1, <2>1, <2>2 DEF Below
<1>3. Dense(B, f.sequence - 1)
  BY <1>1, <1>2 DEF Dense, Below
<1> QED BY <1>3, DenseCount

LEMMA ListedInOrder ==
  ASSUME NEW R, NEW n, Dense(R, n)
  PROVE  /\ DOMAIN Listed(R) = 1..n /\ Listed(R) = [i \in 1..n |-> Listed(R)[i]]
         /\ \A e \in R : Listed(R)[e.sequence] = Kept(e)
<1>1. Cardinality(R) = n /\ n \in Nat
  BY DenseCount DEF Dense
<1>2. ASSUME NEW e \in R PROVE Listed(R)[e.sequence] = Kept(e)
  <2>1. e.sequence \in 1..n
    BY DEF Dense
  <2>2. \A f \in R : Cardinality(Below(R, f)) = e.sequence - 1 <=> f = e
    <3>1. \A f \in R : Cardinality(Below(R, f)) = f.sequence - 1 /\ f.sequence \in 1..n
      BY BelowCount DEF Dense
    <3> QED BY <2>1, <3>1 DEF Dense
  <2>3. RowAt(R, e.sequence) = e
    BY <2>2 DEF RowAt
  <2> QED BY <1>1, <2>1, <2>3 DEF Listed
<1> QED BY <1>1, <1>2 DEF Listed

\* A row numbered next is listed last.
LEMMA ListedNext ==
  ASSUME NEW R, NEW n, Dense(R, n), NEW e, e.sequence = n + 1,
         \A f \in R : Kept(f) \in [key : Keys, expected : Expectations \cup {None}],
         Kept(e) \in [key : Keys, expected : Expectations \cup {None}]
  PROVE  /\ Dense(R \cup {e}, n + 1)
         /\ Listed(R) \in Seq([key : Keys, expected : Expectations \cup {None}])
         /\ Len(Listed(R)) = n
         /\ Listed(R \cup {e}) = Append(Listed(R), Kept(e))
<1> DEFINE K == [key : Keys, expected : Expectations \cup {None}]
           Q == R \cup {e}
<1>1. /\ n \in Nat /\ {f.sequence : f \in R} = 1..n
      /\ \A f, g \in R : f.sequence = g.sequence => f = g
  BY DEF Dense
<1>2. \A f \in R : f.sequence \in 1..n
  BY <1>1
<1>3. Dense(Q, n + 1)
  <2>1. {f.sequence : f \in Q} = {f.sequence : f \in R} \cup {e.sequence}
    OBVIOUS
  <2>2. {f.sequence : f \in Q} = 1..(n + 1)
    BY <1>1, <2>1
  <2>3. \A f, g \in Q : f.sequence = g.sequence => f = g
    BY <1>1, <1>2
  <2> QED BY <1>1, <2>2, <2>3 DEF Dense
<1>4. /\ DOMAIN Listed(R) = 1..n /\ \A f \in R : Listed(R)[f.sequence] = Kept(f)
      /\ DOMAIN Listed(Q) = 1..(n + 1) /\ \A f \in Q : Listed(Q)[f.sequence] = Kept(f)
  BY <1>3, ListedInOrder
<1>5. \A i \in 1..n : Listed(R)[i] \in K /\ Listed(Q)[i] = Listed(R)[i]
  <2>1. ASSUME NEW i \in 1..n PROVE Listed(R)[i] \in K /\ Listed(Q)[i] = Listed(R)[i]
    <3>1. PICK f \in R : f.sequence = i
      BY <1>1
    <3> QED BY <1>4, <3>1
  <2> QED BY <2>1
<1>6. Listed(Q)[n + 1] = Kept(e)
  BY <1>4
<1>7. Listed(R) = [i \in 1..n |-> Listed(R)[i]] /\ Listed(Q) = [i \in 1..(n + 1) |-> Listed(Q)[i]]
  BY <1>3, ListedInOrder
<1> HIDE DEF K, Q
<1>8. Listed(R) \in Seq(K) /\ Len(Listed(R)) = n
  <2>1. Listed(R) \in [1..n -> K]
    BY <1>5, <1>7
  <2> QED BY <1>1, <2>1
<1>9. Listed(Q) = Append(Listed(R), Kept(e))
  <2>1. Kept(e) \in K
    BY DEF K
  <2>2. /\ Append(Listed(R), Kept(e)) \in Seq(K) /\ Len(Append(Listed(R), Kept(e))) = n + 1
        /\ \A i \in 1..n : Append(Listed(R), Kept(e))[i] = Listed(R)[i]
        /\ Append(Listed(R), Kept(e))[n + 1] = Kept(e)
    BY <1>1, <1>8, <2>1
  <2>3. Listed(Q) \in [1..(n + 1) -> K]
    <3>1. \A i \in 1..(n + 1) : Listed(Q)[i] \in K
      BY <1>1, <1>5, <1>6, <2>1
    <3> QED BY <1>7, <3>1
  <2>4. Listed(Q) \in Seq(K) /\ Len(Listed(Q)) = n + 1
    BY <1>1, <2>3
  <2>5. \A i \in 1..(n + 1) : Listed(Q)[i] = Append(Listed(R), Kept(e))[i]
    BY <1>1, <1>5, <1>6, <2>2
  <2> QED BY <2>2, <2>4, <2>5, SeqEqual
<1> QED BY <1>3, <1>8, <1>9 DEF K, Q

-----------------------------------------------------------------------------
(* The steps of the sessions.                                              *)

LEMMA InitIInv == Init => IInv
<1> SUFFICES ASSUME Init PROVE IInv
  OBVIOUS
<1>1. TypeOK
  BY MaxCallsAssumption DEF Init, TypeOK, AtAppend, AtPromote
<1>2. Numbered
  <2>1. \A r \in Runs : Sequences(r) = 1..0
    BY DEF Init, Sequences, RowsOf
  <2> QED BY <2>1 DEF Init, Numbered
<1>3. \A s \in Sessions : Held(s)
  BY DEF Init, Held, Writing
<1> QED BY <1>1, <1>2, <1>3 DEF Init, IInv, NeverTurnedAway, SwapsAreCounted

\* A session in a transaction works for a call on some run.
LEMMA InCall ==
  ASSUME TypeOK, NEW s \in Sessions
  PROVE  /\ session[s].pc \in AtAppend => /\ session[s].call \in AppendCall
                                          /\ session[s].call.run \in Runs
         /\ session[s].pc \in AtPromote => /\ session[s].call \in PromoteCall
                                           /\ session[s].call.run \in Runs
BY DEF TypeOK, AppendCall, PromoteCall

\* What a transaction has read stays while its run is locked.
LEMMA HeldStays ==
  ASSUME TypeOK, NEW o \in Sessions, Held(o), session'[o] = session[o],
         session[o].pc \in Writing =>
           /\ rowLock'[RunOf(o)] = rowLock[RunOf(o)]
           /\ RowsOf(RunOf(o))' = RowsOf(RunOf(o))
           /\ pointer'[RunOf(o)] = pointer[RunOf(o)]
           /\ branches[RunOf(o)] \subseteq branches'[RunOf(o)]
  PROVE  Held(o)'
<1>1. CASE session[o].pc \notin Writing
  BY <1>1 DEF Held, Writing
<1>2. CASE session[o].pc \in Writing
  <2>1. /\ rowLock'[RunOf(o)] = rowLock[RunOf(o)] /\ RowsOf(RunOf(o))' = RowsOf(RunOf(o))
        /\ pointer'[RunOf(o)] = pointer[RunOf(o)] /\ branches[RunOf(o)] \subseteq branches'[RunOf(o)]
        /\ RunOf(o)' = RunOf(o)
    BY <1>2 DEF RunOf
  <2>2. Sequences(RunOf(o))' = Sequences(RunOf(o))
    BY <2>1 DEF Sequences
  <2>3. NewRow(o)' = NewRow(o)
    BY <2>1 DEF NewRow
  <2>4. Selects(session[o].call) => Selects(session[o].call)'
    BY <2>1 DEF Selects, RunOf
  <2> QED BY <2>1, <2>2, <2>3, <2>4 DEF Held
<1> QED BY <1>1, <1>2

\* One session moves; it writes only into a run it has locked, and takes no lock that
\* another holds.
LEMMA OneMoves ==
  ASSUME IInv, NEW s \in Sessions, TypeOK', Numbered', NeverTurnedAway', SwapsAreCounted',
         Held(s)',
         \A o \in Sessions \ {s} : session'[o] = session[o],
         \A r \in Runs : /\ rowLock[r] \notin {s, None} => rowLock'[r] = rowLock[r]
                         /\ rowLock[r] # s => /\ RowsOf(r)' = RowsOf(r)
                                              /\ pointer'[r] = pointer[r]
                         /\ branches[r] \subseteq branches'[r]
  PROVE  IInv'
<1>1. ASSUME NEW o \in Sessions \ {s} PROVE Held(o)'
  <2>1. session[o].pc \in Writing =>
           /\ rowLock'[RunOf(o)] = rowLock[RunOf(o)]
           /\ RowsOf(RunOf(o))' = RowsOf(RunOf(o))
           /\ pointer'[RunOf(o)] = pointer[RunOf(o)]
           /\ branches[RunOf(o)] \subseteq branches'[RunOf(o)]
    <3> SUFFICES ASSUME session[o].pc \in Writing
                 PROVE  /\ rowLock'[RunOf(o)] = rowLock[RunOf(o)]
                        /\ RowsOf(RunOf(o))' = RowsOf(RunOf(o))
                        /\ pointer'[RunOf(o)] = pointer[RunOf(o)]
                        /\ branches[RunOf(o)] \subseteq branches'[RunOf(o)]
      OBVIOUS
    <3>1. rowLock[RunOf(o)] = o /\ o # s /\ o # None
      BY NoneAssumption DEF IInv, Held
    <3>2. RunOf(o) \in Runs
      BY InCall DEF IInv, RunOf, Writing, AtAppend, AtPromote
    <3>3. session'[o] = session[o]
      OBVIOUS
    <3>4. RunOf(o)' = RunOf(o)
      BY <3>3 DEF RunOf
    <3>5. /\ rowLock'[RunOf(o)] = rowLock[RunOf(o)] /\ pointer'[RunOf(o)] = pointer[RunOf(o)]
          /\ branches[RunOf(o)] \subseteq branches'[RunOf(o)]
      BY <3>1, <3>2
    <3>6. RowsOf(RunOf(o))' = RowsOf(RunOf(o))
      <4>1. \A r \in Runs : rowLock[r] # s => {e \in rows' : e.run = r} = {e \in rows : e.run = r}
        BY DEF RowsOf
      <4>2. {e \in rows' : e.run = RunOf(o)} = {e \in rows : e.run = RunOf(o)}
        BY <3>1, <3>2, <4>1
      <4> QED BY <3>4, <4>2 DEF RowsOf
    <3> QED BY <3>5, <3>6
  <2>2. session'[o] = session[o] /\ Held(o) /\ TypeOK
    BY DEF IInv
  <2> QED BY <2>1, <2>2, HeldStays
<1> QED BY <1>1 DEF IInv

\* A transaction ends and leaves everything else as it was.
LEMMA RaiseStep ==
  ASSUME IInv, NEW s \in Sessions, NEW error \in Errors \ {"duplicate_sequence"}, Raise(s, error)
  PROVE  IInv'
<1>1. /\ UNCHANGED <<rows, branches, pointer, made, swaps>>
      /\ session' = [session EXCEPT ![s] = [pc |-> "idle", call |-> None, next |-> 0,
                                            result |-> error]]
      /\ rowLock' = [r \in Runs |-> IF rowLock[r] = s THEN None ELSE rowLock[r]]
  BY DEF Raise, End
<1>2. session'[s].pc = "idle" /\ session'[s].result = error
      /\ \A o \in Sessions \ {s} : session'[o] = session[o]
  BY <1>1 DEF IInv, TypeOK
<1>3. TypeOK'
  BY <1>1, <1>2 DEF IInv, TypeOK, AtAppend, AtPromote
<1>4. Numbered' /\ SwapsAreCounted'
  BY <1>1 DEF IInv, Numbered, SwapsAreCounted, Sequences, RowsOf
<1>5. NeverTurnedAway'
  BY <1>2 DEF IInv, NeverTurnedAway
<1>6. Held(s)'
  BY <1>2 DEF Held, Writing
<1>7. \A r \in Runs : /\ rowLock[r] \notin {s, None} => rowLock'[r] = rowLock[r]
                      /\ RowsOf(r)' = RowsOf(r) /\ pointer'[r] = pointer[r]
                      /\ branches[r] \subseteq branches'[r]
  BY <1>1 DEF RowsOf
<1> QED BY <1>2, <1>3, <1>4, <1>5, <1>6, <1>7, OneMoves

\* A session goes on to its next statement; it may take the lock of its run.
LEMMA GotoStep ==
  ASSUME IInv, NEW s \in Sessions, TypeOK', Held(s)', UNCHANGED <<rows, branches, pointer, swaps>>,
         \A o \in Sessions \ {s} : session'[o] = session[o], session'[s].result \in {session[s].result, "none"},
         UNCHANGED rowLock \/ TakeRowLock(s)
  PROVE  IInv'
<1>1. Numbered' /\ SwapsAreCounted' /\ NeverTurnedAway'
  BY DEF IInv, Numbered, SwapsAreCounted, NeverTurnedAway, Sequences, RowsOf
<1>2. \A r \in Runs : /\ rowLock[r] \notin {s, None} => rowLock'[r] = rowLock[r]
                      /\ RowsOf(r)' = RowsOf(r) /\ pointer'[r] = pointer[r]
                      /\ branches[r] \subseteq branches'[r]
  BY DEF RowsOf, TakeRowLock, IInv, TypeOK
<1> QED BY <1>1, <1>2, OneMoves

LEMMA BeginStep ==
  ASSUME IInv, NEW s \in Sessions, NEW c \in Call, Begin(s, c)
  PROVE  IInv'
<1>1. /\ session'[s] = [pc |-> IF c.op = "append" THEN "locking" ELSE "scanning", call |-> c,
                        next |-> 0, result |-> "none"]
      /\ \A o \in Sessions \ {s} : session'[o] = session[o]
      /\ UNCHANGED <<rows, branches, pointer, rowLock, swaps>>
  BY DEF Begin, IInv, TypeOK
<1>2. /\ c.op = "append" => c \in AppendCall
      /\ c.op # "append" => c \in PromoteCall
  BY DEF Call, AppendCall, PromoteCall
<1>3. TypeOK'
  <2>1. made' \in [Sessions -> 0 .. MaxCalls]
    BY MaxCallsAssumption DEF Begin, IInv, TypeOK
  <2>2. session' \in [Sessions -> [pc : {"idle"} \cup AtAppend \cup AtPromote,
                                   call : Call \cup {None}, next : Nat,
                                   result : {"none", "ok"} \cup Errors]]
    BY DEF Begin, IInv, TypeOK, AtAppend, AtPromote
  <2>3. \A o \in Sessions :
       /\ session'[o].pc \in AtAppend => session'[o].call \in AppendCall
       /\ session'[o].pc \in AtPromote => session'[o].call \in PromoteCall
       /\ session'[o].pc \in {"inserting", "inserted"} => session'[o].next > 0
    <3>1. ASSUME NEW o \in Sessions \ {s}
          PROVE  /\ session'[o].pc \in AtAppend => session'[o].call \in AppendCall
                 /\ session'[o].pc \in AtPromote => session'[o].call \in PromoteCall
                 /\ session'[o].pc \in {"inserting", "inserted"} => session'[o].next > 0
      BY <1>1 DEF IInv, TypeOK
    <3>2. CASE c.op = "append"
      <4>1. session'[s].pc = "locking" /\ session'[s].call = c
        BY <1>1, <3>2
      <4> QED BY <1>2, <3>1, <3>2, <4>1 DEF AtPromote
    <3>3. CASE c.op # "append"
      <4>1. session'[s].pc = "scanning" /\ session'[s].call = c
        BY <1>1, <3>3
      <4> QED BY <1>2, <3>1, <3>3, <4>1 DEF AtAppend
    <3> QED BY <3>2, <3>3
  <2> QED BY <1>1, <2>1, <2>2, <2>3 DEF IInv, TypeOK
<1>4. Held(s)'
  BY <1>1 DEF Held, Writing
<1>5. session'[s].result = "none"
  BY <1>1
<1> QED BY <1>1, <1>3, <1>4, <1>5, GotoStep

\* Goto keeps the call, and the types if the place is one of the same function.
LEMMA GotoTypes ==
  ASSUME TypeOK, NEW s \in Sessions, NEW pc, Goto(s, pc),
         \/ pc \in {"reading"} /\ session[s].pc = "locking"
         \/ pc \in {"inserted"} /\ session[s].pc = "inserting"
         \/ pc \in {"updating", "updated"} /\ session[s].pc \in AtPromote,
         UNCHANGED <<rows, branches, pointer, made, swaps>>,
         UNCHANGED rowLock \/ TakeRowLock(s)
  PROVE  /\ TypeOK' /\ session'[s] = [session[s] EXCEPT !.pc = pc]
         /\ session'[s].pc = pc /\ session'[s].call = session[s].call
         /\ session'[s].next = session[s].next /\ session'[s].result = session[s].result
         /\ \A o \in Sessions \ {s} : session'[o] = session[o]
<1> DEFINE S == [pc : {"idle"} \cup AtAppend \cup AtPromote,
                 call : Call \cup {None}, next : Nat, result : {"none", "ok"} \cup Errors]
<1>1. session \in [Sessions -> S] /\ session' = [session EXCEPT ![s] = [session[s] EXCEPT !.pc = pc]]
  BY DEF TypeOK, Goto
<1>2. pc \in {"idle"} \cup AtAppend \cup AtPromote
  BY DEF AtAppend, AtPromote
<1>3. /\ session'[s] = [session[s] EXCEPT !.pc = pc] /\ session'[s] \in S
      /\ session'[s].pc = pc /\ session'[s].call = session[s].call
      /\ session'[s].next = session[s].next /\ session'[s].result = session[s].result
      /\ \A o \in Sessions \ {s} : session'[o] = session[o]
  BY <1>1, <1>2
<1>4. session' \in [Sessions -> S]
  BY <1>1, <1>3
<1>5. \A o \in Sessions :
       /\ session'[o].pc \in AtAppend => session'[o].call \in AppendCall
       /\ session'[o].pc \in AtPromote => session'[o].call \in PromoteCall
       /\ session'[o].pc \in {"inserting", "inserted"} => session'[o].next > 0
  BY <1>3 DEF TypeOK, AtAppend, AtPromote
<1>6. rowLock' \in [Runs -> Sessions \cup {None}]
  BY DEF TypeOK, TakeRowLock
<1> QED BY <1>3, <1>4, <1>5, <1>6 DEF TypeOK

LEMMA LockRunStep ==
  ASSUME IInv, NEW s \in Sessions, LockRun(s)
  PROVE  IInv'
<1>1. CASE RunTenant[RunOf(s)] # session[s].call.tenant
  BY <1>1, RaiseStep DEF LockRun, Errors
<1>2. CASE RunTenant[RunOf(s)] = session[s].call.tenant
  <2>1. /\ session[s].pc = "locking" /\ TakeRowLock(s) /\ Goto(s, "reading")
        /\ UNCHANGED <<rows, branches, pointer, made, swaps>>
    BY <1>2 DEF LockRun
  <2>2. /\ TypeOK' /\ session'[s].pc = "reading" /\ session'[s].call = session[s].call
        /\ session'[s].result = session[s].result
        /\ \A o \in Sessions \ {s} : session'[o] = session[o]
    BY <2>1, GotoTypes DEF IInv
  <2>3. RunOf(s) \in Runs
    BY <2>1, InCall DEF IInv, AtAppend, RunOf
  <2>4. RunOf(s)' = RunOf(s) /\ rowLock'[RunOf(s)] = s
    BY <2>1, <2>2, <2>3 DEF RunOf, TakeRowLock, IInv, TypeOK
  <2>5. Held(s)'
    BY <2>2, <2>4 DEF Held
  <2> QED BY <2>1, <2>2, <2>5, GotoStep
<1> QED BY <1>1, <1>2

LEMMA ReadMaxStep ==
  ASSUME IInv, NEW s \in Sessions, ReadMax(s)
  PROVE  IInv'
<1>1. CASE session[s].call.expected \notin {None, NextSequence(RunOf(s))}
  BY <1>1, RaiseStep DEF ReadMax, Errors
<1>2. CASE session[s].call.expected \in {None, NextSequence(RunOf(s))}
  <2>1. /\ session[s].pc = "reading" /\ UNCHANGED <<rows, branches, pointer, rowLock, made, swaps>>
        /\ session' = [session EXCEPT ![s].pc = "inserting", ![s].next = NextSequence(RunOf(s))]
    BY <1>2 DEF ReadMax
  <2>2. RunOf(s) \in Runs /\ rowLock[RunOf(s)] = s
    BY <2>1, InCall DEF IInv, AtAppend, RunOf, Held, Writing
  <2>3. PICK n \in Nat : Sequences(RunOf(s)) = 1..n
    BY <2>2 DEF IInv, Numbered
  <2>4. NextSequence(RunOf(s)) = n + 1
    BY <2>3, LastOfNumbered DEF NextSequence
  <2>5. session' = [session EXCEPT ![s] = [session[s] EXCEPT !.pc = "inserting", !.next = n + 1]]
    BY <2>1, <2>4
  <2>6. /\ session'[s].pc = "inserting" /\ session'[s].call = session[s].call
        /\ session'[s].next = n + 1 /\ session'[s].result = session[s].result
        /\ \A o \in Sessions \ {s} : session'[o] = session[o]
    BY <2>5 DEF IInv, TypeOK
  <2>7. TypeOK'
    <3>1. session' \in [Sessions -> [pc : {"idle"} \cup AtAppend \cup AtPromote,
                                     call : Call \cup {None}, next : Nat,
                                     result : {"none", "ok"} \cup Errors]]
      <4> DEFINE P == {"idle"} \cup AtAppend \cup AtPromote
                 C == Call \cup {None}
                 E == {"none", "ok"} \cup Errors
      <4>1. session \in [Sessions -> [pc : P, call : C, next : Nat, result : E]]
        BY DEF IInv, TypeOK
      <4>2. "inserting" \in P /\ n + 1 \in Nat
        BY <2>3 DEF AtAppend
      <4> HIDE DEF P, C, E
      <4>3. [session[s] EXCEPT !.pc = "inserting", !.next = n + 1]
              \in [pc : P, call : C, next : Nat, result : E]
        BY <4>1, <4>2
      <4>4. session' \in [Sessions -> [pc : P, call : C, next : Nat, result : E]]
        BY <2>5, <4>1, <4>3
      <4> QED BY <4>4 DEF P, C, E
    <3>2. \A o \in Sessions :
            /\ session'[o].pc \in AtAppend => session'[o].call \in AppendCall
            /\ session'[o].pc \in AtPromote => session'[o].call \in PromoteCall
            /\ session'[o].pc \in {"inserting", "inserted"} => session'[o].next > 0
      BY <2>1, <2>3, <2>6 DEF IInv, TypeOK, AtAppend, AtPromote
    <3> QED BY <2>1, <3>1, <3>2 DEF IInv, TypeOK
  <2>8. Held(s)'
    <3>1. RunOf(s)' = RunOf(s) /\ rowLock'[RunOf(s)] = s
      BY <2>1, <2>2, <2>6 DEF RunOf
    <3>2. Sequences(RunOf(s))' = 1..n
      BY <2>1, <2>3, <3>1 DEF Sequences, RowsOf
    <3>3. n = (n + 1) - 1 /\ session[s].call.expected \in {None, n + 1}
      BY <1>2, <2>4
    <3> QED BY <2>6, <3>1, <3>2, <3>3 DEF Held
  <2> QED BY <2>1, <2>6, <2>7, <2>8, GotoStep
<1> QED BY <1>1, <1>2

LEMMA InsertEventStep ==
  ASSUME IInv, NEW s \in Sessions, InsertEvent(s)
  PROVE  IInv'
<1>1. /\ session[s].pc = "inserting" /\ rowLock[RunOf(s)] = s
      /\ Sequences(RunOf(s)) = 1..(session[s].next - 1)
      /\ session[s].call.expected \in {None, session[s].next}
  BY DEF InsertEvent, IInv, Held, Writing
<1>2. session[s].next \notin {e.sequence : e \in RowsOf(RunOf(s))}
  <2>1. session[s].next \in Nat
    BY DEF IInv, TypeOK
  <2> QED BY <1>1, <2>1 DEF Sequences
<1>3. CASE \E e \in rows : Clashes(NewRow(s), e)
  <2>1. Raise(s, "duplicate_key")
    BY <1>2, <1>3 DEF InsertEvent
  <2> QED BY <2>1, RaiseStep DEF Errors
<1>4. CASE ~\E e \in rows : Clashes(NewRow(s), e)
  <2>1. Goto(s, "inserted") /\ UNCHANGED <<rows, branches, pointer, rowLock, made, swaps>>
    BY <1>4 DEF InsertEvent
  <2>2. /\ TypeOK' /\ session'[s].pc = "inserted" /\ session'[s].call = session[s].call
        /\ session'[s].next = session[s].next /\ session'[s].result = session[s].result
        /\ \A o \in Sessions \ {s} : session'[o] = session[o]
    BY <1>1, <2>1, GotoTypes DEF IInv
  <2>3. /\ RunOf(s)' = RunOf(s) /\ Sequences(RunOf(s))' = Sequences(RunOf(s))
        /\ NewRow(s)' = NewRow(s) /\ RowsOf(RunOf(s))' = RowsOf(RunOf(s))
    BY <2>1, <2>2 DEF RunOf, Sequences, RowsOf, NewRow
  <2>4. \A e \in RowsOf(RunOf(s)) : ~Clashes(NewRow(s), e)
    BY <1>4 DEF RowsOf
  <2>5. Held(s)'
    BY <1>1, <2>1, <2>2, <2>3, <2>4 DEF Held
  <2> QED BY <2>1, <2>2, <2>5, GotoStep
<1> QED BY <1>3, <1>4

\* The row that is committed is numbered next and repeats no key.
LEMMA CommittedRow ==
  ASSUME IInv, NEW s \in Sessions, CommitEvent(s)
  PROVE  /\ RunOf(s) \in Runs /\ rowLock[RunOf(s)] = s
         /\ NewRow(s) \in Row /\ NewRow(s).run = RunOf(s) /\ session[s].next \in Nat \ {0}
         /\ NewRow(s).sequence = session[s].next
         /\ Sequences(RunOf(s)) = 1..(session[s].next - 1)
         /\ NewRow(s).expected \in {None, session[s].next}
         /\ \A e \in rows : ~Clashes(NewRow(s), e) /\ ~Clashes(e, NewRow(s))
<1>1. session[s].pc = "inserted" /\ session[s].call \in AppendCall /\ RunOf(s) \in Runs
  BY InCall DEF CommitEvent, IInv, AtAppend, RunOf
<1>2. session[s].next \in Nat \ {0}
  BY <1>1 DEF IInv, TypeOK
<1>3. NewRow(s) \in Row /\ NewRow(s).run = RunOf(s) /\ NewRow(s).sequence = session[s].next
      /\ NewRow(s).expected = session[s].call.expected
  BY <1>1, <1>2 DEF NewRow, Row, AppendCall, RunOf
<1>4. /\ rowLock[RunOf(s)] = s /\ Sequences(RunOf(s)) = 1..(session[s].next - 1)
      /\ session[s].call.expected \in {None, session[s].next}
      /\ \A e \in RowsOf(RunOf(s)) : ~Clashes(NewRow(s), e)
  BY <1>1 DEF IInv, Held, Writing
<1>5. \A e \in rows : ~Clashes(NewRow(s), e) /\ ~Clashes(e, NewRow(s))
  BY <1>3, <1>4 DEF Clashes, RowsOf
<1> QED BY <1>1, <1>2, <1>3, <1>4, <1>5

LEMMA CommitEventStep ==
  ASSUME IInv, NEW s \in Sessions, CommitEvent(s)
  PROVE  IInv'
<1> DEFINE e == NewRow(s)
           n == session[s].next
<1>1. /\ RunOf(s) \in Runs /\ rowLock[RunOf(s)] = s /\ e \in Row /\ e.run = RunOf(s)
      /\ n \in Nat \ {0} /\ e.sequence = n /\ Sequences(RunOf(s)) = 1..(n - 1)
      /\ \A f \in rows : ~Clashes(e, f) /\ ~Clashes(f, e)
  BY CommittedRow
<1>2. /\ rows' = rows \cup {e} /\ UNCHANGED <<branches, pointer, made, swaps>>
      /\ session' = [session EXCEPT ![s] = [pc |-> "idle", call |-> None, next |-> 0,
                                            result |-> "ok"]]
      /\ rowLock' = [r \in Runs |-> IF rowLock[r] = s THEN None ELSE rowLock[r]]
  BY DEF CommitEvent, End
<1> HIDE DEF e, n
<1>3. session'[s].pc = "idle" /\ session'[s].result = "ok"
      /\ \A o \in Sessions \ {s} : session'[o] = session[o]
  BY <1>2 DEF IInv, TypeOK
<1>4. TypeOK'
  BY <1>1, <1>2, <1>3 DEF IInv, TypeOK, AtAppend, AtPromote
<1>5. \A r \in Runs : r # RunOf(s) => RowsOf(r)' = RowsOf(r)
  BY <1>1, <1>2 DEF RowsOf
<1>6. Numbered'
  <2>1. ASSUME NEW r \in Runs PROVE \E m \in Nat : Sequences(r)' = 1..m
    <3>1. CASE r = RunOf(s)
      <4>1. RowsOf(r)' = RowsOf(r) \cup {e}
        BY <1>1, <1>2, <3>1 DEF RowsOf
      <4>2. Sequences(r)' = Sequences(r) \cup {n}
        BY <1>1, <4>1 DEF Sequences
      <4>3. Sequences(r)' = 1..n
        BY <1>1, <3>1, <4>2
      <4> QED BY <1>1, <4>3
    <3>2. CASE r # RunOf(s)
      <4>1. Sequences(r)' = Sequences(r)
        BY <1>5, <3>2 DEF Sequences
      <4> QED BY <4>1 DEF IInv, Numbered
    <3> QED BY <3>1, <3>2
  <2>2. \A f, g \in rows' : Clashes(f, g) => f = g
    BY <1>1, <1>2 DEF IInv, Numbered
  <2> QED BY <2>1, <2>2 DEF Numbered
<1>7. NeverTurnedAway' /\ SwapsAreCounted' /\ Held(s)'
  BY <1>2, <1>3 DEF IInv, NeverTurnedAway, SwapsAreCounted, Held, Writing
<1>8. \A r \in Runs : /\ rowLock[r] \notin {s, None} => rowLock'[r] = rowLock[r]
                      /\ rowLock[r] # s => RowsOf(r)' = RowsOf(r) /\ pointer'[r] = pointer[r]
                      /\ branches[r] \subseteq branches'[r]
  BY <1>1, <1>2, <1>5
<1> QED BY <1>3, <1>4, <1>6, <1>7, <1>8, OneMoves

LEMMA ScanRunsStep ==
  ASSUME IInv, NEW s \in Sessions, ScanRuns(s)
  PROVE  IInv'
<1>1. CASE ~Selects(session[s].call)
  BY <1>1, RaiseStep DEF ScanRuns, Errors
<1>2. CASE Selects(session[s].call)
  <2>1. /\ session[s].pc \in AtPromote /\ Goto(s, "updating")
        /\ UNCHANGED <<rows, branches, pointer, rowLock, made, swaps>>
    BY <1>2 DEF ScanRuns, AtPromote
  <2>2. /\ TypeOK' /\ session'[s].pc = "updating" /\ session'[s].result = session[s].result
        /\ \A o \in Sessions \ {s} : session'[o] = session[o]
    BY <2>1, GotoTypes DEF IInv
  <2>3. Held(s)'
    BY <2>2 DEF Held, Writing
  <2> QED BY <2>1, <2>2, <2>3, GotoStep
<1> QED BY <1>1, <1>2

LEMMA UpdateRunStep ==
  ASSUME IInv, NEW s \in Sessions, UpdateRun(s)
  PROVE  IInv'
<1>1. CASE ~Selects(session[s].call)
  BY <1>1, RaiseStep DEF UpdateRun, Errors
<1>2. CASE Selects(session[s].call)
  <2>1. /\ session[s].pc = "updating" /\ session[s].pc \in AtPromote /\ TakeRowLock(s)
        /\ Goto(s, "updated") /\ UNCHANGED <<rows, branches, pointer, made, swaps>>
    BY <1>2 DEF UpdateRun, AtPromote
  <2>2. /\ TypeOK' /\ session'[s].pc = "updated" /\ session'[s].call = session[s].call
        /\ session'[s].result = session[s].result
        /\ \A o \in Sessions \ {s} : session'[o] = session[o]
    BY <2>1, GotoTypes DEF IInv
  <2>3. RunOf(s) \in Runs
    BY <2>1, InCall DEF IInv, RunOf
  <2>4. RunOf(s)' = RunOf(s) /\ rowLock'[RunOf(s)] = s
    BY <2>1, <2>2, <2>3 DEF RunOf, TakeRowLock, IInv, TypeOK
  <2>5. Selects(session[s].call)'
    BY <1>2, <2>1, <2>2 DEF Selects
  <2>6. Held(s)'
    BY <2>2, <2>4, <2>5 DEF Held
  <2> QED BY <2>1, <2>2, <2>6, GotoStep
<1> QED BY <1>1, <1>2

LEMMA CommitPromotionStep ==
  ASSUME IInv, NEW s \in Sessions, CommitPromotion(s)
  PROVE  IInv'
<1> DEFINE c == session[s].call
<1>1. session[s].pc = "updated" /\ c \in PromoteCall /\ c.run \in Runs /\ RunOf(s) = c.run
  BY InCall DEF CommitPromotion, IInv, AtPromote, RunOf
<1>2. rowLock[c.run] = s
  BY <1>1 DEF IInv, Held, Writing
<1>3. /\ pointer' = [pointer EXCEPT ![c.run] = [branch |-> c.branch, generation |-> @.generation + 1]]
      /\ swaps' = [swaps EXCEPT ![c.run] = Append(@, [branch |-> c.branch, expected |-> c.expected])]
      /\ UNCHANGED <<rows, branches, made>>
      /\ session' = [session EXCEPT ![s] = [pc |-> "idle", call |-> None, next |-> 0,
                                            result |-> "ok"]]
      /\ rowLock' = [r \in Runs |-> IF rowLock[r] = s THEN None ELSE rowLock[r]]
  BY DEF CommitPromotion, End
<1> HIDE DEF c
<1>4. session'[s].pc = "idle" /\ session'[s].result = "ok"
      /\ \A o \in Sessions \ {s} : session'[o] = session[o]
  BY <1>3 DEF IInv, TypeOK
<1>5. /\ pointer \in [Runs -> [branch : Branches \cup {None}, generation : Nat]]
      /\ swaps \in [Runs -> Seq(Swap)]
      /\ c.branch \in Branches /\ [branch |-> c.branch, expected |-> c.expected] \in Swap
  BY <1>1 DEF IInv, TypeOK, PromoteCall, Swap
<1>6. /\ pointer' \in [Runs -> [branch : Branches \cup {None}, generation : Nat]]
      /\ swaps' \in [Runs -> Seq(Swap)]
      /\ pointer'[c.run].generation = pointer[c.run].generation + 1
      /\ Len(swaps'[c.run]) = Len(swaps[c.run]) + 1
      /\ \A r \in Runs \ {c.run} : pointer'[r] = pointer[r] /\ swaps'[r] = swaps[r]
  BY <1>1, <1>3, <1>5
<1>7. TypeOK'
  <2>1. session' \in [Sessions -> [pc : {"idle"} \cup AtAppend \cup AtPromote,
                                   call : Call \cup {None}, next : Nat,
                                   result : {"none", "ok"} \cup Errors]]
    BY <1>3 DEF IInv, TypeOK
  <2>2. rowLock' \in [Runs -> Sessions \cup {None}]
    BY <1>3 DEF IInv, TypeOK
  <2>3. \A o \in Sessions :
       /\ session'[o].pc \in AtAppend => session'[o].call \in AppendCall
       /\ session'[o].pc \in AtPromote => session'[o].call \in PromoteCall
       /\ session'[o].pc \in {"inserting", "inserted"} => session'[o].next > 0
    BY <1>4 DEF IInv, TypeOK, AtAppend, AtPromote
  <2> QED BY <1>3, <1>6, <2>1, <2>2, <2>3 DEF IInv, TypeOK
<1>8. SwapsAreCounted'
  BY <1>1, <1>6 DEF IInv, SwapsAreCounted
<1>9. Numbered'
  BY <1>3 DEF IInv, Numbered, Sequences, RowsOf
<1>10. NeverTurnedAway' /\ Held(s)'
  BY <1>4 DEF IInv, NeverTurnedAway, Held, Writing
<1>11. \A r \in Runs : /\ rowLock[r] \notin {s, None} => rowLock'[r] = rowLock[r]
                       /\ rowLock[r] # s => RowsOf(r)' = RowsOf(r) /\ pointer'[r] = pointer[r]
                       /\ branches[r] \subseteq branches'[r]
  BY <1>1, <1>2, <1>3, <1>6 DEF RowsOf
<1> QED BY <1>4, <1>7, <1>8, <1>9, <1>10, <1>11, OneMoves

\* A branch is added beside the transactions.
LEMMA BranchStep ==
  ASSUME IInv, NEW r \in Runs, NEW b \in Branches, NEW parent, InsertBranch(r, b, parent)
  PROVE  IInv'
<1>1. /\ UNCHANGED <<rows, pointer, rowLock, session, made, swaps>>
      /\ branches' \in [Runs -> SUBSET Branches] /\ \A q \in Runs : branches[q] \subseteq branches'[q]
  BY DEF InsertBranch, IInv, TypeOK
<1>2. TypeOK' /\ NeverTurnedAway' /\ SwapsAreCounted' /\ Numbered'
  BY <1>1 DEF IInv, TypeOK, NeverTurnedAway, SwapsAreCounted, Numbered, Sequences, RowsOf
<1>3. ASSUME NEW o \in Sessions PROVE Held(o)'
  <2>1. session[o].pc \in Writing => RunOf(o) \in Runs
    BY InCall DEF IInv, RunOf, Writing, AtAppend, AtPromote
  <2>2. session[o].pc \in Writing =>
           /\ rowLock'[RunOf(o)] = rowLock[RunOf(o)]
           /\ RowsOf(RunOf(o))' = RowsOf(RunOf(o))
           /\ pointer'[RunOf(o)] = pointer[RunOf(o)]
           /\ branches[RunOf(o)] \subseteq branches'[RunOf(o)]
    BY <1>1, <2>1 DEF RowsOf, RunOf
  <2>3. TypeOK /\ Held(o) /\ session'[o] = session[o]
    BY <1>1 DEF IInv
  <2> QED BY <2>2, <2>3, HeldStays
<1> QED BY <1>2, <1>3 DEF IInv

LEMMA StutterStep ==
  ASSUME IInv, UNCHANGED vars
  PROVE  IInv'
<1>1. UNCHANGED <<rows, branches, pointer, rowLock, session, made, swaps>>
  BY DEF vars
<1>2. TypeOK' /\ NeverTurnedAway' /\ SwapsAreCounted' /\ Numbered'
  BY <1>1 DEF IInv, TypeOK, NeverTurnedAway, SwapsAreCounted, Numbered, Sequences, RowsOf
<1>3. \A o \in Sessions : Held(o)'
  BY <1>1 DEF IInv, Held, RunOf, NewRow, Sequences, RowsOf, Selects
<1> QED BY <1>2, <1>3 DEF IInv

LEMMA NextIInv == IInv /\ [Next]_vars => IInv'
<1> SUFFICES ASSUME IInv, [Next]_vars PROVE IInv'
  OBVIOUS
<1>1. ASSUME NEW s \in Sessions, Statement(s) PROVE IInv'
  BY <1>1, LockRunStep, ReadMaxStep, InsertEventStep, CommitEventStep, ScanRunsStep,
     UpdateRunStep, CommitPromotionStep DEF Statement
<1>2. ASSUME NEW s \in Sessions, Disconnect(s) PROVE IInv'
  BY <1>2, RaiseStep DEF Disconnect, Errors
<1>3. ASSUME NEW s \in Sessions, NEW c \in Call, Begin(s, c) PROVE IInv'
  BY <1>3, BeginStep
<1>4. ASSUME NEW r \in Runs, NEW b \in Branches, NEW parent \in Branches \cup {None},
             InsertBranch(r, b, parent)
      PROVE  IInv'
  BY <1>4, BranchStep
<1> QED BY <1>1, <1>2, <1>3, <1>4, StutterStep DEF Next

LEMMA Invariance == Spec => []IInv
BY InitIInv, NextIInv, PTL DEF Spec

-----------------------------------------------------------------------------
(* What the callers of the functions rely on.                              *)

\* The rows, the locks and the sessions keep their types.
THEOREM TypeCorrect == Spec => []TypeOK
<1>1. IInv => TypeOK
  BY DEF IInv
<1> QED BY <1>1, Invariance, PTL

\* No writer is turned away because another wrote at the same time, and no event
\* becomes visible behind one that is visible: what the row lock on runs is for.
THEOREM RowLockSerialises == Spec => WritersTakeTurns
<1>1. ASSUME IInv, IInv', [Next]_vars, NEW e \in rows' \ rows, NEW f \in RowsOf(e.run)
      PROVE  f.sequence < e.sequence
  <2>1. PICK s \in Sessions : CommitEvent(s)
    BY <1>1 DEF Next, Statement, LockRun, ReadMax, InsertEvent, ScanRuns, UpdateRun,
                CommitPromotion, Disconnect, Begin, InsertBranch, Raise, vars
  <2>2. e = NewRow(s)
    BY <1>1, <2>1 DEF CommitEvent
  <2>3. /\ e.run = RunOf(s) /\ e.sequence = session[s].next /\ session[s].next \in Nat \ {0}
        /\ Sequences(RunOf(s)) = 1..(session[s].next - 1)
    BY <1>1, <2>1, <2>2, CommittedRow
  <2>4. f.sequence \in 1..(session[s].next - 1)
    BY <2>3 DEF Sequences
  <2> QED BY <2>3, <2>4
<1>2. IInv /\ IInv' /\ [Next]_vars =>
        [/\ \A s \in Sessions : session'[s].result # "duplicate_sequence"
         /\ \A e \in rows' \ rows : \A f \in RowsOf(e.run) : f.sequence < e.sequence]_vars
  BY <1>1 DEF IInv, NeverTurnedAway
<1> QED BY <1>2, Invariance, PTL DEF Spec, WritersTakeTurns

-----------------------------------------------------------------------------
(* The refinement of RunLedger.                                            *)

\* What RunLedger keeps of an event.
Entry == [key : Keys, expected : Expectations \cup {None}]

LEMMA OrderIsListed ==
  ASSUME NEW r
  PROVE  InOrder(r) = Listed(RowsOf(r)) /\ InOrder(r)' = Listed(RowsOf(r))'
BY DEF InOrder, Listed, RowAt, Below, Kept

\* The rows of a run are its ledger.
LEMMA RowsAreDense ==
  ASSUME IInv, NEW r \in Runs
  PROVE  /\ \E n \in Nat : Dense(RowsOf(r), n)
         /\ \A f \in RowsOf(r) : Kept(f) \in Entry
<1>1. PICK n \in Nat : Sequences(r) = 1..n
  BY DEF IInv, Numbered
<1>2. \A e, f \in RowsOf(r) : e.sequence = f.sequence => e = f
  BY DEF IInv, Numbered, Clashes, RowsOf
<1>3. Dense(RowsOf(r), n)
  BY <1>1, <1>2 DEF Dense, Sequences
<1>4. \A f \in RowsOf(r) : Kept(f) \in Entry
  BY DEF IInv, TypeOK, RowsOf, Row, Kept, Entry
<1> QED BY <1>3, <1>4

LEMMA LedgerStutters ==
  ASSUME UNCHANGED <<rows, branches, swaps>>
  PROVE  UNCHANGED Ledger!vars
<1>1. \A r \in Runs : RowsOf(r)' = RowsOf(r)
  BY DEF RowsOf
<1>2. \A r \in Runs : InOrder(r)' = InOrder(r)
  BY <1>1, OrderIsListed
<1> QED BY <1>1, <1>2 DEF Ledger!vars

\* A row numbered next, with a key of its own, is appended to the ledger.
LEMMA AppendRefines ==
  ASSUME IInv, NEW r \in Runs, NEW n \in Nat, NEW e \in Row,
         e.run = r, e.sequence = n + 1, Sequences(r) = 1..n, e.expected \in {None, n + 1},
         \A f \in rows : ~Clashes(e, f), rows' = rows \cup {e}, UNCHANGED <<branches, swaps>>
  PROVE  Ledger!Next
<1> DEFINE R == RowsOf(r)
<1>1. Dense(R, n) /\ \A f \in R : Kept(f) \in Entry
  <2>1. PICK m \in Nat : Dense(R, m)
    BY RowsAreDense
  <2>2. Dense(R, n)
    BY <2>1 DEF Dense, Sequences
  <2> QED BY <2>2, RowsAreDense
<1>2. Kept(e) \in Entry /\ e.key \in Keys /\ e.expected \in Expectations \cup {None}
  BY DEF Row, Kept, Entry
<1>3. RowsOf(r)' = R \cup {e} /\ \A q \in Runs \ {r} : RowsOf(q)' = RowsOf(q)
  BY DEF RowsOf
<1>4. /\ Listed(R) \in Seq(Entry) /\ Len(Listed(R)) = n
      /\ Listed(R \cup {e}) = Append(Listed(R), Kept(e))
  BY <1>1, <1>2, ListedNext DEF Entry
<1>5. InOrder(r) = Listed(R)
  BY OrderIsListed
<1>6. InOrder(r)' = Append(Listed(R), Kept(e))
  BY <1>3, <1>4, OrderIsListed
<1>7. \A q \in Runs \ {r} : InOrder(q)' = InOrder(q)
  BY <1>3, OrderIsListed
<1>8. e.key \notin {x.key : x \in ToSet(Listed(R))}
  <2>1. ASSUME NEW x \in ToSet(Listed(R)) PROVE e.key # x.key
    <3>1. PICK i \in 1..n : x = Listed(R)[i]
      BY <1>4, <2>1 DEF ToSet
    <3>2. PICK f \in R : f.sequence = i
      BY <1>1 DEF Dense
    <3>3. x = Kept(f) /\ f \in rows /\ f.run = r
      BY <1>1, <3>1, <3>2, ListedInOrder DEF RowsOf
    <3> QED BY <3>3 DEF Kept, Clashes
  <2> QED BY <2>1
<1> DEFINE owner == [q \in Runs |-> IF RowsOf(q) = {} THEN None ELSE RunTenant[q]]
           events == [q \in Runs |-> InOrder(q)]
<1>9. owner[r] \in {None, RunTenant[r]} /\ owner' = [owner EXCEPT ![r] = RunTenant[r]]
  <2>1. \A q \in Runs : (IF RowsOf(q) = {} THEN None ELSE RunTenant[q])'
                         = IF q = r THEN RunTenant[r] ELSE owner[q]
    BY <1>3
  <2> QED BY <2>1
<1>10. events[r] = Listed(R)
       /\ events' = [events EXCEPT ![r] = Append(@, [key |-> e.key, expected |-> e.expected])]
  <2>1. \A q \in Runs : InOrder(q)' = IF q = r THEN Append(events[r], Kept(e)) ELSE events[q]
    BY <1>5, <1>6, <1>7
  <2> QED BY <1>5, <2>1 DEF Kept
<1>11. Ledger!AppendEvent(RunTenant[r], r, e.key, e.expected)
  BY <1>4, <1>8, <1>9, <1>10 DEF Ledger!AppendEvent, Ledger!EventKeys, Ledger!ToSet, ToSet
<1>12. RunTenant[r] \in Tenants
  BY RunTenantAssumption
<1> QED BY <1>2, <1>11, <1>12 DEF Ledger!Next

LEMMA PromoteRefines ==
  ASSUME IInv, NEW s \in Sessions, CommitPromotion(s)
  PROVE  Ledger!Next
<1>1. PICK c \in PromoteCall : c = session[s].call
  BY InCall DEF CommitPromotion, IInv, AtPromote
<1>2. c.run \in Runs /\ c.branch \in Branches /\ c.expected \in Expectations
  BY DEF PromoteCall
<1>3. c.branch \in branches[c.run] /\ c.expected = Len(swaps[c.run])
  BY <1>1, <1>2 DEF CommitPromotion, IInv, Held, Selects, SwapsAreCounted
<1>4. /\ swaps' = [swaps EXCEPT ![c.run] = Append(@, [branch |-> c.branch, expected |-> c.expected])]
      /\ UNCHANGED <<rows, branches>>
  BY <1>1 DEF CommitPromotion
<1>5. /\ \A q \in Runs : RowsOf(q)' = RowsOf(q)
      /\ \A q \in Runs : InOrder(q)' = InOrder(q)
  <2>1. \A q \in Runs : RowsOf(q)' = RowsOf(q)
    BY <1>4 DEF RowsOf
  <2> QED BY <2>1, OrderIsListed
<1>6. Ledger!Promote(c.run, c.branch, c.expected)
  BY <1>3, <1>4, <1>5 DEF Ledger!Promote
<1> QED BY <1>2, <1>6 DEF Ledger!Next

LEMMA BranchRefines ==
  ASSUME NEW r \in Runs, NEW b \in Branches, NEW parent \in Branches \cup {None},
         InsertBranch(r, b, parent)
  PROVE  Ledger!Next
<1>1. /\ \A q \in Runs : RowsOf(q)' = RowsOf(q)
      /\ \A q \in Runs : InOrder(q)' = InOrder(q)
  <2>1. \A q \in Runs : RowsOf(q)' = RowsOf(q)
    BY DEF InsertBranch, RowsOf
  <2> QED BY <2>1, OrderIsListed
<1>2. Ledger!CreateBranch(r, b, parent)
  BY <1>1 DEF InsertBranch, Ledger!CreateBranch
<1> QED BY <1>2 DEF Ledger!Next

\* The committed rows behave as the in-memory stores of the same ports, whatever the
\* sessions do and wherever their connections are lost: sequences without gaps, keys
\* used once, each append and each swap made on exactly the state its caller expected.
THEOREM RowsImplementLedger == Spec => ImplementsLedger
<1>1. Init => Ledger!Init
  <2> SUFFICES ASSUME Init PROVE Ledger!Init
    OBVIOUS
  <2>1. ASSUME NEW r \in Runs PROVE RowsOf(r) = {} /\ InOrder(r) = << >>
    <3>1. RowsOf(r) = {}
      BY DEF Init, RowsOf
    <3>2. Dense({}, 0)
      BY DEF Dense
    <3>3. Cardinality({}) = 0
      BY FS_EmptySet
    <3>4. Listed({}) = << >>
      <4>1. Listed({}) = [i \in 1..0 |-> Kept(RowAt({}, i))]
        BY <3>3 DEF Listed
      <4> QED BY <4>1
    <3> QED BY <3>1, <3>4, OrderIsListed
  <2> QED BY <2>1 DEF Init, Ledger!Init
<1>2. ASSUME IInv, [Next]_vars PROVE [Ledger!Next]_(Ledger!vars)
  <2>1. ASSUME NEW s \in Sessions, CommitEvent(s) PROVE Ledger!Next
    <3>1. PICK e \in Row, r \in Runs, n \in Nat :
            /\ e = NewRow(s) /\ r = RunOf(s) /\ n = session[s].next - 1
      BY <1>2, <2>1, CommittedRow
    <3>2. /\ e.run = r /\ e.sequence = n + 1 /\ Sequences(r) = 1..n
          /\ e.expected \in {None, n + 1} /\ \A f \in rows : ~Clashes(e, f)
      BY <1>2, <2>1, <3>1, CommittedRow
    <3>3. rows' = rows \cup {e} /\ UNCHANGED <<branches, swaps>>
      BY <2>1, <3>1 DEF CommitEvent
    <3> QED BY <1>2, <3>2, <3>3, AppendRefines
  <2>2. ASSUME NEW s \in Sessions, CommitPromotion(s) PROVE Ledger!Next
    BY <1>2, <2>2, PromoteRefines
  <2>3. ASSUME NEW s \in Sessions, Statement(s), ~CommitEvent(s), ~CommitPromotion(s)
        PROVE  UNCHANGED <<rows, branches, swaps>>
    BY <2>3 DEF Statement, LockRun, ReadMax, InsertEvent, ScanRuns, UpdateRun, Raise
  <2>4. ASSUME NEW s \in Sessions, Disconnect(s) \/ \E c \in Call : Begin(s, c)
        PROVE  UNCHANGED <<rows, branches, swaps>>
    BY <2>4 DEF Disconnect, Begin, Raise
  <2>5. ASSUME NEW r \in Runs, NEW b \in Branches, NEW parent \in Branches \cup {None},
               InsertBranch(r, b, parent)
        PROVE  Ledger!Next
    BY <2>5, BranchRefines
  <2>6. CASE UNCHANGED vars
    BY <2>6, LedgerStutters DEF vars
  <2> QED BY <1>2, <2>1, <2>2, <2>3, <2>4, <2>5, <2>6, LedgerStutters DEF Next
<1> QED BY <1>1, <1>2, Invariance, PTL DEF Spec, ImplementsLedger, Ledger!Spec
=============================================================================
