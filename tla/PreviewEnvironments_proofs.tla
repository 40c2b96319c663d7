--------------------- MODULE PreviewEnvironments_proofs ---------------------
(***************************************************************************)
(* Proofs of the safety properties of PreviewEnvironments, for any number  *)
(* of environments, calls, commands and failing closes.                    *)
(***************************************************************************)
EXTENDS PreviewEnvironments, TLAPS

\* An environment is in the map only once it is provisioned, and nobody reaches its
\* database before.
ProvisionedFirst ==
  /\ \A e \in Envs :
       /\ provision[e] = "migrating" => database[e] = "open"
       /\ provision[e] = "none" => database[e] = "none"
       /\ e \in environments => provision[e] = "resolved"
  /\ \A c \in Calls : call[c].pc = "closing" => provision[call[c].request.env] = "resolved"

EndedAreGone ==
  \A e \in ended : provision[e] = "resolved" /\ database[e] = "closed" /\ e \notin environments

IInv ==
  /\ TypeOK
  /\ AnswersAgree /\ AppendsAreCompareAndSwap
  /\ ProvisionedFirst /\ DatabasesAreOwned /\ EndedAreGone

-----------------------------------------------------------------------------
\* What the four kinds of request have.
LEMMA RequestFields ==
  ASSUME NEW q \in Request
  PROVE  /\ q # None /\ q.env \in Envs /\ q.op \in {"inspect", "destroy", "append", "record"}
         /\ q.op = "append" => q.expected \in 0..MaxVersion
         /\ q.op = "record" => q.key \in Keys /\ q.digest \in Digests
BY NoneAssumption DEF Request

\* A call that is not idle has a request.
LEMMA Requested ==
  ASSUME TypeOK, NEW c \in Calls, call[c].pc # "idle"
  PROVE  call[c].request \in Request /\ call[c] \in CallRecord /\ Coherent(call[c])
BY DEF TypeOK, CallRecord, Coherent

\* What is typed may take the place of a call.
LEMMA CallTyped ==
  ASSUME TypeOK, NEW c \in Calls, NEW r \in CallRecord, Coherent(r)
  PROVE  [call EXCEPT ![c] = r] \in [Calls -> {t \in CallRecord : Coherent(t)}]
BY DEF TypeOK

\* A call may be given any answer of its operation.
LEMMA AnswerTyped ==
  ASSUME TypeOK, NEW c \in Calls, call[c].pc # "idle",
         call[c].pc # "done",
         NEW answer \in AnswersOf(call[c].request.op) \ {"recorded", "replayed"}
  PROVE  [call EXCEPT ![c].pc = "done", ![c].answer = answer]
           \in [Calls -> {r \in CallRecord : Coherent(r)}]
<1>1. call[c].request \in Request
  BY Requested
<1>2. answer \in Answers \ {"none"}
  BY <1>1, RequestFields DEF AnswersOf, Answers
<1> DEFINE done == [call[c] EXCEPT !.pc = "done", !.answer = answer]
<1>3. done \in CallRecord
  BY <1>1, <1>2, Requested DEF CallRecord
<1>4. Coherent(done)
  BY <1>1, <1>2, Requested, RequestFields DEF Coherent, CallRecord
<1> QED
  BY <1>3, <1>4 DEF TypeOK

LEMMA InitIInv == Init => IInv
<1> SUFFICES ASSUME Init PROVE IInv
  OBVIOUS
<1>1. TypeOK
  BY BoundAssumption DEF Init, TypeOK, NewCall, Answers, CallRecord, Coherent
<1>2. AnswersAgree /\ AppendsAreCompareAndSwap
  BY DEF Init, AnswersAgree, AppendsAreCompareAndSwap, NewCall
<1>3. ProvisionedFirst /\ DatabasesAreOwned /\ EndedAreGone
  BY DEF Init, ProvisionedFirst, DatabasesAreOwned, EndedAreGone, NewCall
<1> QED
  BY <1>1, <1>2, <1>3 DEF IInv

-----------------------------------------------------------------------------
\* The shape of the state is kept by every step.
LEMMA TypeStep == TypeOK /\ [Next]_vars => TypeOK'
<1> SUFFICES ASSUME TypeOK, [Next]_vars PROVE TypeOK'
  OBVIOUS
<1> USE BoundAssumption
<1>1. ASSUME NEW e \in Envs, Provision(e) PROVE TypeOK'
  BY <1>1 DEF TypeOK, Provision, tables
<1>2. ASSUME NEW e \in Envs, Provisioned(e) PROVE TypeOK'
  BY <1>2 DEF TypeOK, Provisioned, tables
<1>3. ASSUME NEW e \in Envs, ProvisionFails(e) PROVE TypeOK'
  BY <1>3 DEF TypeOK, ProvisionFails, tables
<1>4. ASSUME NEW e \in Envs, LeaseEnds(e) PROVE TypeOK'
  BY <1>4 DEF TypeOK, LeaseEnds, tables
<1>5. ASSUME NEW c \in Calls, NEW q \in Request, Begin(c, q) PROVE TypeOK'
  <2> DEFINE Begun(pc, answer) ==
               [NewCall EXCEPT !.pc = pc, !.request = q, !.answer = answer]
  <2>1. database' \in [Envs -> {"none", "open", "closing", "closed"}]
    BY <1>5, RequestFields DEF TypeOK, Begin
  <2>2. \E pc \in {"closing", "done", "lookup"}, answer \in Answers \ {"recorded", "replayed"} :
          /\ call' = [call EXCEPT ![c] = Begun(pc, answer)]
          /\ pc = "done" <=> answer # "none"
          /\ pc = "done" => answer \in AnswersOf(q.op)
          /\ pc = "lookup" => q.op \in {"append", "record"}
    <3>1. {"error"} \subseteq AnswersOf(q.op)
      BY RequestFields DEF AnswersOf
    <3>2. q.op \in {"inspect", "destroy"} => "unknown" \in AnswersOf(q.op)
      BY DEF AnswersOf
    <3>3. q.op \notin {"inspect", "destroy"} => "not_found" \in AnswersOf(q.op)
      BY RequestFields DEF AnswersOf
    <3>4. q.op = "inspect" => "ready" \in AnswersOf(q.op)
      BY DEF AnswersOf
    <3>5. \/ call' = [call EXCEPT ![c] = Begun("done", "unknown")] /\ q.op \in {"inspect", "destroy"}
          \/ call' = [call EXCEPT ![c] = Begun("done", "not_found")] /\ q.op \notin {"inspect", "destroy"}
          \/ call' = [call EXCEPT ![c] = Begun("closing", "none")]
          \/ call' = [call EXCEPT ![c] = Begun("done", "error")]
          \/ call' = [call EXCEPT ![c] = Begun("done", "ready")] /\ q.op = "inspect"
          \/ /\ call' = [call EXCEPT ![c] = Begun("lookup", "none")]
             /\ q.op \notin {"inspect", "destroy"}
      BY <1>5 DEF Begin
    <3>6. {"none", "unknown", "not_found", "error", "ready"} \subseteq Answers
      BY DEF Answers
    <3> HIDE DEF Begun
    <3> QED
      BY <3>1, <3>2, <3>3, <3>4, <3>5, <3>6, RequestFields
  <2>3. PICK pc \in {"closing", "done", "lookup"},
             answer \in Answers \ {"recorded", "replayed"} :
          /\ call' = [call EXCEPT ![c] = Begun(pc, answer)]
          /\ pc = "done" <=> answer # "none"
          /\ pc = "done" => answer \in AnswersOf(q.op)
          /\ pc = "lookup" => q.op \in {"append", "record"}
    BY <2>2
  <2>4. Begun(pc, answer) \in CallRecord /\ Coherent(Begun(pc, answer))
    BY <2>3, RequestFields DEF NewCall, CallRecord, Coherent
  <2>5. call' \in [Calls -> {r \in CallRecord : Coherent(r)}]
    BY <2>3, <2>4 DEF TypeOK
  <2> QED
    BY <1>5, <2>1, <2>5 DEF TypeOK, Begin, tables
<1>6. ASSUME NEW c \in Calls, Closed(c) PROVE TypeOK'
  <2>1. call[c].pc \notin {"idle", "done"} /\ call[c].request \in Request
    BY <1>6, Requested DEF Closed
  <2>2. Told(call[c].request.op) \in AnswersOf(call[c].request.op) \ {"recorded", "replayed"}
    BY <2>1, RequestFields DEF Told, AnswersOf
  <2> QED
    BY <1>6, <2>1, <2>2, AnswerTyped, RequestFields DEF TypeOK, Closed, Answer, tables
<1>7. ASSUME NEW c \in Calls, CloseFails(c) PROVE TypeOK'
  <2>1. call[c].pc \notin {"idle", "done"} /\ call[c].request \in Request
    BY <1>7, Requested DEF CloseFails
  <2>2. "error" \in AnswersOf(call[c].request.op)
    BY <2>1, RequestFields DEF AnswersOf
  <2>3. call' \in [Calls -> {r \in CallRecord : Coherent(r)}]
    BY <1>7, <2>1, <2>2, AnswerTyped DEF CloseFails, Answer
  <2>4. faults' \in 0..MaxFaults
    BY <1>7 DEF TypeOK, CloseFails
  <2> QED
    BY <1>7, <2>3, <2>4 DEF TypeOK, CloseFails, tables
<1>8. ASSUME NEW c \in Calls, Lookup(c) PROVE TypeOK'
  <2>1. /\ call[c].pc = "lookup" /\ call[c].request \in Request
        /\ call[c].request.op \in {"append", "record"}
    BY <1>8, Requested DEF Lookup, Coherent
  <2>2. "not_found" \in AnswersOf(call[c].request.op)
    BY <2>1 DEF AnswersOf
  <2>3. /\ [call[c] EXCEPT !.pc = "query"] \in CallRecord
        /\ Coherent([call[c] EXCEPT !.pc = "query"])
    BY <1>8, <2>1, Requested, RequestFields DEF Lookup, CallRecord, Coherent
  <2>4. call' \in [Calls -> {r \in CallRecord : Coherent(r)}]
    <3>1. \/ call' = [call EXCEPT ![c] = [call[c] EXCEPT !.pc = "query"]]
          \/ call' = [call EXCEPT ![c].pc = "done", ![c].answer = "not_found"]
      BY <1>8 DEF Lookup, Answer
    <3>2. [call EXCEPT ![c].pc = "done", ![c].answer = "not_found"]
             \in [Calls -> {r \in CallRecord : Coherent(r)}]
      BY <2>1, <2>2, AnswerTyped
    <3> QED BY <2>3, <3>1, <3>2, CallTyped
  <2> QED
    BY <1>8, <2>4 DEF TypeOK, Lookup, tables
<1>9. ASSUME NEW c \in Calls, QueryFails(c) PROVE TypeOK'
  <2>1. call[c].pc \notin {"idle", "done"} /\ call[c].request \in Request
    BY <1>9, Requested DEF QueryFails
  <2>2. "error" \in AnswersOf(call[c].request.op)
    BY <2>1, RequestFields DEF AnswersOf
  <2> QED
    BY <1>9, <2>1, <2>2, AnswerTyped DEF TypeOK, QueryFails, Answer, tables
<1>10. ASSUME NEW c \in Calls, AppendVersion(c) PROVE TypeOK'
  <2> DEFINE e == call[c].request.env
             done == [call[c] EXCEPT !.pc = "done", !.answer = "appended",
                                     !.version = Len(versions[e]) + 1]
  <2>1. /\ call[c].pc = "query" /\ call[c].request \in Request
        /\ call[c].request.op = "append" /\ e \in Envs
    BY <1>10, Requested, RequestFields DEF AppendVersion, Queries
  <2>2. versions[e] \in Seq(Calls) /\ Len(versions[e]) + 1 \in Nat
    BY <2>1 DEF TypeOK
  <2>3. {"appended", "version_conflict"} \subseteq AnswersOf(call[c].request.op)
    BY <2>1 DEF AnswersOf
  <2>4. done \in CallRecord /\ Coherent(done)
    BY <2>1, <2>2, <2>3, Requested, RequestFields DEF CallRecord, Coherent, Answers
  <2>5. /\ call' \in [Calls -> {r \in CallRecord : Coherent(r)}]
        /\ versions' \in [Envs -> Seq(Calls)]
    <3>1. CASE Len(versions[e]) # call[c].request.expected
      <4>1. /\ call' = [call EXCEPT ![c].pc = "done", ![c].answer = "version_conflict"]
            /\ versions' = versions
        BY <1>10, <3>1 DEF AppendVersion, Answer
      <4> QED BY <2>1, <2>3, <4>1, AnswerTyped DEF TypeOK
    <3>2. CASE Len(versions[e]) = call[c].request.expected
      <4>1. /\ versions' = [versions EXCEPT ![e] = Append(@, c)]
            /\ call' = [call EXCEPT ![c].pc = "done", ![c].answer = "appended",
                                    ![c].version = Len(versions[e]) + 1]
        BY <1>10, <3>2 DEF AppendVersion
      <4>2. call' = [call EXCEPT ![c] = done]
        BY <4>1 DEF TypeOK
      <4> QED BY <2>1, <2>2, <2>4, <4>1, <4>2, CallTyped DEF TypeOK
    <3> QED BY <3>1, <3>2
  <2> QED
    BY <1>10, <2>5 DEF TypeOK, AppendVersion, Queries
<1>11. ASSUME NEW c \in Calls, SelectResult(c) PROVE TypeOK'
  <2> DEFINE done == [call[c] EXCEPT !.pc = "done", !.answer = "replayed",
                                     !.result = RowOf(c).result]
             going == [call[c] EXCEPT !.pc = "insert"]
  <2>1. /\ call[c].pc = "query" /\ call[c].request \in Request
        /\ call[c].request.op = "record"
    BY <1>11, Requested DEF SelectResult, Queries
  <2>2. {"replayed", "idempotency_conflict"} \subseteq AnswersOf(call[c].request.op)
    BY <2>1 DEF AnswersOf
  <2>3. RowOf(c) # None => RowOf(c).result \in Calls
    BY <2>1, RequestFields DEF TypeOK, RowOf, Row
  <2>4. going \in CallRecord /\ Coherent(going)
    BY <2>1, Requested, RequestFields DEF CallRecord, Coherent
  <2>5. RowOf(c) # None => done \in CallRecord /\ Coherent(done)
    BY <2>1, <2>2, <2>3, Requested, RequestFields, NoneAssumption
       DEF CallRecord, Coherent, Answers
  <2>6. call' \in [Calls -> {r \in CallRecord : Coherent(r)}]
    <3>1. \/ call' = [call EXCEPT ![c] = going]
          \/ RowOf(c) # None /\ call' = [call EXCEPT ![c] = done]
          \/ call' = [call EXCEPT ![c].pc = "done", ![c].answer = "idempotency_conflict"]
      BY <1>11 DEF SelectResult, Answer, TypeOK
    <3>2. "idempotency_conflict" \in AnswersOf(call[c].request.op) /\ call[c].pc \notin {"idle", "done"}
      BY <2>1, <2>2
    <3>3. [call EXCEPT ![c].pc = "done", ![c].answer = "idempotency_conflict"]
             \in [Calls -> {r \in CallRecord : Coherent(r)}]
      BY <3>2, AnswerTyped
    <3>4. [call EXCEPT ![c] = going] \in [Calls -> {r \in CallRecord : Coherent(r)}]
      BY <2>4, CallTyped
    <3>5. RowOf(c) # None =>
            [call EXCEPT ![c] = done] \in [Calls -> {r \in CallRecord : Coherent(r)}]
      BY <2>5, CallTyped
    <3> HIDE DEF going, done
    <3> QED BY <3>1, <3>3, <3>4, <3>5
  <2> QED
    BY <1>11, <2>6 DEF TypeOK, SelectResult, Queries, tables
<1>12. ASSUME NEW c \in Calls, InsertResult(c) PROVE TypeOK'
  <2> DEFINE q == call[c].request
             done == [call[c] EXCEPT !.pc = "done", !.answer = "recorded", !.result = c]
  <2>1. call[c].pc = "insert" /\ q \in Request /\ q.op = "record"
    BY <1>12, Requested DEF InsertResult, Queries
  <2>2. {"recorded", "error"} \subseteq AnswersOf(q.op)
    BY <2>1 DEF AnswersOf
  <2>3. done \in CallRecord /\ Coherent(done)
    BY <2>1, <2>2, Requested, RequestFields, NoneAssumption DEF CallRecord, Coherent, Answers
  <2>4. call' \in [Calls -> {r \in CallRecord : Coherent(r)}]
    <3>1. \/ call' = [call EXCEPT ![c] = done]
          \/ call' = [call EXCEPT ![c].pc = "done", ![c].answer = "error"]
      BY <1>12 DEF InsertResult, Answer, TypeOK
    <3>2. "error" \in AnswersOf(q.op) /\ call[c].pc \notin {"idle", "done"}
      BY <2>1, <2>2
    <3>3. [call EXCEPT ![c].pc = "done", ![c].answer = "error"]
             \in [Calls -> {r \in CallRecord : Coherent(r)}]
      BY <3>2, AnswerTyped
    <3>4. [call EXCEPT ![c] = done] \in [Calls -> {r \in CallRecord : Coherent(r)}]
      BY <2>3, CallTyped
    <3> HIDE DEF done
    <3> QED BY <3>1, <3>3, <3>4
  <2>5. results' \in [Envs -> [Keys -> Row \cup {None}]]
    <3>1. q.env \in Envs /\ q.key \in Keys /\ [digest |-> q.digest, result |-> c] \in Row
      BY <2>1, RequestFields DEF Row
    <3>2. \/ results' = results
          \/ results' = [results EXCEPT ![q.env][q.key] = [digest |-> q.digest, result |-> c]]
      BY <1>12 DEF InsertResult
    <3>3. [results[q.env] EXCEPT ![q.key] = [digest |-> q.digest, result |-> c]]
             \in [Keys -> Row \cup {None}]
      BY <3>1 DEF TypeOK
    <3> QED BY <3>1, <3>2, <3>3 DEF TypeOK
  <2> QED
    BY <1>12, <2>4, <2>5 DEF TypeOK, InsertResult, Queries
<1>13. CASE UNCHANGED vars
  BY <1>13 DEF TypeOK, vars, tables
<1> QED
  BY <1>1, <1>2, <1>3, <1>4, <1>5, <1>6, <1>7, <1>8, <1>9, <1>10, <1>11, <1>12, <1>13
     DEF Next, CallStep

-----------------------------------------------------------------------------
\* What a step of a call leaves alone: the other calls, and what it was asked for.
LEMMA OneCallSteps ==
  ASSUME TypeOK, NEW c \in Calls, CallStep(c)
  PROVE  /\ \A d \in Calls \ {c} : call'[d] = call[d]
         /\ call[c].pc \in {"closing", "lookup", "query", "insert"}
         /\ call[c].request \in Request /\ call'[c].request = call[c].request
         /\ call'[c].pc \in {"query", "insert", "done"}
         /\ UNCHANGED <<provision, expired>>
<1>1. call[c].pc \in {"closing", "lookup", "query", "insert"}
  BY DEF CallStep, Closed, CloseFails, Lookup, QueryFails, AppendVersion, SelectResult,
         InsertResult, Queries
<1>2. call[c].request \in Request /\ call \in [Calls -> {r \in CallRecord : Coherent(r)}]
  BY <1>1, Requested DEF TypeOK
<1>3. CASE Closed(c) \/ CloseFails(c) \/ QueryFails(c)
  BY <1>1, <1>2, <1>3 DEF Closed, CloseFails, QueryFails, Answer, CallRecord
<1>4. CASE Lookup(c)
  BY <1>1, <1>2, <1>4 DEF Lookup, Answer, CallRecord
<1>5. CASE AppendVersion(c)
  BY <1>1, <1>2, <1>5 DEF AppendVersion, Queries, Answer, CallRecord
<1>6. CASE SelectResult(c)
  BY <1>1, <1>2, <1>6 DEF SelectResult, Queries, Answer, CallRecord
<1>7. CASE InsertResult(c)
  BY <1>1, <1>2, <1>7 DEF InsertResult, Queries, Answer, CallRecord
<1> QED
  BY <1>3, <1>4, <1>5, <1>6, <1>7 DEF CallStep

\* A call that begins: it alone, with its request and no result.
LEMMA OneCallBegins ==
  ASSUME TypeOK, NEW c \in Calls, NEW q \in Request, Begin(c, q)
  PROVE  /\ \A d \in Calls \ {c} : call'[d] = call[d]
         /\ call[c].pc = "idle" /\ call'[c].request = q
         /\ call'[c].pc \in {"closing", "lookup", "done"}
         /\ call'[c].answer \in {"none", "unknown", "not_found", "error", "ready"}
         /\ UNCHANGED <<provision, environments, expired, versions, results, ended>>
<1>1. PICK pc \in {"closing", "lookup", "done"},
           answer \in {"none", "unknown", "not_found", "error", "ready"} :
        call' = [call EXCEPT ![c] = [NewCall EXCEPT !.pc = pc, !.request = q, !.answer = answer]]
  BY DEF Begin
<1>2. /\ call[c].pc = "idle"
      /\ UNCHANGED <<provision, environments, expired, versions, results, ended>>
  BY DEF Begin, tables
<1>3. DOMAIN call = Calls
  BY DEF TypeOK
<1> QED
  BY <1>1, <1>2, <1>3 DEF NewCall

\* Rows are never changed, and versions are only appended.
LEMMA TablesGrow ==
  ASSUME TypeOK, [Next]_vars, NEW e \in Envs
  PROVE  /\ \A k \in Keys : results[e][k] # None => results'[e][k] = results[e][k]
         /\ Len(versions'[e]) >= Len(versions[e])
         /\ \A i \in 1..Len(versions[e]) : versions'[e][i] = versions[e][i]
<1>1. versions[e] \in Seq(Calls) /\ Len(versions[e]) \in Nat
  BY DEF TypeOK
<1>2. ASSUME NEW c \in Calls, CallStep(c)
      PROVE  /\ results' = results \/ InsertResult(c)
             /\ versions' = versions \/ AppendVersion(c)
  BY <1>2 DEF CallStep, Closed, CloseFails, Lookup, QueryFails, AppendVersion, SelectResult,
              InsertResult, tables
<1>3. ASSUME NEW c \in Calls, InsertResult(c), NEW k \in Keys, results[e][k] # None
      PROVE  results'[e][k] = results[e][k]
  <2>1. call[c].request \in Request /\ call[c].request.op = "record"
    BY <1>3, Requested DEF InsertResult, Queries
  <2>2. call[c].request.env \in Envs /\ call[c].request.key \in Keys
    BY <2>1, RequestFields
  <2> DEFINE q == call[c].request
  <2>3. CASE e = q.env /\ k = q.key
    BY <1>3, <2>3 DEF InsertResult, RowOf
  <2>4. CASE results' = [results EXCEPT ![q.env][q.key] = [digest |-> q.digest, result |-> c]]
             /\ ~(e = q.env /\ k = q.key)
    BY <2>2, <2>4 DEF TypeOK
  <2>5. CASE results' = results
    BY <2>5
  <2> QED
    BY <1>3, <2>3, <2>4, <2>5 DEF InsertResult
<1>4. ASSUME NEW c \in Calls, AppendVersion(c)
      PROVE  versions' = versions \/ versions'[e] = versions[e]
               \/ versions'[e] = Append(versions[e], c)
  <2>1. call[c].request.env \in Envs
    BY <1>4, Requested, RequestFields DEF AppendVersion, Queries
  <2> QED
    BY <1>4, <2>1 DEF AppendVersion, TypeOK
<1>5. results' = results \/ \E c \in Calls : InsertResult(c)
  BY <1>2 DEF Next, Begin, Provision, Provisioned, ProvisionFails, LeaseEnds, tables, vars
<1>6. versions' = versions \/ \E c \in Calls : AppendVersion(c)
  BY <1>2 DEF Next, Begin, Provision, Provisioned, ProvisionFails, LeaseEnds, tables, vars
<1>7. /\ Len(versions'[e]) >= Len(versions[e])
      /\ \A i \in 1..Len(versions[e]) : versions'[e][i] = versions[e][i]
  BY <1>1, <1>4, <1>6
<1> QED
  BY <1>3, <1>5, <1>7

-----------------------------------------------------------------------------
LEMMA AnswersStep == TypeOK /\ AnswersAgree /\ [Next]_vars => AnswersAgree'
<1> SUFFICES ASSUME TypeOK, AnswersAgree, [Next]_vars,
                    NEW d \in Calls, call'[d].answer \in {"recorded", "replayed"}
             PROVE  /\ RowOf(d)' = [digest |-> call'[d].request.digest,
                                    result |-> call'[d].result]
                    /\ call'[d].answer = "recorded" => call'[d].result = d
  BY DEF AnswersAgree
<1>1. CASE call'[d] = call[d]
  <2>1. /\ RowOf(d) = [digest |-> call[d].request.digest, result |-> call[d].result]
        /\ call[d].answer = "recorded" => call[d].result = d
    BY <1>1 DEF AnswersAgree
  <2>2. call[d].request \in Request /\ call[d].request.op = "record" /\ RowOf(d) # None
    <3>1. Coherent(call[d]) /\ call[d].request \in Request \cup {None}
      BY DEF TypeOK, CallRecord
    <3>2. call[d].request \in Request
      BY <1>1, <3>1 DEF Coherent
    <3>3. call[d].answer \in AnswersOf(call[d].request.op)
      BY <1>1, <3>1 DEF Coherent
    <3>4. call[d].request.op = "record"
      BY <1>1, <3>2, <3>3, RequestFields DEF AnswersOf
    <3>5. [digest |-> call[d].request.digest, result |-> call[d].result] \in Row
      BY <1>1, <3>1, <3>2, <3>4, RequestFields DEF TypeOK, CallRecord, Coherent, Row
    <3> QED
      BY <2>1, <3>2, <3>4, <3>5, NoneAssumption
  <2>3. RowOf(d)' = RowOf(d)
    BY <1>1, <2>2, RequestFields, TablesGrow DEF RowOf
  <2> QED
    BY <1>1, <2>1, <2>3
<1>2. ASSUME NEW q \in Request, Begin(d, q) PROVE FALSE
  BY <1>2, OneCallBegins
<1>3. CASE SelectResult(d)
  <2>1. /\ results' = results /\ call'[d].request = call[d].request
        /\ RowOf(d) # None /\ RowOf(d).digest = call[d].request.digest
        /\ call'[d].result = RowOf(d).result /\ call'[d].answer = "replayed"
    <3>1. call \in [Calls -> {r \in CallRecord : Coherent(r)}] /\ call[d].answer = "none"
      BY <1>3 DEF TypeOK, SelectResult, Queries, Coherent
    <3> QED
      BY <1>3, <3>1 DEF SelectResult, Answer, tables, CallRecord
  <2>2. RowOf(d) \in Row
    <3>1. call[d].request \in Request /\ call[d].request.op = "record"
      BY <1>3, Requested DEF SelectResult, Queries
    <3> QED
      BY <2>1, <3>1, RequestFields DEF TypeOK, RowOf
  <2>3. RowOf(d)' = RowOf(d)
    BY <2>1 DEF RowOf
  <2> QED
    BY <2>1, <2>2, <2>3 DEF Row
<1>4. CASE InsertResult(d)
  <2>1. /\ call[d].request \in Request /\ call[d].request.op = "record"
        /\ call[d].answer = "none" /\ call \in [Calls -> {r \in CallRecord : Coherent(r)}]
    BY <1>4, Requested DEF InsertResult, Queries, TypeOK, Coherent
  <2> DEFINE q == call[d].request
  <2>2. /\ results' = [results EXCEPT ![q.env][q.key] = [digest |-> q.digest, result |-> d]]
        /\ call'[d].answer = "recorded" /\ call'[d].result = d /\ call'[d].request = q
    BY <1>4, <2>1 DEF InsertResult, Answer, CallRecord
  <2>3. q.env \in Envs /\ q.key \in Keys
    BY <2>1, RequestFields
  <2>4. results'[q.env][q.key] = [digest |-> q.digest, result |-> d]
    BY <2>2, <2>3 DEF TypeOK
  <2> QED
    BY <2>2, <2>4 DEF RowOf
<1>5. ASSUME CallStep(d), ~SelectResult(d), ~InsertResult(d) PROVE FALSE
  <2>1. call \in [Calls -> {r \in CallRecord : Coherent(r)}] /\ call[d].answer = "none"
    BY <1>5, OneCallSteps DEF TypeOK, Coherent
  <2>2. Told(call[d].request.op) \notin {"recorded", "replayed"}
    BY DEF Told
  <2> QED
    BY <1>5, <2>1, <2>2
       DEF CallStep, Closed, CloseFails, Lookup, QueryFails, AppendVersion, Answer, CallRecord
<1>6. ASSUME NEW c \in Calls \ {d}, CallStep(c) \/ \E q \in Request : Begin(c, q)
      PROVE  call'[d] = call[d]
  BY <1>6, OneCallSteps, OneCallBegins
<1> QED
  BY <1>1, <1>2, <1>3, <1>4, <1>5, <1>6
     DEF Next, Provision, Provisioned, ProvisionFails, LeaseEnds, vars

-----------------------------------------------------------------------------
LEMMA Appended ==
  ASSUME NEW s \in Seq(Calls), NEW c \in Calls
  PROVE  /\ Len(s) \in Nat /\ Len(Append(s, c)) = Len(s) + 1
         /\ Append(s, c)[Len(s) + 1] = c
OBVIOUS

LEMMA AppendsStep ==
  TypeOK /\ AppendsAreCompareAndSwap /\ [Next]_vars => AppendsAreCompareAndSwap'
<1> SUFFICES ASSUME TypeOK, AppendsAreCompareAndSwap, [Next]_vars,
                    NEW d \in Calls, call'[d].answer = "appended"
             PROVE  LET q == call'[d].request IN
                    /\ call'[d].version = q.expected + 1
                    /\ call'[d].version \in 1..Len(versions'[q.env])
                    /\ versions'[q.env][call'[d].version] = d
  BY DEF AppendsAreCompareAndSwap
<1> DEFINE q == call[d].request
<1>1. CASE call'[d] = call[d]
  <2>1. /\ call[d].version = q.expected + 1
        /\ call[d].version \in 1..Len(versions[q.env])
        /\ versions[q.env][call[d].version] = d
    BY <1>1 DEF AppendsAreCompareAndSwap
  <2>2. q.env \in Envs
    <3>1. q \in Request
      BY <1>1 DEF TypeOK, CallRecord, Coherent
    <3> QED
      BY <3>1, RequestFields
  <2>3. Len(versions[q.env]) \in Nat /\ Len(versions'[q.env]) \in Nat
    <3>1. versions[q.env] \in Seq(Calls) /\ versions'[q.env] \in Seq(Calls)
      BY <2>2, TypeStep DEF TypeOK
    <3>2. \A told \in Seq(Calls) : Len(told) \in Nat
      OBVIOUS
    <3> QED
      BY ONLY <3>1, <3>2
  <2> QED
    BY <1>1, <2>1, <2>2, <2>3, TablesGrow
<1>2. ASSUME NEW r \in Request, Begin(d, r) PROVE FALSE
  BY <1>2, OneCallBegins
<1>3. CASE AppendVersion(d)
  <2>1. /\ q \in Request /\ q.op = "append" /\ call[d].answer = "none"
        /\ call \in [Calls -> {r \in CallRecord : Coherent(r)}]
    BY <1>3, Requested DEF AppendVersion, Queries, TypeOK, Coherent
  <2>2. q.env \in Envs /\ q.expected \in 0..MaxVersion
    BY <2>1, RequestFields
  <2>3. /\ Len(versions[q.env]) = q.expected
        /\ versions' = [versions EXCEPT ![q.env] = Append(@, d)]
        /\ call'[d].version = Len(versions[q.env]) + 1 /\ call'[d].request = q
    BY <1>3, <2>1 DEF AppendVersion, Answer, CallRecord
  <2>4. versions[q.env] \in Seq(Calls) /\ versions'[q.env] = Append(versions[q.env], d)
    BY <2>2, <2>3 DEF TypeOK
  <2>5. /\ Len(versions[q.env]) \in Nat /\ Len(versions'[q.env]) = Len(versions[q.env]) + 1
        /\ versions'[q.env][Len(versions[q.env]) + 1] = d
    <3> HIDE DEF q
    <3> QED
      BY <2>4, Appended
  <2> HIDE DEF q
  <2> QED
    BY <2>2, <2>3, <2>5
<1>4. ASSUME CallStep(d), ~AppendVersion(d) PROVE FALSE
  <2>1. call \in [Calls -> {r \in CallRecord : Coherent(r)}] /\ call[d].answer = "none"
    BY <1>4, OneCallSteps DEF TypeOK, Coherent
  <2>2. Told(call[d].request.op) # "appended"
    BY DEF Told
  <2> QED
    BY <1>4, <2>1, <2>2
       DEF CallStep, Closed, CloseFails, Lookup, QueryFails, SelectResult, InsertResult, Answer,
           CallRecord
<1>5. ASSUME NEW c \in Calls \ {d}, CallStep(c) \/ \E r \in Request : Begin(c, r)
      PROVE  call'[d] = call[d]
  BY <1>5, OneCallSteps, OneCallBegins
<1> QED
  BY <1>1, <1>2, <1>3, <1>4, <1>5
     DEF Next, Provision, Provisioned, ProvisionFails, LeaseEnds, vars

-----------------------------------------------------------------------------
(* The life of an environment.                                             *)

Owned(e) ==
  /\ database[e] = "open" => provision[e] = "migrating" \/ e \in environments
  /\ e \in environments /\ database[e] # "open" =>
       \E c \in Calls :
         /\ call[c].pc \in {"closing", "done"} /\ call[c].request.env = e
         /\ call[c].pc = "done" => call[c].answer = "error"

\* Closed, CloseFails: the only steps of a call that touch an environment.
LEMMA CallTouches ==
  ASSUME TypeOK, NEW c \in Calls, CallStep(c)
  PROVE  \/ /\ Closed(c) /\ call[c].request.env \in Envs /\ call[c].pc = "closing"
            /\ call'[c].pc = "done" /\ database'[call[c].request.env] = "closed"
            /\ \A e \in Envs \ {call[c].request.env} : database'[e] = database[e]
            /\ environments' = environments \ {call[c].request.env}
            /\ ended' = ended \cup {call[c].request.env}
         \/ /\ UNCHANGED <<environments, database, ended>>
            /\ call[c].pc = "closing" => call'[c].pc = "done" /\ call'[c].answer = "error"
<1>1. CASE Closed(c)
  <2>1. call[c].request.env \in Envs /\ call[c].pc = "closing"
    BY <1>1, Requested, RequestFields DEF Closed
  <2> QED
    BY <1>1, <2>1 DEF Closed, Answer, TypeOK, CallRecord
<1>2. CASE CloseFails(c)
  BY <1>2 DEF CloseFails, Answer, TypeOK, CallRecord
<1>3. CASE ~Closed(c) /\ ~CloseFails(c)
  BY <1>3 DEF CallStep, Lookup, QueryFails, AppendVersion, SelectResult, InsertResult, Queries
<1> QED
  BY <1>1, <1>2, <1>3

LEMMA LifeStep ==
  TypeOK /\ ProvisionedFirst /\ DatabasesAreOwned /\ EndedAreGone /\ [Next]_vars
    => ProvisionedFirst' /\ DatabasesAreOwned' /\ EndedAreGone'
<1> SUFFICES ASSUME TypeOK, ProvisionedFirst, DatabasesAreOwned, EndedAreGone, [Next]_vars
             PROVE  ProvisionedFirst' /\ DatabasesAreOwned' /\ EndedAreGone'
  OBVIOUS
<1>1. ASSUME NEW e \in Envs, Provision(e) \/ Provisioned(e) \/ ProvisionFails(e)
      PROVE  ProvisionedFirst' /\ DatabasesAreOwned' /\ EndedAreGone'
  <2>1. e \notin environments /\ provision[e] # "resolved" /\ e \notin ended
    BY <1>1 DEF ProvisionedFirst, EndedAreGone, Provision, Provisioned, ProvisionFails
  <2>2. /\ call' = call /\ ended' = ended /\ provision'[e] # "none"
        /\ \A x \in Envs \ {e} :
             /\ provision'[x] = provision[x] /\ database'[x] = database[x]
             /\ x \in environments' <=> x \in environments
    BY <1>1 DEF Provision, Provisioned, ProvisionFails, TypeOK
  <2>3. /\ provision'[e] = "migrating" => database'[e] = "open"
        /\ e \in environments' => provision'[e] = "resolved" /\ database'[e] = "open"
        /\ database'[e] = "open" => provision'[e] = "migrating" \/ e \in environments'
    BY <1>1, <2>1 DEF ProvisionedFirst, Provision, Provisioned, ProvisionFails, TypeOK
  <2>4. ASSUME NEW c \in Calls, call[c].pc = "closing"
        PROVE  provision'[call[c].request.env] = "resolved"
    <3>1. call[c].request.env \in Envs /\ provision[call[c].request.env] = "resolved"
      BY <2>4, Requested, RequestFields DEF ProvisionedFirst
    <3> QED
      BY <2>1, <2>2, <3>1
  <2>5. ProvisionedFirst'
    <3>1. ASSUME NEW x \in Envs
          PROVE  /\ provision'[x] = "migrating" => database'[x] = "open"
                 /\ provision'[x] = "none" => database'[x] = "none"
                 /\ x \in environments' => provision'[x] = "resolved"
      BY <2>2, <2>3 DEF ProvisionedFirst
    <3> QED
      BY <2>2, <2>4, <3>1 DEF ProvisionedFirst
  <2>6. ASSUME NEW x \in Envs PROVE Owned(x)'
    <3>1. CASE x = e
      BY <2>3, <3>1 DEF Owned
    <3>2. CASE x # e
      BY <2>2, <3>2 DEF DatabasesAreOwned, Owned
    <3> QED
      BY <3>1, <3>2
  <2>7. EndedAreGone'
    BY <2>1, <2>2 DEF EndedAreGone, TypeOK
  <2> QED
    BY <2>5, <2>6, <2>7 DEF DatabasesAreOwned, Owned
<1>2. ASSUME NEW c \in Calls, NEW q \in Request, Begin(c, q)
      PROVE  ProvisionedFirst' /\ DatabasesAreOwned' /\ EndedAreGone'
  <2> USE OneCallBegins, RequestFields
  <2>1. \/ UNCHANGED database /\ call'[c].pc # "closing"
        \/ /\ q.env \in environments /\ database[q.env] = "open" /\ call'[c].pc = "closing"
           /\ database' = [database EXCEPT ![q.env] = "closing"]
    <3> DEFINE Begun(pc, answer) ==
                 call' = [call EXCEPT ![c] = [NewCall EXCEPT !.pc = pc, !.request = q,
                                                !.answer = answer]]
    <3>1. ASSUME NEW pc, NEW answer, Begun(pc, answer) PROVE call'[c].pc = pc
      BY <3>1 DEF NewCall, TypeOK
    <3>2. \/ /\ q.env \in environments /\ database[q.env] = "open" /\ Begun("closing", "none")
             /\ database' = [database EXCEPT ![q.env] = "closing"]
          \/ /\ UNCHANGED database
             /\ \/ Begun("done", "unknown") \/ Begun("done", "not_found") \/ Begun("done", "error")
                \/ Begun("done", "ready") \/ Begun("lookup", "none")
      BY <1>2 DEF Begin
    <3> HIDE DEF Begun
    <3> QED
      BY <3>1, <3>2
  <2>2. ProvisionedFirst'
    <3>1. UNCHANGED <<provision, environments>> /\ \A d \in Calls \ {c} : call'[d] = call[d]
      <4>1. UNCHANGED <<provision, environments>>
        BY <1>2 DEF Begin
      <4>2. \A d \in Calls \ {c} : call'[d] = call[d]
        BY <1>2
      <4> QED BY <4>1, <4>2
    <3>2. \A e \in Envs :
            database'[e] # database[e] => e = q.env /\ database[e] = "open" /\ e \in environments
      <4>1. database \in [Envs -> {"none", "open", "closing", "closed"}]
        BY DEF TypeOK
      <4> QED BY <2>1, <4>1
    <3>3. ASSUME NEW e \in Envs
          PROVE  /\ provision'[e] = "migrating" => database'[e] = "open"
                 /\ provision'[e] = "none" => database'[e] = "none"
                 /\ e \in environments' => provision'[e] = "resolved"
      BY <3>1, <3>2 DEF ProvisionedFirst
    <3>4. call'[c].pc = "closing" => provision'[call'[c].request.env] = "resolved"
      BY <1>2, <2>1, <3>1 DEF ProvisionedFirst
    <3>5. ASSUME NEW d \in Calls \ {c}
          PROVE  call'[d].pc = "closing" => provision'[call'[d].request.env] = "resolved"
      BY <3>1 DEF ProvisionedFirst
    <3> QED
      BY <3>3, <3>4, <3>5 DEF ProvisionedFirst
  <2>3. ASSUME NEW e \in Envs PROVE Owned(e)'
    <3>1. Owned(e)
      BY DEF DatabasesAreOwned, Owned
    <3>2. CASE UNCHANGED database
      <4>1. UNCHANGED <<provision, environments>>
        BY <1>2
      <4>2. ASSUME NEW d \in Calls, call[d].pc \in {"closing", "done"} PROVE call'[d] = call[d]
        BY <1>2, <4>2
      <4> QED BY ONLY <3>1, <3>2, <4>1, <4>2 DEF Owned
    <3>3. CASE q.env = e /\ call'[c].pc = "closing" /\ database' = [database EXCEPT ![q.env] = "closing"]
      BY <1>2, <3>3 DEF Owned, TypeOK
    <3>4. CASE q.env # e /\ database' = [database EXCEPT ![q.env] = "closing"]
      <4>1. database'[e] = database[e] /\ UNCHANGED <<provision, environments>>
        BY <1>2, <3>4 DEF TypeOK
      <4>2. ASSUME NEW d \in Calls, call[d].pc \in {"closing", "done"} PROVE call'[d] = call[d]
        BY <1>2, <4>2
      <4> QED
        BY <3>1, <4>1, <4>2 DEF Owned
    <3> QED
      BY <2>1, <3>2, <3>3, <3>4
  <2>4. EndedAreGone'
    BY <1>2, <2>1 DEF EndedAreGone, TypeOK
  <2> QED
    BY <2>2, <2>3, <2>4 DEF DatabasesAreOwned, Owned
<1>3. ASSUME NEW c \in Calls, CallStep(c)
      PROVE  ProvisionedFirst' /\ DatabasesAreOwned' /\ EndedAreGone'
  <2> DEFINE env == call[c].request.env
  <2>1. provision' = provision /\ \A d \in Calls \ {c} : call'[d] = call[d]
    BY <1>3, OneCallSteps
  <2>2. call'[c].pc # "closing" /\ call'[c].request = call[c].request
    BY <1>3, OneCallSteps
  <2>3. CASE /\ Closed(c) /\ env \in Envs /\ call[c].pc = "closing"
             /\ call'[c].pc = "done" /\ database'[env] = "closed"
             /\ \A e \in Envs \ {env} : database'[e] = database[e]
             /\ environments' = environments \ {env}
             /\ ended' = ended \cup {env}
    <3>1. provision[env] = "resolved"
      BY <2>3 DEF ProvisionedFirst
    <3>2. ProvisionedFirst'
      BY <2>1, <2>2, <2>3, <3>1 DEF ProvisionedFirst
    <3>3. ASSUME NEW e \in Envs PROVE Owned(e)'
      BY <2>1, <2>2, <2>3 DEF DatabasesAreOwned, Owned
    <3>4. EndedAreGone'
      BY <2>1, <2>3, <3>1 DEF EndedAreGone, TypeOK
    <3> QED
      BY <3>2, <3>3, <3>4 DEF DatabasesAreOwned, Owned
  <2>4. CASE /\ UNCHANGED <<environments, database, ended>>
             /\ call[c].pc = "closing" => call'[c].pc = "done" /\ call'[c].answer = "error"
    <3>1. ProvisionedFirst'
      BY <2>1, <2>2, <2>4 DEF ProvisionedFirst
    <3>2. call[c].pc # "done"
      BY <1>3, OneCallSteps
    <3>3. ASSUME NEW e \in Envs PROVE Owned(e)'
      BY <2>1, <2>2, <2>4, <3>2 DEF DatabasesAreOwned, Owned
    <3>4. EndedAreGone'
      BY <2>1, <2>4 DEF EndedAreGone
    <3> QED
      BY <3>1, <3>3, <3>4 DEF DatabasesAreOwned, Owned
  <2> QED
    BY <1>3, <2>3, <2>4, CallTouches
<1>4. CASE UNCHANGED vars \/ \E e \in Envs : LeaseEnds(e)
  BY <1>4 DEF ProvisionedFirst, DatabasesAreOwned, EndedAreGone, LeaseEnds, vars
<1> QED
  BY <1>1, <1>2, <1>3, <1>4 DEF Next

-----------------------------------------------------------------------------
LEMMA NextIInv == IInv /\ [Next]_vars => IInv'
BY TypeStep, AnswersStep, AppendsStep, LifeStep DEF IInv

LEMMA Invariance == Spec => []IInv
BY InitIInv, NextIInv, PTL DEF Spec

\* The state has its type, whatever is asked of which environment.
THEOREM TypeCorrect == Spec => []TypeOK
<1>1. IInv => TypeOK
  BY DEF IInv
<1> QED
  BY <1>1, Invariance, PTL

\* One result per command: everyone who gets a result gets the one on record
\* (recordCommandResult, with any number of overlapping calls).
THEOREM OneResult == Spec => []AnswersAgree
<1>1. IInv => AnswersAgree
  BY DEF IInv
<1> QED
  BY <1>1, Invariance, PTL

\* No lost update: an acknowledged version follows the expected one and keeps its payload
\* (append_resource_version).
THEOREM NoLostVersion == Spec => []AppendsAreCompareAndSwap
<1>1. IInv => AppendsAreCompareAndSwap
  BY DEF IInv
<1> QED
  BY <1>1, Invariance, PTL

\* No open database outside the map (provision, inspect and destroy with failing steps).
THEOREM NoStrayDatabase == Spec => []DatabasesAreOwned
<1>1. IInv => DatabasesAreOwned
  BY DEF IInv
<1> QED
  BY <1>1, Invariance, PTL

\* What some caller was told is no more is neither written nor found again.
THEOREM NoLifeAfterEnd == Spec => EndIsFinal
<1>1. ASSUME IInv, [Next]_vars, NEW e \in ended
      PROVE  /\ versions'[e] = versions[e] /\ results'[e] = results[e] /\ e \notin environments'
             /\ \A c \in Calls : call[c].pc = "idle" /\ call'[c].pc # "idle" /\ call'[c].request.env = e
                  => call'[c].answer \in {"unknown", "not_found"}
  <2>1. /\ TypeOK /\ e \in Envs /\ e \in ended'
        /\ database[e] = "closed" /\ e \notin environments
    <3>1. TypeOK /\ e \in Envs /\ database[e] = "closed" /\ e \notin environments
      BY <1>1 DEF IInv, EndedAreGone, TypeOK
    <3>2. \A c \in Calls : CallStep(c) => ended \subseteq ended'
      BY <3>1, CallTouches
    <3> QED
      BY <1>1, <3>1, <3>2 DEF Next, Begin, Provision, Provisioned, ProvisionFails, LeaseEnds, vars
  <2>2. e \notin environments'
    BY <1>1, <2>1, NextIInv DEF IInv, EndedAreGone
  <2>3. ASSUME NEW c \in Calls, AppendVersion(c) PROVE versions'[e] = versions[e]
    <3>1. call[c].request.env # e
      BY <2>1, <2>3 DEF AppendVersion, Queries
    <3> QED
      BY <2>1, <2>3, <3>1 DEF AppendVersion, TypeOK
  <2>4. ASSUME NEW c \in Calls, InsertResult(c) PROVE results'[e] = results[e]
    <3>1. call[c].request.env # e
      BY <2>1, <2>4 DEF InsertResult, Queries
    <3> QED
      BY <2>1, <2>4, <3>1 DEF InsertResult, TypeOK
  <2>5. ASSUME NEW c \in Calls, CallStep(c)
        PROVE  versions'[e] = versions[e] /\ results'[e] = results[e]
    BY <2>3, <2>4, <2>5
       DEF CallStep, Closed, CloseFails, Lookup, QueryFails, AppendVersion, SelectResult,
           InsertResult, tables
  <2>6. versions'[e] = versions[e] /\ results'[e] = results[e]
    BY <1>1, <2>5 DEF Next, Begin, Provision, Provisioned, ProvisionFails, LeaseEnds, tables, vars
  <2>7. ASSUME NEW c \in Calls, call[c].pc = "idle", call'[c].pc # "idle", call'[c].request.env = e
        PROVE  call'[c].answer \in {"unknown", "not_found"}
    <3>1. PICK q \in Request : Begin(c, q)
      <4>1. \A d \in Calls : CallStep(d) => call'[c] = call[c]
        BY <2>1, <2>7, OneCallSteps
      <4>2. \A d \in Calls \ {c}, q \in Request : Begin(d, q) => call'[c] = call[c]
        BY <2>1, <2>7, OneCallBegins
      <4> QED
        BY <1>1, <2>7, <4>1, <4>2
           DEF Next, Provision, Provisioned, ProvisionFails, LeaseEnds, vars
    <3>2. q.env = e
      BY <2>1, <2>7, <3>1, OneCallBegins
    <3> QED
      BY <2>1, <3>1, <3>2 DEF Begin, TypeOK, NewCall
  <2> QED
    BY <2>2, <2>6, <2>7
<1>2. IInv /\ [Next]_vars => [EndedStay]_vars
  BY <1>1 DEF EndedStay
<1> QED
  BY <1>2, Invariance, PTL DEF Spec, EndIsFinal

-----------------------------------------------------------------------------
(* Recordings and appends: no answer is ever withdrawn.                    *)
THEOREM NoAnswerIsWithdrawn == Spec => []AnswersStand
BY OneResult, NoLostVersion, PTL DEF AnswersStand

(* Databases and environments end together, and for good.                  *)
THEOREM CleanEnds == Spec => EndsAreClean
<1>1. DatabasesAreOwned' /\ [EndedStay]_vars => [DatabasesAreOwned' /\ EndedStay]_vars
  OBVIOUS
<1> QED
  BY <1>1, NoStrayDatabase, NoLifeAfterEnd, PTL DEF EndIsFinal, EndsAreClean
=============================================================================
