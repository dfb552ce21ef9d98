------------------------- MODULE Idempotency_proofs -------------------------
(* What the idempotency service guarantees to any number of callers.       *)
EXTENDS Idempotency, TLAPS

IdempotencyInv == TypeOK /\ OneAnswer /\ ReservationHasWorker

(* The values a step writes are records and calls of the service.          *)
LEMMA WrittenValues ==
    /\ \A r \in Record : Retried(r) \in Record /\ Failed(r) \in Record
    /\ \A r \in Record, a \in Answer : Completed(r, a) \in Record
    /\ \A call \in Call : /\ Reservation(call) \in Record
                          /\ Working(call) \in Call
                          /\ call # Idle
    /\ \A call \in Call, pc \in {"arrived", "effect", "complete", "fail"} :
          [call EXCEPT !.pc = pc] \in Call
  <1>1. \A r \in Record : Retried(r) \in Record /\ Failed(r) \in Record
    BY DEF Retried, Failed, Record
  <1>2. \A r \in Record, a \in Answer : Completed(r, a) \in Record
    BY NoneAssumption DEF Completed, Record
  <1>3. \A call \in Call : Reservation(call) \in Record
    BY DEF Reservation, Record, Call, Time
  <1>4. \A call \in Call : Working(call) \in Call
    BY DEF Working, Call
  <1>5. \A call \in Call : call # Idle
    BY DEF Call, Idle
  <1>6. \A call \in Call, pc \in {"arrived", "effect", "complete", "fail"} :
          [call EXCEPT !.pc = pc] \in Call
    BY DEF Call
  <1>. QED  BY <1>1, <1>2, <1>3, <1>4, <1>5, <1>6

(* Every step keeps the types.                                             *)
LEMMA TypeStep == TypeOK /\ [Next]_vars => TypeOK'
  <1>. SUFFICES ASSUME TypeOK, [Next]_vars PROVE TypeOK'
    OBVIOUS
  <1>. USE DEF TypeOK
  <1>1. CASE UNCHANGED vars
    BY <1>1 DEF vars
  <1>2. CASE Tick
    BY <1>2, TimeAssumption DEF Tick, Time
  <1>3. ASSUME NEW c \in Caller, NEW s \in Scope, NEW q \in Request,
               NEW until \in 1..(MaxTime + 1), NEW a \in Answer,
               Arrive(c, s, q, until, a)
        PROVE TypeOK'
    <2>1. [pc |-> "arrived", scope |-> s, request |-> q, at |-> now, until |-> until,
           answer |-> a] \in Call
      BY <1>3 DEF Call, Arrive
    <2>. QED  BY <1>3, <2>1 DEF Arrive
  <1>4. ASSUME NEW c \in Caller, Reserve(c) PROVE TypeOK'
    <2>. DEFINE s == calls[c].scope
    <2>1. calls[c] \in Call /\ s \in Scope
      BY <1>4 DEF Reserve, Call
    <2>3. Reservation(calls[c]) \in Record /\ Working(calls[c]) \in Call
      BY <2>1, WrittenValues
    <2>. QED  BY <1>4, <2>1, <2>3 DEF Reserve
  <1>5. ASSUME NEW c \in Caller, Retry(c) PROVE TypeOK'
    <2>1. calls[c] \in Call /\ calls[c].scope \in Scope
      BY <1>5 DEF Retry, Call
    <2>2. records[calls[c].scope] \in Record
      BY <1>5, <2>1 DEF Retry, Retriable, Vacant
    <2>. QED  BY <1>5, <2>1, <2>2, WrittenValues DEF Retry
  <1>6. ASSUME NEW c \in Caller, Replay(c) PROVE TypeOK'
    <2>1. calls[c] \in Call /\ calls[c].scope \in Scope
      BY <1>6 DEF Replay, Call
    <2>2. records[calls[c].scope] \in Record
      BY <1>6, <2>1 DEF Replay, Replayed, Vacant
    <2>3. records[calls[c].scope].answer \in Answer
      BY <1>6, <2>2 DEF Replay, Replayed, Record
    <2>. QED  BY <1>6, <2>1, <2>3 DEF Replay
  <1>7. ASSUME NEW c \in Caller, TurnAway(c) PROVE TypeOK'
    BY <1>7 DEF TurnAway
  <1>8. ASSUME NEW c \in Caller, EffectReturns(c) PROVE TypeOK'
    <2>1. calls[c] \in Call /\ calls[c].scope \in Scope
      BY <1>8 DEF EffectReturns, Call
    <2>2. [calls[c] EXCEPT !.pc = "complete"] \in Call
      BY <2>1, WrittenValues
    <2>. QED  BY <1>8, <2>1, <2>2 DEF EffectReturns
  <1>9. ASSUME NEW c \in Caller, EffectRaises(c) PROVE TypeOK'
    <2>1. calls[c] \in Call
      BY <1>9 DEF EffectRaises
    <2>2. [calls[c] EXCEPT !.pc = "fail"] \in Call
      BY <2>1, WrittenValues
    <2>. QED  BY <1>9, <2>2 DEF EffectRaises
  <1>10. ASSUME NEW c \in Caller, Complete(c) PROVE TypeOK'
    <2>1. calls[c] \in Call /\ calls[c].scope \in Scope /\ calls[c].answer \in Answer
      BY <1>10 DEF Complete, Call
    <2>2. CASE Completable(records[calls[c].scope], calls[c])
      <3>1. records[calls[c].scope] \in Record
        BY <2>1, <2>2 DEF Completable
      <3>2. Completed(records[calls[c].scope], calls[c].answer) \in Record
        BY <2>1, <3>1, WrittenValues
      <3>. QED  BY <1>10, <2>1, <2>2, <3>2 DEF Complete
    <2>3. CASE ~ Completable(records[calls[c].scope], calls[c])
      BY <1>10, <2>3 DEF Complete
    <2>. QED  BY <2>2, <2>3
  <1>11. ASSUME NEW c \in Caller, Fail(c) PROVE TypeOK'
    <2>1. calls[c] \in Call /\ calls[c].scope \in Scope
      BY <1>11 DEF Fail, Call
    <2>2. CASE Failable(records[calls[c].scope], calls[c])
      <3>1. Failed(records[calls[c].scope]) \in Record
        BY <2>1, <2>2, WrittenValues DEF Failable
      <3>. QED  BY <1>11, <2>1, <2>2, <3>1 DEF Fail
    <2>3. CASE ~ Failable(records[calls[c].scope], calls[c])
      BY <1>11, <2>3 DEF Fail
    <2>. QED  BY <2>2, <2>3
  <1>. QED  BY <1>1, <1>2, <1>3, <1>4, <1>5, <1>6, <1>7, <1>8, <1>9, <1>10, <1>11 DEF Next

(* The two promises, one at a time: what a caller is told ...              *)
LEMMA AnswerStep == TypeOK /\ OneAnswer /\ [Next]_vars => OneAnswer'
  <1>. SUFFICES ASSUME TypeOK, OneAnswer, [Next]_vars, NEW s \in Scope
                PROVE  /\ \A a, b \in given'[s] : a = b
                       /\ given'[s] # {} => /\ records'[s] # None
                                            /\ records'[s].state = "COMPLETED"
                                            /\ records'[s].answer \in given'[s]
    BY DEF OneAnswer
  <1>. USE DEF TypeOK
  <1>. DEFINE Told == /\ \A a, b \in given[s] : a = b
                      /\ given[s] # {} => /\ records[s] # None
                                          /\ records[s].state = "COMPLETED"
                                          /\ records[s].answer \in given[s]
  <1>0. Told
    BY DEF OneAnswer
  <1>a. ASSUME records'[s] = records[s], given'[s] = given[s] PROVE Told'
    BY <1>0, <1>a
  <1>1. CASE UNCHANGED vars
    BY <1>1, <1>a DEF vars
  <1>2. CASE Tick
    BY <1>2, <1>a DEF Tick
  <1>3. ASSUME NEW c \in Caller, NEW r \in Scope, NEW q \in Request,
               NEW until \in 1..(MaxTime + 1), NEW a \in Answer,
               Arrive(c, r, q, until, a)
        PROVE Told'
    BY <1>3, <1>a DEF Arrive
  <1>4. ASSUME NEW c \in Caller, Reserve(c) PROVE Told'
    <2>1. calls[c] \in Call /\ calls[c].scope \in Scope
      BY <1>4 DEF Reserve, Call
    <2>2. CASE calls[c].scope = s
      BY <1>4, <2>1, <2>2 DEF Reserve
    <2>3. CASE calls[c].scope # s
      BY <1>4, <1>a, <2>1, <2>3 DEF Reserve
    <2>. QED  BY <2>2, <2>3
  <1>5. ASSUME NEW c \in Caller, Retry(c) PROVE Told'
    <2>1. calls[c] \in Call /\ calls[c].scope \in Scope
      BY <1>5 DEF Retry, Call
    <2>2. CASE calls[c].scope = s
      <3>1. given[s] = {}
        BY <1>0, <1>5, <2>2 DEF Retry, Retriable
      <3>. QED  BY <1>5, <3>1 DEF Retry
    <2>3. CASE calls[c].scope # s
      BY <1>5, <1>a, <2>1, <2>3 DEF Retry
    <2>. QED  BY <2>2, <2>3
  <1>6. ASSUME NEW c \in Caller, Replay(c) PROVE Told'
    <2>1. calls[c] \in Call /\ calls[c].scope \in Scope
      BY <1>6 DEF Replay, Call
    <2>2. CASE calls[c].scope = s
      <3>1. given'[s] = given[s] \cup {records[s].answer} /\ records' = records
        BY <1>6, <2>2 DEF Replay
      <3>2. records[s] # None /\ records[s].state = "COMPLETED"
        BY <1>6, <2>2 DEF Replay, Replayed, Vacant
      <3>. QED  BY <1>0, <3>1, <3>2
    <2>3. CASE calls[c].scope # s
      BY <1>6, <1>a, <2>1, <2>3 DEF Replay
    <2>. QED  BY <2>2, <2>3
  <1>7. ASSUME NEW c \in Caller, TurnAway(c) PROVE Told'
    BY <1>7, <1>a DEF TurnAway
  <1>8. ASSUME NEW c \in Caller, EffectReturns(c) PROVE Told'
    BY <1>8, <1>a DEF EffectReturns
  <1>9. ASSUME NEW c \in Caller, EffectRaises(c) PROVE Told'
    BY <1>9, <1>a DEF EffectRaises
  <1>10. ASSUME NEW c \in Caller, Complete(c) PROVE Told'
    <2>1. calls[c] \in Call /\ calls[c].scope \in Scope
      BY <1>10 DEF Complete, Call
    <2>2. CASE ~ Completable(records[calls[c].scope], calls[c])
      BY <1>10, <1>a, <2>2 DEF Complete
    <2>3. CASE calls[c].scope # s /\ Completable(records[calls[c].scope], calls[c])
      BY <1>10, <1>a, <2>1, <2>3 DEF Complete
    <2>4. CASE calls[c].scope = s /\ Completable(records[s], calls[c])
      <3>1. records[s] \in Record
        BY <2>4 DEF Completable
      <3>2. /\ records'[s] = Completed(records[s], calls[c].answer)
            /\ given'[s] = given[s] \cup {calls[c].answer}
        BY <1>10, <2>4 DEF Complete
      <3>3. /\ Completed(records[s], calls[c].answer).state = "COMPLETED"
            /\ Completed(records[s], calls[c].answer).answer = calls[c].answer
        BY <3>1 DEF Completed, Record
      <3>4. Completed(records[s], calls[c].answer) # None
        BY <2>1, <3>1, WrittenValues, NoneAssumption DEF Call
      <3>5. \A a \in given[s] : a = calls[c].answer
        BY <1>0, <2>4 DEF Completable
      <3>. QED  BY <3>2, <3>3, <3>4, <3>5
    <2>. QED  BY <2>2, <2>3, <2>4
  <1>11. ASSUME NEW c \in Caller, Fail(c) PROVE Told'
    <2>1. calls[c] \in Call /\ calls[c].scope \in Scope
      BY <1>11 DEF Fail, Call
    <2>2. CASE ~ Failable(records[calls[c].scope], calls[c])
      BY <1>11, <1>a, <2>2 DEF Fail
    <2>3. CASE calls[c].scope # s
      BY <1>11, <1>a, <2>1, <2>3 DEF Fail
    <2>4. CASE calls[c].scope = s /\ Failable(records[s], calls[c])
      <3>1. given[s] = {}
        BY <1>0, <2>4 DEF Failable
      <3>. QED  BY <1>11, <3>1 DEF Fail
    <2>. QED  BY <2>2, <2>3, <2>4
  <1>12. Told'
    BY <1>1, <1>2, <1>3, <1>4, <1>5, <1>6, <1>7, <1>8, <1>9, <1>10, <1>11 DEF Next
  <1>. QED  BY <1>12

(* ... and that somebody is at work on what is pending.                    *)
AtWork(k, s, request) ==
    k # Idle /\ k.pc \in {"effect", "complete", "fail"} /\ k.scope = s /\ k.request = request

LEMMA WorkerStep == TypeOK /\ ReservationHasWorker /\ [Next]_vars => ReservationHasWorker'
  <1>. SUFFICES ASSUME TypeOK, ReservationHasWorker, [Next]_vars, NEW s \in Scope,
                       records'[s] # None, records'[s].state = "PENDING"
                PROVE  \E c \in Caller : AtWork(calls'[c], s, records'[s].request)
    BY DEF ReservationHasWorker, AtWork
  <1>. USE DEF TypeOK
  <1>. DEFINE Goal == \E c \in Caller : AtWork(calls'[c], s, records'[s].request)
  <1>0. ASSUME records[s] # None, records[s].state = "PENDING"
        PROVE  \E d \in Caller : AtWork(calls[d], s, records[s].request)
    BY <1>0 DEF ReservationHasWorker, AtWork
  (* A step that leaves the record alone, and takes no worker from it.     *)
  <1>a. ASSUME NEW c \in Caller, records'[s] = records[s],
               \A d \in Caller \ {c} : calls'[d] = calls[d],
               AtWork(calls[c], s, records[s].request) =>
                  AtWork(calls'[c], s, records[s].request)
        PROVE  Goal
    <2>1. PICK d \in Caller : AtWork(calls[d], s, records[s].request)
      BY <1>0, <1>a
    <2>. QED  BY <1>a, <2>1
  <1>1. CASE UNCHANGED vars
    BY <1>0, <1>1 DEF vars
  <1>2. CASE Tick
    BY <1>0, <1>2 DEF Tick
  <1>3. ASSUME NEW c \in Caller, NEW r \in Scope, NEW q \in Request,
               NEW until \in 1..(MaxTime + 1), NEW a \in Answer,
               Arrive(c, r, q, until, a)
        PROVE Goal
    <2>1. records' = records /\ \A d \in Caller \ {c} : calls'[d] = calls[d]
      BY <1>3 DEF Arrive
    <2>2. ~ AtWork(calls[c], s, records[s].request)
      BY <1>3 DEF Arrive, AtWork
    <2>. QED  BY <1>a, <2>1, <2>2
  <1>4. ASSUME NEW c \in Caller, Reserve(c) PROVE Goal
    <2>1. calls[c] \in Call /\ calls[c].scope \in Scope
      BY <1>4 DEF Reserve, Call
    <2>2. CASE calls[c].scope = s
      <3>1. records'[s] = Reservation(calls[c]) /\ calls'[c] = Working(calls[c])
        BY <1>4, <2>1, <2>2 DEF Reserve
      <3>2. records'[s].request = calls[c].request
        BY <3>1 DEF Reservation
      <3>3. Working(calls[c]) \in Call /\ Working(calls[c]) # Idle
        BY <2>1, WrittenValues
      <3>4. /\ Working(calls[c]).pc = "effect"
            /\ Working(calls[c]).scope = s
            /\ Working(calls[c]).request = calls[c].request
        BY <2>1, <2>2 DEF Working, Call
      <3>. QED  BY <3>1, <3>2, <3>3, <3>4 DEF AtWork
    <2>3. CASE calls[c].scope # s
      <3>1. records'[s] = records[s]
        BY <1>4, <2>1, <2>3 DEF Reserve
      <3>2. PICK d \in Caller : AtWork(calls[d], s, records[s].request)
        BY <1>0, <3>1
      <3>3. d # c
        BY <2>3, <3>2 DEF AtWork
      <3>4. calls'[d] = calls[d]
        BY <1>4, <3>3 DEF Reserve
      <3>. QED  BY <3>1, <3>2, <3>4
    <2>. QED  BY <2>2, <2>3
  <1>5. ASSUME NEW c \in Caller, Retry(c) PROVE Goal
    <2>1. calls[c] \in Call /\ calls[c].scope \in Scope
      BY <1>5 DEF Retry, Call
    <2>2. calls'[c] = Working(calls[c]) /\ \A d \in Caller \ {c} : calls'[d] = calls[d]
      BY <1>5 DEF Retry
    <2>3. CASE calls[c].scope = s
      <3>1. records[s] \in Record /\ records[s].request = calls[c].request
        BY <1>5, <2>1, <2>3 DEF Retry, Retriable, Vacant
      <3>2. records'[s] = Retried(records[s])
        BY <1>5, <2>3 DEF Retry
      <3>3. records'[s].request = calls[c].request
        BY <3>1, <3>2 DEF Retried, Record
      <3>4. Working(calls[c]) \in Call /\ Working(calls[c]) # Idle
        BY <2>1, WrittenValues
      <3>5. /\ Working(calls[c]).pc = "effect"
            /\ Working(calls[c]).scope = s
            /\ Working(calls[c]).request = calls[c].request
        BY <2>1, <2>3 DEF Working, Call
      <3>. QED  BY <2>2, <3>3, <3>4, <3>5 DEF AtWork
    <2>4. CASE calls[c].scope # s
      <3>1. records'[s] = records[s]
        BY <1>5, <2>1, <2>4 DEF Retry
      <3>2. ~ AtWork(calls[c], s, records[s].request)
        BY <2>4 DEF AtWork
      <3>. QED  BY <1>a, <2>2, <3>1, <3>2
    <2>. QED  BY <2>3, <2>4
  <1>6. ASSUME NEW c \in Caller, Replay(c) PROVE Goal
    BY <1>6, <1>a DEF Replay, AtWork
  <1>7. ASSUME NEW c \in Caller, TurnAway(c) PROVE Goal
    BY <1>7, <1>a DEF TurnAway, AtWork
  <1>8. ASSUME NEW c \in Caller, EffectReturns(c) PROVE Goal
    <2>1. calls[c] \in Call
      BY <1>8 DEF EffectReturns
    <2>2. calls'[c] = [calls[c] EXCEPT !.pc = "complete"] /\ records' = records
          /\ \A d \in Caller \ {c} : calls'[d] = calls[d]
      BY <1>8 DEF EffectReturns
    <2>3. [calls[c] EXCEPT !.pc = "complete"] # Idle
      BY <2>1, WrittenValues
    <2>4. AtWork(calls[c], s, records[s].request) => AtWork(calls'[c], s, records[s].request)
      BY <2>1, <2>2, <2>3 DEF AtWork, Call
    <2>. QED  BY <1>a, <2>2, <2>4
  <1>9. ASSUME NEW c \in Caller, EffectRaises(c) PROVE Goal
    <2>1. calls[c] \in Call
      BY <1>9 DEF EffectRaises
    <2>2. calls'[c] = [calls[c] EXCEPT !.pc = "fail"] /\ records' = records
          /\ \A d \in Caller \ {c} : calls'[d] = calls[d]
      BY <1>9 DEF EffectRaises
    <2>3. [calls[c] EXCEPT !.pc = "fail"] # Idle
      BY <2>1, WrittenValues
    <2>4. AtWork(calls[c], s, records[s].request) => AtWork(calls'[c], s, records[s].request)
      BY <2>1, <2>2, <2>3 DEF AtWork, Call
    <2>. QED  BY <1>a, <2>2, <2>4
  <1>10. ASSUME NEW c \in Caller, Complete(c) PROVE Goal
    <2>1. calls[c] \in Call /\ calls[c].scope \in Scope
      BY <1>10 DEF Complete, Call
    <2>2. \A d \in Caller \ {c} : calls'[d] = calls[d]
      BY <1>10 DEF Complete
    <2>3. CASE Completable(records[calls[c].scope], calls[c])
      <3>1. calls[c].scope # s
        <4>1. SUFFICES ASSUME calls[c].scope = s PROVE FALSE
          OBVIOUS
        <4>2. records[s] \in Record /\ records'[s] = Completed(records[s], calls[c].answer)
          BY <1>10, <2>3, <4>1 DEF Complete, Completable
        <4>. QED  BY <4>2 DEF Completed, Record
      <3>2. records'[s] = records[s]
        BY <1>10, <2>1, <2>3, <3>1 DEF Complete
      <3>. QED  BY <1>a, <2>2, <3>1, <3>2 DEF AtWork
    <2>4. CASE ~ Completable(records[calls[c].scope], calls[c])
      <3>1. records' = records
        BY <1>10, <2>4 DEF Complete
      <3>2. ~ AtWork(calls[c], s, records[s].request)
        BY <2>4, <3>1 DEF AtWork, Completable
      <3>. QED  BY <1>a, <2>2, <3>1, <3>2
    <2>. QED  BY <2>3, <2>4
  <1>11. ASSUME NEW c \in Caller, Fail(c) PROVE Goal
    <2>1. calls[c] \in Call /\ calls[c].scope \in Scope
      BY <1>11 DEF Fail, Call
    <2>2. \A d \in Caller \ {c} : calls'[d] = calls[d]
      BY <1>11 DEF Fail
    <2>3. CASE Failable(records[calls[c].scope], calls[c])
      <3>1. calls[c].scope # s
        <4>1. SUFFICES ASSUME calls[c].scope = s PROVE FALSE
          OBVIOUS
        <4>2. records[s] \in Record /\ records'[s] = Failed(records[s])
          BY <1>11, <2>3, <4>1 DEF Fail, Failable
        <4>. QED  BY <4>2 DEF Failed, Record
      <3>2. records'[s] = records[s]
        BY <1>11, <2>1, <2>3, <3>1 DEF Fail
      <3>. QED  BY <1>a, <2>2, <3>1, <3>2 DEF AtWork
    <2>4. CASE ~ Failable(records[calls[c].scope], calls[c])
      <3>1. records' = records
        BY <1>11, <2>4 DEF Fail
      <3>2. ~ AtWork(calls[c], s, records[s].request)
        BY <2>4, <3>1 DEF AtWork, Failable
      <3>. QED  BY <1>a, <2>2, <3>1, <3>2
    <2>. QED  BY <2>3, <2>4
  <1>. QED  BY <1>1, <1>2, <1>3, <1>4, <1>5, <1>6, <1>7, <1>8, <1>9, <1>10, <1>11 DEF Next

LEMMA Initially == Init => IdempotencyInv
  BY TimeAssumption, NoneAssumption
     DEF Init, IdempotencyInv, TypeOK, OneAnswer, ReservationHasWorker, Time

(* The types and the two promises are inductive together: a caller at work *)
(* on a scope is what a pending record is there for.                       *)
THEOREM IdempotencyInvariance == Spec => []IdempotencyInv
  <1>1. IdempotencyInv /\ [Next]_vars => IdempotencyInv'
    BY TypeStep, AnswerStep, WorkerStep DEF IdempotencyInv
  <1>. QED  BY Initially, <1>1, PTL DEF Spec

(* Records and calls have their types at every step.                       *)
THEOREM TypeCorrect == Spec => []TypeOK
  <1>1. IdempotencyInv => TypeOK
    BY DEF IdempotencyInv
  <1>. QED  BY IdempotencyInvariance, <1>1, PTL

(* No two callers are answered differently while a record lives, however   *)
(* many callers there are and however late they are.                       *)
THEOREM AnswersAgree == Spec => []OneAnswer
  <1>1. IdempotencyInv => OneAnswer
    BY DEF IdempotencyInv
  <1>. QED  BY IdempotencyInvariance, <1>1, PTL

(* Nobody is told IN_PROGRESS about work that nobody is doing.             *)
THEOREM PendingIsWorkedOn == Spec => []ReservationHasWorker
  <1>1. IdempotencyInv => ReservationHasWorker
    BY DEF IdempotencyInv
  <1>. QED  BY IdempotencyInvariance, <1>1, PTL
=============================================================================
