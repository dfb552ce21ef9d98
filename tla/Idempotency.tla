---------------------------- MODULE Idempotency ----------------------------
(***************************************************************************)
(* The idempotency service, idempotency_service.py, over the records of    *)
(* InMemoryIdempotencyRepository, local_memory.py.  The repository's lock  *)
(* makes reserve, complete and fail atomic, each on its own; between them  *)
(* the caller runs its effect, other callers come and go and the clock     *)
(* moves.  The service is modelled as it presents itself, for any caller;  *)
(* the facade calls it inside a unit of work, which GoldenPath relies on.  *)
(*                                                                         *)
(* A request is its hash.  An answer stands for a response hash and a      *)
(* ResultRef together, since complete compares both.                       *)
(***************************************************************************)
EXTENDS Integers, FiniteSets

CONSTANTS
    Caller,     \* concurrent calls of execute
    Scope,      \* actor, operation and key
    Request,    \* request hashes
    Answer,     \* what an effect may come back with
    MaxTime,    \* where the model's clock stops
    None

ASSUME TimeAssumption == MaxTime \in Nat
VARIABLES
    records,    \* Scope -> IdempotencyRecord, or None
    calls,      \* Caller -> where its execute is
    now,        \* the clock callers read
    given       \* history: answers returned in the record's life

vars == <<records, calls, now, given>>

Time == 0..MaxTime

Record == {r \in [request : Request, createdAt : Time, expiresAt : 1..(MaxTime + 1),
                  state : {"PENDING", "COMPLETED", "FAILED"}, answer : Answer \cup {None}] :
              /\ r.expiresAt > r.createdAt
              /\ r.state = "COMPLETED" => r.answer # None}

ASSUME NoneAssumption == None \notin Answer /\ None \notin Record

Idle == [pc |-> "idle"]

Call == {k \in [pc : {"arrived", "effect", "complete", "fail"}, scope : Scope,
                request : Request, at : Time, until : 1..(MaxTime + 1),
                answer : Answer] : k.until > k.at}

TypeOK == /\ records \in [Scope -> Record \cup {None}]
          /\ calls \in [Caller -> Call \cup {Idle}]
          /\ now \in Time
          /\ given \in [Scope -> SUBSET Answer]

Init == /\ records = [s \in Scope |-> None]
        /\ calls = [c \in Caller |-> Idle]
        /\ now = 0
        /\ given = [s \in Scope |-> {}]

----------------------------------------------------------------------------
(* The repository.  expired is record_is_expired: seen from the time of    *)
(* the call, which the caller read before it waited for the lock.          *)

Expired(r, at) == at >= r.expiresAt

Vacant(r, at) == \/ r = None
                 \/ r # None /\ Expired(r, at)

Retriable(r, call) == /\ ~ Vacant(r, call.at)
                      /\ r.request = call.request
                      /\ r.state = "FAILED"

Replayed(r, call) == /\ ~ Vacant(r, call.at)
                     /\ r.request = call.request
                     /\ r.state = "COMPLETED"

Reservation(call) == [request |-> call.request, createdAt |-> call.at,
                      expiresAt |-> call.until, state |-> "PENDING", answer |-> None]

\* A replacement reservation of a failed record keeps that record's lifetime.
Retried(r) == [r EXCEPT !.state = "PENDING"]

CompletableAgain(r, call) == r # None /\ r.request = call.request /\ r.state # "FAILED"   \* mutant of Completable: a second completion may differ

\* complete raises when the record is gone, another request's, failed, or
\* completed with something else.
Completable(r, call) == /\ r # None
                        /\ r.request = call.request
                        /\ \/ r.state = "PENDING"
                           \/ r.state = "COMPLETED" /\ r.answer = call.answer

Completed(r, answer) == [r EXCEPT !.state = "COMPLETED", !.answer = answer]

Failable(r, call) == /\ r # None
                     /\ r.request = call.request
                     /\ r.state # "COMPLETED"

LeftPending(r) == r   \* mutant of Failed: a failure is not recorded

Failed(r) == [r EXCEPT !.state = "FAILED"]

----------------------------------------------------------------------------
(* execute, one caller at a time.                                          *)

\* The caller has read the clock and minted its ResultRef.
Arrive(c, s, q, until, answer) ==
    /\ calls[c] = Idle
    /\ until > now
    /\ calls' = [calls EXCEPT ![c] =
           [pc |-> "arrived", scope |-> s, request |-> q, at |-> now, until |-> until,
            answer |-> answer]]
    /\ UNCHANGED <<records, now, given>>

Working(call) == [call EXCEPT !.pc = "effect"]

\* RESERVED on an unused scope, EXPIRED_REPLACED on an expired record.
Reserve(c) ==
    /\ calls[c] # Idle /\ calls[c].pc = "arrived"
    /\ LET call == calls[c]
           s == call.scope
       IN /\ Vacant(records[s], call.at)
          /\ records' = [records EXCEPT ![s] = Reservation(call)]
          /\ calls' = [calls EXCEPT ![c] = Working(call)]
          /\ given' = [given EXCEPT ![s] = {}]
    /\ UNCHANGED now

\* RESERVED again after a failure.
Retry(c) ==
    /\ calls[c] # Idle /\ calls[c].pc = "arrived"
    /\ LET s == calls[c].scope
       IN /\ Retriable(records[s], calls[c])
          /\ records' = [records EXCEPT ![s] = Retried(records[s])]
          /\ calls' = [calls EXCEPT ![c] = Working(calls[c])]
    /\ UNCHANGED <<now, given>>

\* REPLAYED: the answer on record.
Replay(c) ==
    /\ calls[c] # Idle /\ calls[c].pc = "arrived"
    /\ LET s == calls[c].scope
       IN /\ Replayed(records[s], calls[c])
          /\ given' = [given EXCEPT ![s] = @ \cup {records[s].answer}]
    /\ calls' = [calls EXCEPT ![c] = Idle]
    /\ UNCHANGED <<records, now>>

\* CONFLICT raises, IN_PROGRESS returns without an answer.
TurnAway(c) ==
    /\ calls[c] # Idle /\ calls[c].pc = "arrived"
    /\ LET r == records[calls[c].scope]
       IN /\ ~ Vacant(r, calls[c].at)
          /\ \/ r.request # calls[c].request
             \/ r.state = "PENDING"
    /\ calls' = [calls EXCEPT ![c] = Idle]
    /\ UNCHANGED <<records, now, given>>

\* The caller's effect returns, or raises.
EffectReturns(c) ==
    /\ calls[c] # Idle /\ calls[c].pc = "effect"
    /\ calls' = [calls EXCEPT ![c].pc = "complete"]
    /\ UNCHANGED <<records, now, given>>

EffectRaises(c) ==
    /\ calls[c] # Idle /\ calls[c].pc = "effect"
    /\ calls' = [calls EXCEPT ![c].pc = "fail"]
    /\ UNCHANGED <<records, now, given>>

Complete(c) ==
    /\ calls[c] # Idle /\ calls[c].pc = "complete"
    /\ LET call == calls[c]
           s == call.scope
       IN IF Completable(records[s], call)
          THEN /\ records' = [records EXCEPT ![s] = Completed(records[s], call.answer)]
               /\ given' = [given EXCEPT ![s] = @ \cup {call.answer}]
          ELSE UNCHANGED <<records, given>>
    /\ calls' = [calls EXCEPT ![c] = Idle]
    /\ UNCHANGED now

\* The effect's exception reaches the caller in any case.
Fail(c) ==
    /\ calls[c] # Idle /\ calls[c].pc = "fail"
    /\ LET s == calls[c].scope
       IN records' = IF Failable(records[s], calls[c])
                     THEN [records EXCEPT ![s] = Failed(records[s])]
                     ELSE records
    /\ calls' = [calls EXCEPT ![c] = Idle]
    /\ UNCHANGED <<now, given>>

Tick == /\ now < MaxTime
        /\ now' = now + 1
        /\ UNCHANGED <<records, calls, given>>

Next == \/ Tick
        \/ \E c \in Caller :
              \/ \E s \in Scope, q \in Request, until \in 1..(MaxTime + 1), a \in Answer :
                    Arrive(c, s, q, until, a)
              \/ Reserve(c) \/ Retry(c) \/ Replay(c) \/ TurnAway(c)
              \/ EffectReturns(c) \/ EffectRaises(c) \/ Complete(c) \/ Fail(c)

Spec == Init /\ [][Next]_vars

----------------------------------------------------------------------------
(* "Completion cannot produce two distinct completed results": in the life *)
(* of a record every caller that is answered, by its own completion or by  *)
(* a replay, even one left over from an earlier life, is told the same.    *)
OneAnswer ==
    \A s \in Scope :
        /\ \A a, b \in given[s] : a = b
        /\ given[s] # {} => /\ records[s] # None
                            /\ records[s].state = "COMPLETED"
                            /\ records[s].answer \in given[s]

(* A caller that is told IN_PROGRESS may rely on it: a pending record has  *)
(* a call at work for the same request that will complete or fail it, even *)
(* after late completions and failures by calls of an expired record.      *)
ReservationHasWorker ==
    \A s \in Scope :
        records[s] # None /\ records[s].state = "PENDING" =>
            \E c \in Caller : /\ calls[c] # Idle
                              /\ calls[c].pc \in {"effect", "complete", "fail"}
                              /\ calls[c].scope = s
                              /\ calls[c].request = records[s].request
=============================================================================
