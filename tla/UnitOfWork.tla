------------------------------- MODULE UnitOfWork -------------------------------
(***************************************************************************)
(* LocalMemoryUnitOfWork and LocalMemoryTransaction                        *)
(* (itaa_application.local_memory): the copy-on-write transaction that     *)
(* makes each handler of the facade one atomic action of GoldenPath.       *)
(*                                                                         *)
(* A store's content is abstracted to the set of transactions whose writes *)
(* it holds.  Every repository has ONE staging slot with an owner: a       *)
(* thread that does not own it reads and writes the committed content, so  *)
(* isolation rests on the locks alone.  A body stands for one handler: it  *)
(* checks that no earlier transaction made the same move on its intents,   *)
(* calls suppliers, writes, and returns; it may raise at any point.        *)
(***************************************************************************)
EXTENDS Naturals, Sequences, FiniteSets

CONSTANTS
    Thread,   \* worker threads of the API; each serves one request
    Intent,   \* intent ids, ordered as their strings are
    Unit,     \* units of capacity behind the supplier ports
    None      \* no thread, or no staged copy

ASSUME IntentAssumption == Intent \subseteq Nat
ASSUME ThreadAssumption == None \notin Thread

Order == <<"sessions", "approvals", "idempotency", "audit", "replace_log">>
Store == {Order[n] : n \in 1..5}

\* The stores the handlers of the facade write.
WriteSets == { {"sessions"},
               {"sessions", "approvals", "audit"},
               {"sessions", "approvals", "idempotency", "audit"},
               {"sessions", "approvals", "audit", "replace_log"} }

VARIABLES
    pc,         \* where the thread is in `with transaction(...)`
    want,       \* the intents of its transaction
    held,       \* the intent locks it holds
    publisher,  \* holder of _publish_lock
    committed,  \* store -> published content
    staged,     \* store -> the staging slot
    owner,      \* store -> owner of the slot
    published,  \* how many stores the running commit has published
    writes,     \* the stores the transaction's body wrote
    remaining,  \* units the suppliers still have
    snapshot,   \* _capacity_snapshot
    taken,      \* units the transaction's supplier calls consumed
    outcome     \* how the request ended

locks == <<want, held, publisher>>
stores == <<committed, staged, owner, published, writes>>
capacity == <<remaining, snapshot, taken>>
vars == <<pc, locks, stores, capacity, outcome>>

---------------------------------------------------------------------------
\* _store(): the staged copy for the thread that staged it, else the committed one.
View(t, s) == IF owner[s] = t THEN staged[s] ELSE committed[s]

Goto(t, label) == pc' = [pc EXCEPT ![t] = label]

LockFree(i) == \A u \in Thread : i \notin held[u]

AnyWanted(t, i) == i \in want[t] \ held[t]   \* mutant of NextWanted: intents are locked in any order

\* Intents are locked in sorted order.
NextWanted(t, i) == /\ i \in want[t] \ held[t]
                    /\ \A j \in want[t] \ held[t] : i <= j

Init == /\ pc = [t \in Thread |-> "idle"]
        /\ want = [t \in Thread |-> {}]
        /\ held = [t \in Thread |-> {}]
        /\ publisher = None
        /\ committed = [s \in Store |-> {}]
        /\ staged = [s \in Store |-> {}]
        /\ owner = [s \in Store |-> None]
        /\ published = 0
        /\ writes = [t \in Thread |-> {}]
        /\ remaining = Unit
        /\ snapshot = Unit
        /\ taken = [t \in Thread |-> {}]
        /\ outcome = [t \in Thread |-> "none"]

\* A request enters `transaction` or `transaction_many`.
Enter(t, S) == /\ pc[t] = "idle" /\ S # {}
               /\ want' = [want EXCEPT ![t] = S]
               /\ Goto(t, "intents")
               /\ UNCHANGED <<held, publisher, stores, capacity, outcome>>

LockIntent(t, i) == /\ pc[t] = "intents"
                    /\ NextWanted(t, i) /\ LockFree(i)
                    /\ held' = [held EXCEPT ![t] = @ \cup {i}]
                    /\ UNCHANGED <<pc, want, publisher, stores, capacity, outcome>>

\* mutant of LockPublish: the shared-store snapshot is taken without the process-wide lock
SkipPublish(t) == /\ pc[t] = "intents" /\ held[t] = want[t]
                  /\ Goto(t, "begin")
                  /\ UNCHANGED <<locks, stores, capacity, outcome>>

LockPublish(t) == /\ pc[t] = "intents" /\ held[t] = want[t]
                  /\ publisher = None
                  /\ publisher' = t
                  /\ Goto(t, "begin")
                  /\ UNCHANGED <<want, held, stores, capacity, outcome>>

\* mutant of Begin: the slot keeps what it held instead of a fresh copy
BeginStale(t) == /\ pc[t] = "begin"
                 /\ owner' = [s \in Store |-> t]
                 /\ snapshot' = remaining
                 /\ Goto(t, "body")
                 /\ UNCHANGED <<locks, committed, staged, published, writes, remaining, taken, outcome>>

\* _begin_locked.  Commit and rollback also forget _capacity_snapshot, which
\* nobody reads before the next begin has taken a new one.
Begin(t) == /\ pc[t] = "begin"
            /\ staged' = committed
            /\ owner' = [s \in Store |-> t]
            /\ snapshot' = remaining
            /\ Goto(t, "body")
            /\ UNCHANGED <<locks, committed, published, writes, remaining, taken, outcome>>

\* The handler's own state check: nobody has made this move on these intents.
Passes(t) == \A u \in View(t, "sessions") : want[u] \cap want[t] = {}

Check(t) == /\ pc[t] = "body" /\ Passes(t)
            /\ Goto(t, "checked")
            /\ UNCHANGED <<locks, stores, capacity, outcome>>

\* A supplier port answers with an offer and loses one unit.
CallSupplier(t, n) == /\ pc[t] = "checked" /\ n \in remaining
                      /\ remaining' = remaining \ {n}
                      /\ taken' = [taken EXCEPT ![t] = @ \cup {n}]
                      /\ UNCHANGED <<pc, locks, stores, snapshot, outcome>>

\* The handler writes its stores: staged where it owns the slot, published where not.
Write(t, W) ==
    /\ pc[t] = "checked"
    /\ staged' = [s \in Store |-> IF s \in W /\ owner[s] = t THEN staged[s] \cup {t}
                                                              ELSE staged[s]]
    /\ committed' = [s \in Store |-> IF s \in W /\ owner[s] # t THEN committed[s] \cup {t}
                                                                 ELSE committed[s]]
    /\ writes' = [writes EXCEPT ![t] = W]
    /\ Goto(t, "written")
    /\ UNCHANGED <<locks, owner, published, capacity, outcome>>

\* The handler returns.
Return(t) == /\ pc[t] = "written"
             /\ Goto(t, "commit")
             /\ UNCHANGED <<locks, stores, capacity, outcome>>

\* The handler raises: a refused check, or a failure before or after its writes.
Raise(t) == /\ pc[t] \in {"body", "checked", "written"}
            /\ Goto(t, "rollback")
            /\ UNCHANGED <<locks, stores, capacity, outcome>>

\* _commit_locked publishes one store after the other; nobody holds a lock that
\* readers respect meanwhile.
PublishStore(t) ==
    LET s == Order[published + 1] IN
    /\ pc[t] = "commit" /\ published < 5
    /\ committed' = [committed EXCEPT ![s] = IF owner[s] # None THEN staged[s] ELSE @]
    /\ staged' = [staged EXCEPT ![s] = {}]
    /\ owner' = [owner EXCEPT ![s] = None]
    /\ published' = published + 1
    /\ UNCHANGED <<pc, locks, writes, capacity, outcome>>

EndCommit(t) == /\ pc[t] = "commit" /\ published = 5
                /\ published' = 0
                /\ outcome' = [outcome EXCEPT ![t] = "committed"]
                /\ Goto(t, "release")
                /\ UNCHANGED <<locks, committed, staged, owner, writes, capacity>>

\* mutant of Rollback: the capacity a failed dispatch consumed stays consumed
RollbackKeepsCapacity(t) ==
    /\ pc[t] = "rollback"
    /\ staged' = [s \in Store |-> {}]
    /\ owner' = [s \in Store |-> None]
    /\ taken' = [taken EXCEPT ![t] = {}]
    /\ outcome' = [outcome EXCEPT ![t] = "refused"]
    /\ Goto(t, "release")
    /\ UNCHANGED <<locks, committed, published, writes, remaining, snapshot>>

\* _rollback_locked: every staged write is dropped, every unit comes back.  Only
\* the owner reads the slots, so dropping the five of them is one step.
Rollback(t) == /\ pc[t] = "rollback"
               /\ staged' = [s \in Store |-> {}]
               /\ owner' = [s \in Store |-> None]
               /\ remaining' = snapshot
               /\ taken' = [taken EXCEPT ![t] = {}]
               /\ outcome' = [outcome EXCEPT ![t] = "refused"]
               /\ Goto(t, "release")
               /\ UNCHANGED <<locks, committed, published, writes, snapshot>>

\* The finally clause of __exit__: the publish lock first, then the intents.
ReleasePublish(t) == /\ pc[t] = "release"
                     /\ publisher' = None
                     /\ Goto(t, "unlock")
                     /\ UNCHANGED <<want, held, stores, capacity, outcome>>

ReleaseIntent(t, i) == /\ pc[t] = "unlock"
                       /\ i \in held[t] /\ \A j \in held[t] : j <= i
                       /\ held' = [held EXCEPT ![t] = @ \ {i}]
                       /\ UNCHANGED <<pc, want, publisher, stores, capacity, outcome>>

Exit(t) == /\ pc[t] = "unlock" /\ held[t] = {}
           /\ Goto(t, "done")
           /\ UNCHANGED <<locks, stores, capacity, outcome>>

Inside(t) == \/ \E i \in Intent : LockIntent(t, i) \/ ReleaseIntent(t, i)
             \/ LockPublish(t)
             \/ Begin(t)
             \/ Check(t)
             \/ \E n \in Unit : CallSupplier(t, n)
             \/ \E W \in WriteSets : Write(t, W)
             \/ Return(t) \/ Raise(t)
             \/ PublishStore(t) \/ EndCommit(t)
             \/ Rollback(t)
             \/ ReleasePublish(t) \/ Exit(t)

Next == \E t \in Thread : Inside(t) \/ \E S \in SUBSET Intent : Enter(t, S)

Spec == Init /\ [][Next]_vars

\* A thread inside a transaction keeps running, and a lock that is free when a
\* thread waits for it is taken in the end: every other thread asks for it once.
FairSpec == Spec /\ \A t \in Thread : WF_vars(Inside(t))

---------------------------------------------------------------------------
(***************************************************************************)
(* Properties.                                                             *)
(***************************************************************************)
PC == {"idle", "intents", "begin", "body", "checked", "written", "commit", "rollback",
       "release", "unlock", "done"}

\* Every variable has its shape, and nothing is half published once the lock is free.
TypeOK == /\ pc \in [Thread -> PC]
          /\ want \in [Thread -> SUBSET Intent]
          /\ held \in [Thread -> SUBSET Intent]
          /\ publisher \in Thread \cup {None}
          /\ committed \in [Store -> SUBSET Thread]
          /\ staged \in [Store -> SUBSET Thread]
          /\ owner \in [Store -> Thread \cup {None}]
          /\ published \in 0..5
          /\ publisher = None => published = 0
          /\ writes \in [Thread -> SUBSET Store]
          /\ remaining \subseteq Unit /\ snapshot \subseteq Unit
          /\ taken \in [Thread -> SUBSET Unit]
          /\ outcome \in [Thread -> {"none", "committed", "refused"}]

\* No publication loses another transaction's writes: a store only ever grows.
NoLostUpdate == [][\A s \in Store : committed[s] \subseteq committed'[s]]_vars

\* When a request has answered, its writes are in every store it wrote if it
\* succeeded and in none if it was refused.
AllOrNothing ==
    \A t \in Thread :
        /\ outcome[t] = "committed" => {s \in Store : t \in committed[s]} = writes[t]
        /\ outcome[t] = "refused" => \A s \in Store : t \notin committed[s]

\* "Two worker threads cannot both pass the same state check and publish
\* conflicting transitions", even on different intents of a pair: of two requests
\* that made the same move, one is refused.
ConflictExclusion ==
    \A t, u \in Thread :
        t # u /\ outcome[t] = "committed" /\ outcome[u] = "committed" =>
            want[t] \cap want[u] = {}

\* Supplier capacity is spent by the running transaction and by those that
\* committed: a failed dispatch gives every unit back.
CapacityAccounted ==
    /\ remaining = Unit \ UNION {taken[t] : t \in Thread}
    /\ \A t, u \in Thread : t # u => taken[t] \cap taken[u] = {}
    /\ \A t \in Thread : outcome[t] = "refused" => taken[t] = {}

\* Every request that entered a transaction leaves it: no deadlock on the intent
\* locks, and no exit path that keeps a lock.
EveryRequestEnds == \A t \in Thread : pc[t] = "intents" ~> pc[t] = "done"

\* Committed transactions, seen through the sessions store, behave as AtomicStore.
Atomic == INSTANCE AtomicStore WITH
    log <- committed["sessions"],
    refused <- {t \in Thread : outcome[t] = "refused"},
    free <- Unit \ UNION {taken[t] : t \in committed["sessions"]}
AtomicSpec == Atomic!Spec

\* The docstring of local_memory: "commit publishes every store together".  A
\* reader that takes no lock never sees a transaction in only some of its stores.
PublishedTogether ==
    \A t \in Thread : {s \in Store : t \in committed[s]} \in {{}, writes[t]}
=============================================================================
