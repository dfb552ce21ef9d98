---------------------------- MODULE UnitOfWork_proofs ----------------------------
(***************************************************************************)
(* Proofs about UnitOfWork, for any number of threads, intents and units.  *)
(*                                                                         *)
(* The argument: the publish lock is held from `begin` to `release`, so at *)
(* most one thread owns the staging slots, its staged copies extend what   *)
(* is committed, and nothing else is published while it runs.              *)
(***************************************************************************)
EXTENDS UnitOfWork, TLAPS

Critical == {"begin", "body", "checked", "written", "commit", "rollback", "release"}

\* Whoever is between acquiring and releasing the publish lock is its holder.
Exclusive == \A t \in Thread : pc[t] \in Critical <=> publisher = t

\* The staging slots belong to the thread inside, and hold what it will publish.
Slots ==
    /\ \A t \in Thread :
        /\ pc[t] \in {"body", "checked"} =>
              \A s \in Store : owner[s] = t /\ staged[s] = committed[s]
        /\ pc[t] = "written" =>
              \A s \in Store :
                 /\ owner[s] = t
                 /\ staged[s] = committed[s] \cup (IF s \in writes[t] THEN {t} ELSE {})
        /\ pc[t] = "rollback" => \A s \in Store : owner[s] = t
        /\ pc[t] = "commit" =>
              \A n \in 1..5 :
                 /\ n > published =>
                       /\ owner[Order[n]] = t
                       /\ staged[Order[n]] = committed[Order[n]]
                              \cup (IF Order[n] \in writes[t] THEN {t} ELSE {})
                 /\ n <= published => (t \in committed[Order[n]] <=> Order[n] \in writes[t])
        /\ pc[t] # "commit" => (publisher = t => published = 0)

\* Which transactions a store may hold, and what the answer says of them.
History ==
    \A t \in Thread :
        /\ pc[t] = "idle" <=> want[t] = {}
        /\ pc[t] \in {"idle", "intents", "begin", "body", "checked", "written", "rollback"} =>
              outcome[t] = "none" /\ \A s \in Store : t \notin committed[s]
        /\ pc[t] \in {"written", "commit"} => "sessions" \in writes[t]
        /\ pc[t] = "commit" =>
              /\ outcome[t] = "none"
              /\ \A n \in 1..5 : n > published => t \notin committed[Order[n]]
        /\ pc[t] \in {"release", "unlock", "done"} => outcome[t] # "none"
        /\ outcome[t] = "committed" =>
              /\ "sessions" \in writes[t]
              /\ \A s \in Store : t \in committed[s] <=> s \in writes[t]
        /\ outcome[t] = "refused" => \A s \in Store : t \notin committed[s]

\* No two committed transactions conflict, and a transaction that passed its
\* check still conflicts with none of them.
Conflicts ==
    /\ \A t, u \in committed["sessions"] : t # u => want[t] \cap want[u] = {}
    /\ \A t \in Thread : pc[t] \in {"checked", "written", "commit"} =>
          \A u \in committed["sessions"] : u # t => want[u] \cap want[t] = {}

\* The snapshot is what remained before the running transaction's own calls.
Units ==
    /\ \A n \in Unit : n \in remaining <=> \A t \in Thread : n \notin taken[t]
    /\ \A t, u \in Thread : t # u => taken[t] \cap taken[u] = {}
    /\ \A t \in Thread :
        /\ pc[t] \in {"idle", "intents", "begin"} => taken[t] = {}
        /\ outcome[t] = "refused" => taken[t] = {}
        /\ pc[t] \in {"body", "checked", "written", "commit", "rollback"} => snapshot = remaining \cup taken[t]

IInv == TypeOK /\ Exclusive /\ Slots /\ History /\ Conflicts /\ Units

---------------------------------------------------------------------------
\* The commit order enumerates the stores without repetition, sessions first.
LEMMA OrderFacts ==
    /\ \A n \in 1..5 : Order[n] \in Store
    /\ \A s \in Store : \E n \in 1..5 : s = Order[n]
    /\ \A m, n \in 1..5 : Order[m] = Order[n] => m = n
    /\ Order[1] = "sessions"
    /\ "sessions" \in Store
BY DEF Order, Store

\* Every handler writes its session.
LEMMA WriteFacts == \A W \in WriteSets : W \subseteq Store /\ "sessions" \in W
BY DEF WriteSets, Store, Order

\* The initial state satisfies the inductive invariant.
LEMMA InitIInv == Init => IInv
<1> SUFFICES ASSUME Init PROVE IInv
    OBVIOUS
<1> USE ThreadAssumption DEF Init
<1>1. TypeOK
    BY DEF TypeOK, PC
<1>2. Exclusive
    BY DEF Exclusive, Critical
<1>3. Slots
    BY DEF Slots
<1>4. History
    BY OrderFacts DEF History
<1>5. Conflicts
    BY OrderFacts DEF Conflicts
<1>6. Units
    BY DEF Units
<1> QED
    BY <1>1, <1>2, <1>3, <1>4, <1>5, <1>6 DEF IInv

\* A request that enters only chooses its intents.
LEMMA EnterIInv == ASSUME IInv, NEW t \in Thread, NEW S \in SUBSET Intent, Enter(t, S)
    PROVE  IInv'
<1> USE ThreadAssumption, OrderFacts, WriteFacts DEF Enter, Goto, locks, stores, capacity, IInv
<1>1. TypeOK'
    BY DEF TypeOK, PC, Exclusive, Critical, Slots
<1>2. Exclusive'
    BY DEF TypeOK, Exclusive, Critical
<1>3. Slots'
    BY DEF TypeOK, Slots, Exclusive, Critical, History
<1>4. History'
    BY DEF TypeOK, History, Slots, Exclusive, Critical
<1>5. Conflicts'
    BY DEF TypeOK, Conflicts, History, Slots, Exclusive, Critical
<1>6. Units'
    BY DEF TypeOK, Units, History, Exclusive, Critical
<1> QED
    BY <1>1, <1>2, <1>3, <1>4, <1>5, <1>6

\* Taking an intent lock touches no store.
LEMMA LockIntentIInv == ASSUME IInv, NEW t \in Thread, NEW i \in Intent, LockIntent(t, i)
    PROVE  IInv'
<1> USE ThreadAssumption, OrderFacts, WriteFacts DEF LockIntent, NextWanted, Goto, locks, stores, capacity, IInv
<1>1. TypeOK'
    BY DEF TypeOK, PC, Exclusive, Critical, Slots
<1>2. Exclusive'
    BY DEF TypeOK, Exclusive, Critical
<1>3. Slots'
    BY DEF TypeOK, Slots, Exclusive, Critical, History
<1>4. History'
    BY DEF TypeOK, History, Slots, Exclusive, Critical
<1>5. Conflicts'
    BY DEF TypeOK, Conflicts, History, Slots, Exclusive, Critical
<1>6. Units'
    BY DEF TypeOK, Units, History, Exclusive, Critical
<1> QED
    BY <1>1, <1>2, <1>3, <1>4, <1>5, <1>6

\* The publish lock is taken by at most one thread, which becomes critical.
LEMMA LockPublishIInv == ASSUME IInv, NEW t \in Thread, LockPublish(t)
    PROVE  IInv'
<1> USE ThreadAssumption, OrderFacts, WriteFacts DEF LockPublish, Goto, locks, stores, capacity, IInv
<1>1. TypeOK'
    BY DEF TypeOK, PC, Exclusive, Critical, Slots
<1>2. Exclusive'
    BY DEF TypeOK, Exclusive, Critical
<1>3. Slots'
    BY DEF TypeOK, Slots, Exclusive, Critical, History
<1>4. History'
    BY DEF TypeOK, History, Slots, Exclusive, Critical
<1>5. Conflicts'
    BY DEF TypeOK, Conflicts, History, Slots, Exclusive, Critical
<1>6. Units'
    BY DEF TypeOK, Units, History, Exclusive, Critical
<1> QED
    BY <1>1, <1>2, <1>3, <1>4, <1>5, <1>6

\* The snapshot is taken while nobody else owns a slot, so it is what is committed.
LEMMA BeginIInv == ASSUME IInv, NEW t \in Thread, Begin(t)
    PROVE  IInv'
<1> USE ThreadAssumption, OrderFacts, WriteFacts DEF Begin, Goto, locks, stores, capacity, IInv
<1>1. TypeOK'
    BY DEF TypeOK, PC, Exclusive, Critical, Slots
<1>2. Exclusive'
    BY DEF TypeOK, Exclusive, Critical
<1>3. Slots'
    BY DEF TypeOK, Slots, Exclusive, Critical, History
<1>4. History'
    BY DEF TypeOK, History, Slots, Exclusive, Critical
<1>5. Conflicts'
    BY DEF TypeOK, Conflicts, History, Slots, Exclusive, Critical
<1>6. Units'
    BY DEF TypeOK, Units, History, Exclusive, Critical
<1> QED
    BY <1>1, <1>2, <1>3, <1>4, <1>5, <1>6

\* A supplier call moves one unit from what remains to the running transaction's.
LEMMA CallSupplierIInv == ASSUME IInv, NEW t \in Thread, NEW n \in Unit, CallSupplier(t, n)
    PROVE  IInv'
<1> USE ThreadAssumption, OrderFacts, WriteFacts DEF CallSupplier, Goto, locks, stores, capacity, IInv
<1>1. TypeOK'
    BY DEF TypeOK, PC, Exclusive, Critical, Slots
<1>2. Exclusive'
    BY DEF TypeOK, Exclusive, Critical
<1>3. Slots'
    BY DEF TypeOK, Slots, Exclusive, Critical, History
<1>4. History'
    BY DEF TypeOK, History, Slots, Exclusive, Critical
<1>5. Conflicts'
    BY DEF TypeOK, Conflicts, History, Slots, Exclusive, Critical
<1>6. Units'
    BY DEF TypeOK, Units, History, Exclusive, Critical
<1> QED
    BY <1>1, <1>2, <1>3, <1>4, <1>5, <1>6

\* The handler finds no conflicting transaction committed: its view is its own copy.
LEMMA CheckIInv == ASSUME IInv, NEW t \in Thread, Check(t)
    PROVE  IInv'
<1> USE ThreadAssumption, OrderFacts, WriteFacts DEF Check, Passes, View, Goto, locks, stores, capacity, IInv
<1>1. TypeOK'
    BY DEF TypeOK, PC, Exclusive, Critical, Slots
<1>2. Exclusive'
    BY DEF TypeOK, Exclusive, Critical
<1>3. Slots'
    BY DEF TypeOK, Slots, Exclusive, Critical, History
<1>4. History'
    BY DEF TypeOK, History, Slots, Exclusive, Critical
<1>5. Conflicts'
    BY DEF TypeOK, Conflicts, History, Slots, Exclusive, Critical
<1>6. Units'
    BY DEF TypeOK, Units, History, Exclusive, Critical
<1> QED
    BY <1>1, <1>2, <1>3, <1>4, <1>5, <1>6

\* The handler owns every slot, so that its writes are staged.
LEMMA WriteIInv == ASSUME IInv, NEW t \in Thread, NEW W \in WriteSets, Write(t, W)
    PROVE  IInv'
<1> USE ThreadAssumption, OrderFacts, WriteFacts DEF Write, Goto, locks, stores, capacity, IInv
<1>1. TypeOK'
    BY DEF TypeOK, PC, Exclusive, Critical, Slots
<1>2. Exclusive'
    BY DEF TypeOK, Exclusive, Critical
<1>3. Slots'
    BY DEF TypeOK, Slots, Exclusive, Critical, History
<1>4. History'
    BY DEF TypeOK, History, Slots, Exclusive, Critical
<1>5. Conflicts'
    BY DEF TypeOK, Conflicts, History, Slots, Exclusive, Critical
<1>6. Units'
    BY DEF TypeOK, Units, History, Exclusive, Critical
<1> QED
    BY <1>1, <1>2, <1>3, <1>4, <1>5, <1>6

\* A handler that returns leaves the publication to the exit of the transaction.
LEMMA ReturnIInv == ASSUME IInv, NEW t \in Thread, Return(t)
    PROVE  IInv'
<1> USE ThreadAssumption, OrderFacts, WriteFacts DEF Return, Goto, locks, stores, capacity, IInv
<1>1. TypeOK'
    BY DEF TypeOK, PC, Exclusive, Critical, Slots
<1>2. Exclusive'
    BY DEF TypeOK, Exclusive, Critical
<1>3. Slots'
    BY DEF TypeOK, Slots, Exclusive, Critical, History
<1>4. History'
    BY DEF TypeOK, History, Slots, Exclusive, Critical
<1>5. Conflicts'
    BY DEF TypeOK, Conflicts, History, Slots, Exclusive, Critical
<1>6. Units'
    BY DEF TypeOK, Units, History, Exclusive, Critical
<1> QED
    BY <1>1, <1>2, <1>3, <1>4, <1>5, <1>6

\* A handler that raises has published nothing yet.
LEMMA RaiseIInv == ASSUME IInv, NEW t \in Thread, Raise(t)
    PROVE  IInv'
<1> USE ThreadAssumption, OrderFacts, WriteFacts DEF Raise, Goto, locks, stores, capacity, IInv
<1>1. TypeOK'
    BY DEF TypeOK, PC, Exclusive, Critical, Slots
<1>2. Exclusive'
    BY DEF TypeOK, Exclusive, Critical
<1>3. Slots'
    BY DEF TypeOK, Slots, Exclusive, Critical, History
<1>4. History'
    BY DEF TypeOK, History, Slots, Exclusive, Critical
<1>5. Conflicts'
    BY DEF TypeOK, Conflicts, History, Slots, Exclusive, Critical
<1>6. Units'
    BY DEF TypeOK, Units, History, Exclusive, Critical
<1> QED
    BY <1>1, <1>2, <1>3, <1>4, <1>5, <1>6

\* Publishing a store adds the publishing transaction to it and nothing else.
LEMMA PublishStoreIInv == ASSUME IInv, NEW t \in Thread, PublishStore(t)
    PROVE  IInv'
<1> USE ThreadAssumption, OrderFacts, WriteFacts DEF PublishStore, Goto, locks, stores, capacity, IInv
<1>1. TypeOK'
    BY DEF TypeOK, PC, Exclusive, Critical, Slots
<1>2. Exclusive'
    BY DEF TypeOK, Exclusive, Critical
<1>3. Slots'
    BY DEF TypeOK, Slots, Exclusive, Critical, History
<1>4. History'
    BY DEF TypeOK, History, Slots, Exclusive, Critical
<1>5. Conflicts'
    BY DEF TypeOK, Conflicts, History, Slots, Exclusive, Critical
<1>6. Units'
    BY DEF TypeOK, Units, History, Exclusive, Critical
<1> QED
    BY <1>1, <1>2, <1>3, <1>4, <1>5, <1>6

\* After the fifth store every write of the transaction is published.
LEMMA EndCommitIInv == ASSUME IInv, NEW t \in Thread, EndCommit(t)
    PROVE  IInv'
<1> USE ThreadAssumption, OrderFacts, WriteFacts DEF EndCommit, Goto, locks, stores, capacity, IInv
<1>1. TypeOK'
    BY DEF TypeOK, PC, Exclusive, Critical, Slots
<1>2. Exclusive'
    BY DEF TypeOK, Exclusive, Critical
<1>3. Slots'
    BY DEF TypeOK, Slots, Exclusive, Critical, History
<1>4. History'
    BY DEF TypeOK, History, Slots, Exclusive, Critical
<1>5. Conflicts'
    BY DEF TypeOK, Conflicts, History, Slots, Exclusive, Critical
<1>6. Units'
    BY DEF TypeOK, Units, History, Exclusive, Critical
<1> QED
    BY <1>1, <1>2, <1>3, <1>4, <1>5, <1>6

\* The capacity snapshot is what remained plus what this transaction took.
LEMMA RollbackIInv == ASSUME IInv, NEW t \in Thread, Rollback(t)
    PROVE  IInv'
<1> USE ThreadAssumption, OrderFacts, WriteFacts DEF Rollback, Goto, locks, stores, capacity, IInv
<1>1. TypeOK'
    BY DEF TypeOK, PC, Exclusive, Critical, Slots
<1>2. Exclusive'
    BY DEF TypeOK, Exclusive, Critical
<1>3. Slots'
    BY DEF TypeOK, Slots, Exclusive, Critical, History
<1>4. History'
    BY DEF TypeOK, History, Slots, Exclusive, Critical
<1>5. Conflicts'
    BY DEF TypeOK, Conflicts, History, Slots, Exclusive, Critical
<1>6. Units'
    BY DEF TypeOK, Units, History, Exclusive, Critical
<1> QED
    BY <1>1, <1>2, <1>3, <1>4, <1>5, <1>6

\* The lock is released after the slots were emptied.
LEMMA ReleasePublishIInv == ASSUME IInv, NEW t \in Thread, ReleasePublish(t)
    PROVE  IInv'
<1> USE ThreadAssumption, OrderFacts, WriteFacts DEF ReleasePublish, Goto, locks, stores, capacity, IInv
<1>1. TypeOK'
    BY DEF TypeOK, PC, Exclusive, Critical, Slots
<1>2. Exclusive'
    BY DEF TypeOK, Exclusive, Critical
<1>3. Slots'
    BY DEF TypeOK, Slots, Exclusive, Critical, History
<1>4. History'
    BY DEF TypeOK, History, Slots, Exclusive, Critical
<1>5. Conflicts'
    BY DEF TypeOK, Conflicts, History, Slots, Exclusive, Critical
<1>6. Units'
    BY DEF TypeOK, Units, History, Exclusive, Critical
<1> QED
    BY <1>1, <1>2, <1>3, <1>4, <1>5, <1>6

\* Giving an intent lock back touches no store.
LEMMA ReleaseIntentIInv == ASSUME IInv, NEW t \in Thread, NEW i \in Intent, ReleaseIntent(t, i)
    PROVE  IInv'
<1> USE ThreadAssumption, OrderFacts, WriteFacts DEF ReleaseIntent, Goto, locks, stores, capacity, IInv
<1>1. TypeOK'
    BY DEF TypeOK, PC, Exclusive, Critical, Slots
<1>2. Exclusive'
    BY DEF TypeOK, Exclusive, Critical
<1>3. Slots'
    BY DEF TypeOK, Slots, Exclusive, Critical, History
<1>4. History'
    BY DEF TypeOK, History, Slots, Exclusive, Critical
<1>5. Conflicts'
    BY DEF TypeOK, Conflicts, History, Slots, Exclusive, Critical
<1>6. Units'
    BY DEF TypeOK, Units, History, Exclusive, Critical
<1> QED
    BY <1>1, <1>2, <1>3, <1>4, <1>5, <1>6

\* Leaving changes only where the thread is.
LEMMA ExitIInv == ASSUME IInv, NEW t \in Thread, Exit(t)
    PROVE  IInv'
<1> USE ThreadAssumption, OrderFacts, WriteFacts DEF Exit, Goto, locks, stores, capacity, IInv
<1>1. TypeOK'
    BY DEF TypeOK, PC, Exclusive, Critical, Slots
<1>2. Exclusive'
    BY DEF TypeOK, Exclusive, Critical
<1>3. Slots'
    BY DEF TypeOK, Slots, Exclusive, Critical, History
<1>4. History'
    BY DEF TypeOK, History, Slots, Exclusive, Critical
<1>5. Conflicts'
    BY DEF TypeOK, Conflicts, History, Slots, Exclusive, Critical
<1>6. Units'
    BY DEF TypeOK, Units, History, Exclusive, Critical
<1> QED
    BY <1>1, <1>2, <1>3, <1>4, <1>5, <1>6

\* Every step preserves the inductive invariant.
LEMMA NextIInv == IInv /\ [Next]_vars => IInv'
<1> SUFFICES ASSUME IInv, [Next]_vars PROVE IInv'
    OBVIOUS
<1>1. ASSUME NEW t \in Thread, NEW S \in SUBSET Intent, Enter(t, S) PROVE IInv'
    BY <1>1, EnterIInv
<1>2. ASSUME NEW t \in Thread, Inside(t) PROVE IInv'
    BY <1>2, LockIntentIInv, LockPublishIInv, BeginIInv, CheckIInv, CallSupplierIInv,
       WriteIInv, ReturnIInv, RaiseIInv, PublishStoreIInv, EndCommitIInv, RollbackIInv,
       ReleasePublishIInv, ReleaseIntentIInv, ExitIInv DEF Inside
<1>3. CASE UNCHANGED vars
    BY <1>3 DEF vars, locks, stores, capacity, IInv, TypeOK, Exclusive, Slots, History,
       Conflicts, Units
<1> QED
    BY <1>1, <1>2, <1>3 DEF Next

\* The unit of work reaches only states of the inductive invariant.
THEOREM Invariance == Spec => []IInv
<1>1. Init => IInv
    BY InitIInv
<1>2. IInv /\ [Next]_vars => IInv'
    BY NextIInv
<1> QED
    BY <1>1, <1>2, PTL DEF Spec

---------------------------------------------------------------------------
\* Every variable keeps its shape, however many threads and intents there are.
THEOREM TypeCorrect == Spec => []TypeOK
<1>1. IInv => TypeOK
    BY DEF IInv
<1> QED
    BY <1>1, Invariance, PTL

\* A request that answered success is in every store it wrote; one that was
\* refused is in none.
THEOREM AnsweredAllOrNothing == Spec => []AllOrNothing
<1>1. IInv => AllOrNothing
    BY DEF IInv, TypeOK, History, AllOrNothing
<1> QED
    BY <1>1, Invariance, PTL

\* Two transactions that passed the same check on a common intent never both commit.
THEOREM ConflictsExcluded == Spec => []ConflictExclusion
<1>1. IInv => ConflictExclusion
    BY OrderFacts DEF IInv, TypeOK, History, Conflicts, ConflictExclusion
<1> QED
    BY <1>1, Invariance, PTL

\* Supplier capacity is exactly what the running and the committed
\* transactions left of it.
THEOREM CapacityExact == Spec => []CapacityAccounted
<1>1. IInv => CapacityAccounted
    BY DEF IInv, TypeOK, Units, CapacityAccounted
<1> QED
    BY <1>1, Invariance, PTL

\* No publication takes another transaction's writes back.
THEOREM UpdatesKept == Spec => NoLostUpdate
<1>1. ASSUME IInv, [Next]_vars PROVE \A s \in Store : committed[s] \subseteq committed'[s]
  <2>1. ASSUME NEW t \in Thread, NEW W \in WriteSets, Write(t, W)
        PROVE  \A s \in Store : committed[s] \subseteq committed'[s]
    BY <2>1, <1>1 DEF Write, IInv, TypeOK
  <2>2. ASSUME NEW t \in Thread, PublishStore(t)
        PROVE  \A s \in Store : committed[s] \subseteq committed'[s]
    BY <2>2, <1>1, OrderFacts DEF PublishStore, IInv, TypeOK, Slots
  <2>3. CASE UNCHANGED committed
    BY <2>3
  <2> QED
    BY <2>1, <2>2, <2>3, <1>1 DEF Next, Inside, vars, locks, stores, capacity, Enter, LockIntent,
       LockPublish, Begin, Check, CallSupplier, Return, Raise, EndCommit, Rollback, ReleasePublish,
       ReleaseIntent, Exit
<1> QED
    BY <1>1, Invariance, PTL DEF Spec, NoLostUpdate

---------------------------------------------------------------------------
\* The unit of work starts where AtomicStore starts.
LEMMA AtomicInit == Init => Atomic!Init
BY OrderFacts DEF Init, Atomic!Init

\* A step that publishes the sessions store is the commit, a rollback is the
\* refusal, entering is the request; all other steps are invisible.
LEMMA AtomicStep == IInv /\ [Next]_vars => [Atomic!Next]_(Atomic!vars)
<1> SUFFICES ASSUME IInv, [Next]_vars PROVE [Atomic!Next]_(Atomic!vars)
    OBVIOUS
<1> USE DEF Atomic!vars
<1> DEFINE Log == committed["sessions"]
           Refused == {t \in Thread : outcome[t] = "refused"}
           Free == Unit \ UNION {taken[t] : t \in committed["sessions"]}
<1>1. ASSUME NEW t \in Thread, NEW S \in SUBSET Intent, Enter(t, S)
      PROVE  Atomic!Ask(t, S)
    BY <1>1, OrderFacts DEF Enter, Goto, IInv, TypeOK, History, stores, capacity,
       Atomic!Ask, Atomic!Pending
<1>2. ASSUME NEW t \in Thread, PublishStore(t), published = 0
      PROVE  \E U \in SUBSET Free : Atomic!Commit(t, U)
  <2>1. Log' = Log \cup {t} /\ t \notin Log
    BY <1>2, OrderFacts, ThreadAssumption DEF PublishStore, IInv, TypeOK, Slots, History
  <2>2. Atomic!Pending(t) /\ want[t] # {}
    BY <1>2, <2>1 DEF PublishStore, IInv, TypeOK, History, Atomic!Pending
  <2>3. \A u \in Log : want[u] \cap want[t] = {}
    BY <1>2, <2>1 DEF PublishStore, IInv, TypeOK, Conflicts
  <2>4. taken[t] \in SUBSET Free
    BY <1>2, <2>1, OrderFacts DEF IInv, TypeOK, Units
  <2>5. Free' = Free \ taken[t]
    BY <1>2, <2>1 DEF PublishStore, capacity
  <2>6. Atomic!Commit(t, taken[t])
    BY <1>2, <2>1, <2>2, <2>3, <2>4, <2>5 DEF PublishStore, locks, Atomic!Commit
  <2> QED
    BY <2>4, <2>6 DEF Atomic!Commit
<1>3. ASSUME NEW t \in Thread, PublishStore(t), published # 0
      PROVE  UNCHANGED Atomic!vars
  <2>1. Log' = Log
    BY <1>3, OrderFacts DEF PublishStore, IInv, TypeOK
  <2> QED
    BY <1>3, <2>1 DEF PublishStore, locks, capacity
<1>4. ASSUME NEW t \in Thread, Rollback(t)
      PROVE  Atomic!Refuse(t)
  <2>1. t \notin Log /\ Log \subseteq Thread
    BY <1>4, OrderFacts DEF Rollback, IInv, TypeOK, History
  <2>2. Free' = Free
    BY <1>4, <2>1 DEF Rollback, IInv, TypeOK
  <2>3. Refused' = Refused \cup {t}
    BY <1>4 DEF Rollback, IInv, TypeOK
  <2> QED
    BY <1>4, <2>1, <2>2, <2>3 DEF Rollback, IInv, TypeOK, History, locks, Atomic!Refuse, Atomic!Pending
<1>5. ASSUME NEW t \in Thread, NEW n \in Unit, CallSupplier(t, n)
      PROVE  UNCHANGED Atomic!vars
  <2>1. t \notin Log /\ Log \subseteq Thread
    BY <1>5, OrderFacts DEF CallSupplier, IInv, TypeOK, History
  <2>2. Free' = Free
    BY <1>5, <2>1 DEF CallSupplier, stores, IInv, TypeOK
  <2> QED
    BY <1>5, <2>2 DEF CallSupplier, locks, stores
<1>6. ASSUME NEW t \in Thread, NEW W \in WriteSets, Write(t, W)
      PROVE  UNCHANGED Atomic!vars
  <2>1. Log' = Log
    BY <1>6, OrderFacts DEF Write, IInv, TypeOK, Slots
  <2> QED
    BY <1>6, <2>1 DEF Write, locks, capacity
<1>7. ASSUME NEW t \in Thread, EndCommit(t)
      PROVE  UNCHANGED Atomic!vars
  <2>1. Refused' = Refused
    BY <1>7 DEF EndCommit, IInv, TypeOK, History
  <2> QED
    BY <1>7, <2>1 DEF EndCommit, locks, capacity
<1>8. CASE UNCHANGED <<want, committed, taken, outcome>>
    BY <1>8
<1>9. ASSUME NEW t \in Thread, Inside(t) PROVE [Atomic!Next]_(Atomic!vars)
  <2>1. CASE PublishStore(t)
    <3>1. CASE published = 0
      BY <2>1, <3>1, <1>2 DEF Atomic!Next, Atomic!Commit
    <3>2. CASE published # 0
      BY <2>1, <3>2, <1>3
    <3> QED
      BY <3>1, <3>2
  <2>2. CASE Rollback(t)
    BY <2>2, <1>4 DEF Atomic!Next
  <2>3. CASE \E n \in Unit : CallSupplier(t, n)
    BY <2>3, <1>5
  <2>4. CASE \E W \in WriteSets : Write(t, W)
    BY <2>4, <1>6
  <2>5. CASE EndCommit(t)
    BY <2>5, <1>7
  <2>6. CASE UNCHANGED <<want, committed, taken, outcome>>
    BY <2>6, <1>8
  <2> QED
    BY <1>9, <2>1, <2>2, <2>3, <2>4, <2>5, <2>6 DEF Inside, locks, stores, capacity,
       LockIntent, LockPublish, Begin, Check, Return, Raise, ReleasePublish, ReleaseIntent, Exit
<1> QED
    BY <1>1, <1>8, <1>9 DEF Next, Atomic!Next, vars, locks, stores, capacity

\* The unit of work implements the atomic store: a transaction takes effect
\* when its sessions are published, or not at all.
THEOREM ImplementsAtomicStore == Spec => AtomicSpec
<1>1. Init => Atomic!Init
    BY AtomicInit
<1>2. IInv /\ [Next]_vars => [Atomic!Next]_(Atomic!vars)
    BY AtomicStep
<1> QED
    BY <1>1, <1>2, Invariance, PTL DEF Spec, AtomicSpec, Atomic!Spec
=============================================================================
