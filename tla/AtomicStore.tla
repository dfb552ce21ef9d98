------------------------------- MODULE AtomicStore -------------------------------
(***************************************************************************)
(* What the unit of work promises its callers: a transaction takes effect  *)
(* at one instant or not at all.  Two transactions that pass the same      *)
(* check on an intent conflict, and at most one of them commits; supplier  *)
(* capacity is spent by committed transactions only.                       *)
(***************************************************************************)
CONSTANTS
    Thread,   \* worker threads; each runs one transaction, named after it
    Intent,   \* intents a transaction locks
    Unit      \* units of supplier capacity

VARIABLES
    log,      \* committed transactions
    refused,  \* transactions that were refused or failed
    want,     \* the intents a transaction is about
    free      \* units of capacity no committed transaction has spent

vars == <<log, refused, want, free>>

Init == /\ log = {}
        /\ refused = {}
        /\ want = [t \in Thread |-> {}]
        /\ free = Unit

Pending(t) == t \notin log /\ t \notin refused

Ask(t, S) == /\ Pending(t) /\ want[t] = {} /\ S # {}
             /\ want' = [want EXCEPT ![t] = S]
             /\ UNCHANGED <<log, refused, free>>

Commit(t, U) == /\ Pending(t) /\ want[t] # {}
                /\ \A u \in log : want[u] \cap want[t] = {}
                /\ log' = log \cup {t}
                /\ free' = free \ U
                /\ UNCHANGED <<refused, want>>

Refuse(t) == /\ Pending(t) /\ want[t] # {}
             /\ refused' = refused \cup {t}
             /\ UNCHANGED <<log, want, free>>

Next == \E t \in Thread :
           \/ \E S \in SUBSET Intent : Ask(t, S)
           \/ \E U \in SUBSET free : Commit(t, U)
           \/ Refuse(t)

Spec == Init /\ [][Next]_vars
=============================================================================
