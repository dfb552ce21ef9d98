----------------------------- MODULE Aggregates -----------------------------
(***************************************************************************)
(* The aggregates of itaa_domain as a library: a purchase intent, an offer *)
(* made on it, the acceptance recorded of that offer and the transaction   *)
(* requested from it.  Their transition tables are those of the code; a    *)
(* transition that the code refuses is no step.  Every call brings its own *)
(* time of occurrence, read from a wall clock that may step back.          *)
(*                                                                         *)
(* The __post_init__ checks that every new aggregate goes through are not  *)
(* guards here: WellFormed says that the guards of _transition suffice.    *)
(*                                                                         *)
(* Terms are a price and the end of their validity.  Hashes and approvals  *)
(* are present or absent.                                                  *)
(***************************************************************************)
EXTENDS Integers

CONSTANTS
    MaxTime,     \* the last time of occurrence
    MaxVersion,  \* how often terms are resubmitted, plus one
    Price,
    None

ASSUME LimitAssumption == MaxTime \in Nat /\ MaxVersion \in Nat \ {0}

VARIABLES
    intent, offer, acceptance, transaction

vars == <<intent, offer, acceptance, transaction>>

Time == 0..MaxTime

Terms == [price : Price, until : 1..(MaxTime + 1)]

----------------------------------------------------------------------------
(* The tables.                                                             *)

IntentTable == {
    <<"DRAFT", "confirm", "CONFIRMED">>, <<"DRAFT", "cancel", "CANCELLED">>,
    <<"CONFIRMED", "preview_disclosure", "DISCLOSURE_PREVIEWED">>,
    <<"CONFIRMED", "cancel", "CANCELLED">>,
    <<"DISCLOSURE_PREVIEWED", "approve_dispatch", "APPROVED">>,
    <<"DISCLOSURE_PREVIEWED", "cancel", "CANCELLED">>,
    <<"APPROVED", "dispatch", "DISPATCHED">>, <<"APPROVED", "expire", "EXPIRED">>,
    <<"APPROVED", "cancel", "CANCELLED">>,
    <<"DISPATCHED", "cancel", "CANCELLED">>, <<"DISPATCHED", "close", "CLOSED">>}

OfferTable == {
    <<"INVITED", "begin_draft", "DRAFT">>, <<"DRAFT", "submit", "SUBMITTED">>,
    <<"SUBMITTED", "validate", "VALIDATED">>, <<"SUBMITTED", "reject", "REJECTED">>,
    <<"SUBMITTED", "counter", "COUNTERED">>,
    <<"COUNTERED", "resubmit", "SUBMITTED">>, <<"COUNTERED", "reject", "REJECTED">>,
    <<"VALIDATED", "mark_eligible", "ELIGIBLE">>, <<"VALIDATED", "reject", "REJECTED">>,
    <<"VALIDATED", "expire", "EXPIRED">>,
    <<"ELIGIBLE", "recommend", "RECOMMENDED">>, <<"ELIGIBLE", "accept", "ACCEPTED">>,
    <<"ELIGIBLE", "decline", "DECLINED">>, <<"ELIGIBLE", "expire", "EXPIRED">>,
    <<"RECOMMENDED", "accept", "ACCEPTED">>, <<"RECOMMENDED", "decline", "DECLINED">>,
    <<"RECOMMENDED", "expire", "EXPIRED">>}

TransactionTable == {
    <<"NOT_REQUESTED", "request_from_acceptance", "ACCEPTANCE_PENDING">>,
    <<"ACCEPTANCE_PENDING", "require_approval", "APPROVAL_REQUIRED">>,
    <<"APPROVAL_REQUIRED", "authorize_simulated", "AUTHORIZED_SIMULATED">>,
    <<"APPROVAL_REQUIRED", "decline", "DECLINED">>,
    <<"APPROVAL_REQUIRED", "expire", "EXPIRED">>,
    <<"APPROVAL_REQUIRED", "fail", "FAILED">>}

States(table) == {e[1] : e \in table} \cup {e[3] : e \in table}

\* assert_monotonic.
Monotonic(x, t) == t >= x.updated

\* What every _transition begins with: look the target up and refuse a time
\* before the last one.  The request names the revision it is for.
Moves(x, table, action, state, t) == /\ <<x.state, action, state>> \in table
                                     /\ Monotonic(x, t)

\* x at time t, in a state the table may lead to.
To(x, state, t) == [x EXCEPT !.state = state, !.revision = @ + 1, !.updated = t]

----------------------------------------------------------------------------
(* Purchase intent.                                                        *)

Intents == [state : States(IntentTable), revision : 1..6, updated : Time,
            expires : 1..(MaxTime + 1), hash : BOOLEAN, approval : BOOLEAN]

ForwardPreDispatch == {"confirm", "preview_disclosure", "approve_dispatch", "dispatch"}

IntentInTime(action, t) == /\ action \in ForwardPreDispatch => t < intent.expires
                           /\ action = "expire" => t >= intent.expires

MoveIntent(action, state, t) ==
    /\ Moves(intent, IntentTable, action, state, t)
    /\ IntentInTime(action, t)
    /\ intent' = [To(intent, state, t) EXCEPT !.hash = @ \/ action = "preview_disclosure",
                                             !.approval = @ \/ action = "approve_dispatch"]
    /\ UNCHANGED <<offer, acceptance, transaction>>

----------------------------------------------------------------------------
(* Offer.                                                                  *)

Offers == [state : States(OfferTable), revision : 1..(6 + 2 * MaxVersion), updated : Time,
           version : 1..MaxVersion, terms : Terms \cup {None},
           parent : 1..MaxVersion \cup {None}, accepted : BOOLEAN]

StaleAdvance == {"validate", "counter", "mark_eligible", "recommend", "accept"}

\* Advancing needs terms that are still valid, expiring needs them past.
OfferInTime(action, t) ==
    /\ action \in StaleAdvance => t < offer.terms.until
    /\ action = "expire" => t >= offer.terms.until

MoveOffer(action, state, t) ==
    /\ offer # None
    /\ Moves(offer, OfferTable, action, state, t)
    /\ OfferInTime(action, t)

\* A supplier's answer to a dispatched intent becomes an offer.
InviteOffer(t) ==
    /\ intent.state = "DISPATCHED"
    /\ offer = None
    /\ offer' = [state |-> "INVITED", revision |-> 1, updated |-> t, version |-> 1,
                 terms |-> None, parent |-> None, accepted |-> FALSE]
    /\ UNCHANGED <<intent, acceptance, transaction>>

\* begin_draft, validate, reject, mark_eligible, recommend, decline, expire.
AdvanceOffer(action, state, t) ==
    /\ action \notin {"submit", "counter", "resubmit", "accept"}
    /\ MoveOffer(action, state, t)
    /\ offer' = To(offer, state, t)
    /\ UNCHANGED <<intent, acceptance, transaction>>

SubmitOffer(terms, t) ==
    /\ MoveOffer("submit", "SUBMITTED", t)
    /\ t < terms.until
    /\ offer' = [To(offer, "SUBMITTED", t) EXCEPT !.terms = terms]
    /\ UNCHANGED <<intent, acceptance, transaction>>

\* The counter names the version it counters, which must be the current one.
CounterOffer(parent, t) ==
    /\ MoveOffer("counter", "COUNTERED", t)
    /\ parent = offer.version
    /\ offer' = [To(offer, "COUNTERED", t) EXCEPT !.parent = parent]
    /\ UNCHANGED <<intent, acceptance, transaction>>

ResubmittedSameVersion(terms, t) ==   \* mutant of Resubmitted: new terms under the old version
    [To(offer, "SUBMITTED", t) EXCEPT !.terms = terms]

Resubmitted(terms, t) ==
    [To(offer, "SUBMITTED", t) EXCEPT !.terms = terms, !.version = @ + 1]

ResubmitOffer(terms, t) ==
    /\ MoveOffer("resubmit", "SUBMITTED", t)
    /\ offer.version < MaxVersion
    /\ t < terms.until
    /\ offer' = Resubmitted(terms, t)
    /\ UNCHANGED <<intent, acceptance, transaction>>

\* Acceptance.record: made of the offer as it is read, at any stage that has
\* terms, and presented later.
Acceptances == [version : 1..MaxVersion, terms : Terms, created : Time,
                expires : 1..(MaxTime + 1)]

RecordAcceptance(t, expires) ==
    /\ offer # None
    /\ offer.terms # None
    /\ offer.state # "ACCEPTED"
    /\ t < expires
    /\ acceptance' = [version |-> offer.version, terms |-> offer.terms,
                      created |-> t, expires |-> expires]
    /\ UNCHANGED <<intent, offer, transaction>>

AcceptOffer(t) ==
    /\ MoveOffer("accept", "ACCEPTED", t)
    /\ acceptance # None
    /\ acceptance.version = offer.version
    /\ t >= acceptance.created /\ t < acceptance.expires
    /\ offer' = [To(offer, "ACCEPTED", t) EXCEPT !.accepted = TRUE]
    /\ UNCHANGED <<intent, acceptance, transaction>>

----------------------------------------------------------------------------
(* Transaction.  Its callers request it from the acceptance and the offer  *)
(* of one session, once the offer is accepted, and ask for the offer's     *)
(* price: golden_path.py:715 to 760.                                       *)

Transactions ==
    [state : States(TransactionTable), revision : 1..4, updated : Time,
     acceptance : Acceptances \cup {None}, amount : Price \cup {None},
     deadline : (1..(MaxTime + 1)) \cup {None}, receipt : [amount : Price, at : Time] \cup {None}]

MoveTransaction(action, state, t) == Moves(transaction, TransactionTable, action, state, t)

RequestFromAcceptance(t) ==
    /\ MoveTransaction("request_from_acceptance", "ACCEPTANCE_PENDING", t)
    /\ offer # None
    /\ offer.state = "ACCEPTED"
    /\ t < acceptance.expires
    /\ acceptance.version = offer.version
    /\ transaction' = [To(transaction, "ACCEPTANCE_PENDING", t) EXCEPT !.acceptance = acceptance]
    /\ UNCHANGED <<intent, offer, acceptance>>

RequireApproval(deadline, t) ==
    /\ MoveTransaction("require_approval", "APPROVAL_REQUIRED", t)
    /\ deadline > t
    /\ deadline <= transaction.acceptance.expires
    /\ transaction' = [To(transaction, "APPROVAL_REQUIRED", t) EXCEPT
                          !.amount = offer.terms.price, !.deadline = deadline]
    /\ UNCHANGED <<intent, offer, acceptance>>

AuthorizableLate(t) == t < transaction.acceptance.expires   \* mutant of Authorizable: the decision's own deadline is forgotten

Authorizable(t) == t < transaction.deadline /\ t < transaction.acceptance.expires

AuthorizeSimulated(t) ==
    /\ MoveTransaction("authorize_simulated", "AUTHORIZED_SIMULATED", t)
    /\ Authorizable(t)
    /\ transaction' = [To(transaction, "AUTHORIZED_SIMULATED", t) EXCEPT
                          !.receipt = [amount |-> transaction.amount, at |-> t]]
    /\ UNCHANGED <<intent, offer, acceptance>>

EndTransaction(action, state, t) ==
    /\ MoveTransaction(action, state, t)
    /\ action = "expire" => t >= transaction.deadline
    /\ transaction' = To(transaction, state, t)
    /\ UNCHANGED <<intent, offer, acceptance>>

----------------------------------------------------------------------------

\* None is no value of any field.
ASSUME NoneAssumption ==
    /\ None \notin Price /\ None \notin Int
    /\ None \notin Terms /\ None \notin Offers /\ None \notin Acceptances
    /\ None \notin [amount : Price, at : Time]

Init == /\ \E expires \in 1..MaxTime :
              intent = [state |-> "DRAFT", revision |-> 1, updated |-> 0,
                        expires |-> expires, hash |-> FALSE, approval |-> FALSE]
        /\ offer = None
        /\ acceptance = None
        /\ transaction = [state |-> "NOT_REQUESTED", revision |-> 1, updated |-> 0,
                          acceptance |-> None, amount |-> None, deadline |-> None,
                          receipt |-> None]

Next == \E t \in Time :
    \/ \E e \in {x \in IntentTable : x[1] = intent.state} : MoveIntent(e[2], e[3], t)
    \/ InviteOffer(t)
    \/ \E e \in {x \in OfferTable : offer # None /\ x[1] = offer.state} : AdvanceOffer(e[2], e[3], t)
    \/ \E terms \in Terms : SubmitOffer(terms, t) \/ ResubmitOffer(terms, t)
    \/ \E parent \in 1..MaxVersion : CounterOffer(parent, t)
    \/ \E expires \in 1..(MaxTime + 1) : RecordAcceptance(t, expires)
    \/ AcceptOffer(t)
    \/ RequestFromAcceptance(t)
    \/ \E deadline \in 1..(MaxTime + 1) : RequireApproval(deadline, t)
    \/ AuthorizeSimulated(t)
    \/ EndTransaction("decline", "DECLINED", t)
    \/ EndTransaction("expire", "EXPIRED", t)
    \/ EndTransaction("fail", "FAILED", t)

Spec == Init /\ [][Next]_vars

----------------------------------------------------------------------------

\* The four aggregates keep their shape.
TypeOK == /\ intent \in Intents
          /\ offer \in Offers \cup {None}
          /\ acceptance \in Acceptances \cup {None}
          /\ transaction \in Transactions

(* What __post_init__ demands of every aggregate it is given.              *)

IntentHolds == LET dispatched == {"APPROVED", "DISPATCHED", "CLOSED", "EXPIRED"} IN
    /\ intent.state \in dispatched \cup {"DISCLOSURE_PREVIEWED"} => intent.hash
    /\ intent.state \in dispatched => intent.approval
    /\ intent.state = "EXPIRED" => intent.updated >= intent.expires
    /\ intent.state = "DRAFT" => intent.revision = 1

OfferHolds == offer # None =>
    /\ offer.terms = None <=> offer.state \in {"INVITED", "DRAFT"}
    /\ offer.state = "INVITED" => offer.revision = 1
    /\ offer.state \in {"INVITED", "DRAFT"} => offer.parent = None
    /\ offer.state = "COUNTERED" => offer.parent = offer.version
    /\ offer.accepted <=> offer.state = "ACCEPTED"
    /\ offer.terms # None =>
          /\ offer.state = "EXPIRED" => offer.updated >= offer.terms.until
          /\ offer.state \in {"SUBMITTED", "COUNTERED", "VALIDATED", "ELIGIBLE",
                              "RECOMMENDED", "ACCEPTED"} => offer.updated < offer.terms.until

TransactionHolds == LET tx == transaction IN
    /\ tx.state = "NOT_REQUESTED" => tx.revision = 1
    /\ tx.acceptance = None <=> tx.state = "NOT_REQUESTED"
    /\ tx.deadline = None <=> tx.state \in {"NOT_REQUESTED", "ACCEPTANCE_PENDING"}
    /\ tx.amount = None <=> tx.deadline = None
    /\ tx.receipt # None <=> tx.state = "AUTHORIZED_SIMULATED"
    /\ tx.state = "ACCEPTANCE_PENDING" => tx.updated < tx.acceptance.expires
    /\ tx.deadline # None => tx.deadline <= tx.acceptance.expires
    /\ tx.state \in {"APPROVAL_REQUIRED", "AUTHORIZED_SIMULATED"} => tx.updated < tx.deadline
    /\ tx.state = "EXPIRED" => tx.updated >= tx.deadline

\* The checks in _transition are enough: whatever the calls, their order and
\* their clocks, no aggregate they let through is one __post_init__ refuses
\* (purchase_intent.py:145, offer.py:280, transaction.py:183), so a caller
\* never meets a DomainInvariantError after its own transition was admitted.
WellFormed == TypeOK /\ IntentHolds /\ OfferHolds /\ TransactionHolds

\* What is authorized is what was agreed.  Offer.accept and the transaction
\* compare only the version of the offer with that of the acceptance
\* (offer.py:545, transaction.py:483); across counters and resubmissions that
\* pins the terms the buyer saw, and the receipt is for their price.  They were
\* accepted while they were open, and the receipt is issued while the acceptance
\* and the decision are.  Nothing asks then whether the terms are still open
\* (transaction.py:508): they are when the acceptance was recorded to run out no
\* later than they do, as golden_path.py:598 records it.
TermsAgreed ==
    /\ (offer # None /\ offer.state = "ACCEPTED") => acceptance.terms = offer.terms
    /\ transaction.acceptance # None => transaction.acceptance = acceptance
    /\ transaction.receipt # None =>
          /\ offer.state = "ACCEPTED"
          /\ transaction.receipt.amount = acceptance.terms.price
          /\ acceptance.created <= offer.updated
          /\ offer.updated < acceptance.terms.until
          /\ transaction.receipt.at < transaction.deadline
          /\ transaction.deadline <= acceptance.expires
          /\ acceptance.expires <= acceptance.terms.until
                => transaction.receipt.at < acceptance.terms.until
=============================================================================
