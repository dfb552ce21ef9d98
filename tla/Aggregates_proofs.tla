-------------------------- MODULE Aggregates_proofs --------------------------
(***************************************************************************)
(* Proofs about the aggregates of itaa_domain and the events they emit,    *)
(* for any prices and any bounds on time and on resubmissions.             *)
(***************************************************************************)
EXTENDS Events, TLAPS

---------------------------------------------------------------------------
(***************************************************************************)
(* The inductive invariant.  It adds to WellFormed and TermsAgreed how     *)
(* often each aggregate has moved to be where it is, and which terms an    *)
(* acceptance was made of: versions only grow, and an acceptance of the    *)
(* current version is of the current terms.                                *)
(***************************************************************************)
IntentMoves ==
    /\ intent.state = "DRAFT" => intent.revision = 1
    /\ intent.state = "CONFIRMED" => intent.revision = 2
    /\ intent.state = "DISCLOSURE_PREVIEWED" => intent.revision = 3
    /\ intent.state = "APPROVED" => intent.revision = 4
    /\ intent.state = "DISPATCHED" => intent.revision = 5
    /\ intent.state \in {"DRAFT", "CONFIRMED"} => ~intent.hash

\* Every version of an offer takes two moves, a submission and a counter.
OfferMoves == offer # None =>
    /\ offer.state = "INVITED" => offer.revision = 1
    /\ offer.state = "DRAFT" => offer.revision = 2
    /\ offer.state \in {"INVITED", "DRAFT"} => offer.version = 1
    /\ offer.state = "SUBMITTED" => offer.revision = 1 + 2 * offer.version
    /\ offer.state \in {"COUNTERED", "VALIDATED"} => offer.revision = 2 + 2 * offer.version
    /\ offer.state = "ELIGIBLE" => offer.revision = 3 + 2 * offer.version
    /\ offer.state = "RECOMMENDED" => offer.revision = 4 + 2 * offer.version

TransactionMoves ==
    /\ transaction.state = "NOT_REQUESTED" => transaction.revision = 1
    /\ transaction.state = "ACCEPTANCE_PENDING" => transaction.revision = 2
    /\ transaction.state = "APPROVAL_REQUIRED" => transaction.revision = 3

\* An acceptance of the offer's current version is of its current terms.
AcceptanceOfTerms == acceptance # None =>
    /\ offer # None /\ offer.terms # None
    /\ acceptance.version <= offer.version
    /\ acceptance.version = offer.version => acceptance.terms = offer.terms

AcceptedAsRead == (offer # None /\ offer.state = "ACCEPTED") =>
    /\ acceptance # None
    /\ acceptance.version = offer.version
    /\ acceptance.created <= offer.updated

TransactionOfAcceptance ==
    /\ transaction.acceptance # None =>
          /\ offer # None /\ offer.state = "ACCEPTED"
          /\ transaction.acceptance = acceptance
    /\ transaction.amount # None => transaction.amount = offer.terms.price
    /\ transaction.receipt # None =>
          /\ transaction.receipt.amount = transaction.amount
          /\ transaction.receipt.at = transaction.updated

AggregateInv ==
    /\ WellFormed
    /\ IntentMoves /\ OfferMoves /\ TransactionMoves
    /\ AcceptanceOfTerms /\ AcceptedAsRead /\ TransactionOfAcceptance

---------------------------------------------------------------------------
(***************************************************************************)
(* The tables, row by row.                                                 *)
(***************************************************************************)
\* The transitions of an intent.
LEMMA IntentRows ==
    ASSUME NEW s, NEW a, NEW n, <<s, a, n>> \in IntentTable
    PROVE  /\ n \in States(IntentTable)
           /\ \/ s = "DRAFT" /\ a = "confirm" /\ n = "CONFIRMED"
              \/ s = "CONFIRMED" /\ a = "preview_disclosure" /\ n = "DISCLOSURE_PREVIEWED"
              \/ s = "DISCLOSURE_PREVIEWED" /\ a = "approve_dispatch" /\ n = "APPROVED"
              \/ s = "APPROVED" /\ a = "dispatch" /\ n = "DISPATCHED"
              \/ s = "APPROVED" /\ a = "expire" /\ n = "EXPIRED"
              \/ s = "DISPATCHED" /\ a = "close" /\ n = "CLOSED"
              \/ /\ s \in {"DRAFT", "CONFIRMED", "DISCLOSURE_PREVIEWED", "APPROVED", "DISPATCHED"}
                 /\ a = "cancel" /\ n = "CANCELLED"
<1>1. n \in States(IntentTable)
    <2> DEFINE e == <<s, a, n>>
    <2>1. e[3] \in {x[3] : x \in IntentTable}
        OBVIOUS
    <2> QED
        BY <2>1 DEF States
<1> QED
    BY <1>1 DEF IntentTable

\* The transitions of an offer.
LEMMA OfferRows ==
    ASSUME NEW s, NEW a, NEW n, <<s, a, n>> \in OfferTable
    PROVE  /\ n \in States(OfferTable)
           /\ \/ s = "INVITED" /\ a = "begin_draft" /\ n = "DRAFT"
              \/ s = "DRAFT" /\ a = "submit" /\ n = "SUBMITTED"
              \/ s = "SUBMITTED" /\ a = "validate" /\ n = "VALIDATED"
              \/ s = "SUBMITTED" /\ a = "counter" /\ n = "COUNTERED"
              \/ s = "COUNTERED" /\ a = "resubmit" /\ n = "SUBMITTED"
              \/ s = "VALIDATED" /\ a = "mark_eligible" /\ n = "ELIGIBLE"
              \/ s = "ELIGIBLE" /\ a = "recommend" /\ n = "RECOMMENDED"
              \/ s \in {"SUBMITTED", "COUNTERED", "VALIDATED"} /\ a = "reject" /\ n = "REJECTED"
              \/ s \in {"VALIDATED", "ELIGIBLE", "RECOMMENDED"} /\ a = "expire" /\ n = "EXPIRED"
              \/ s \in {"ELIGIBLE", "RECOMMENDED"} /\ a = "accept" /\ n = "ACCEPTED"
              \/ s \in {"ELIGIBLE", "RECOMMENDED"} /\ a = "decline" /\ n = "DECLINED"
<1>1. n \in States(OfferTable)
    <2> DEFINE e == <<s, a, n>>
    <2>1. e[3] \in {x[3] : x \in OfferTable}
        OBVIOUS
    <2> QED
        BY <2>1 DEF States
<1> QED
    BY <1>1 DEF OfferTable

\* The transitions of a transaction.
LEMMA TransactionRows ==
    ASSUME NEW s, NEW a, NEW n, <<s, a, n>> \in TransactionTable
    PROVE  /\ n \in States(TransactionTable)
           /\ \/ s = "NOT_REQUESTED" /\ a = "request_from_acceptance" /\ n = "ACCEPTANCE_PENDING"
              \/ s = "ACCEPTANCE_PENDING" /\ a = "require_approval" /\ n = "APPROVAL_REQUIRED"
              \/ s = "APPROVAL_REQUIRED" /\ a = "authorize_simulated" /\ n = "AUTHORIZED_SIMULATED"
              \/ s = "APPROVAL_REQUIRED" /\ a = "decline" /\ n = "DECLINED"
              \/ s = "APPROVAL_REQUIRED" /\ a = "expire" /\ n = "EXPIRED"
              \/ s = "APPROVAL_REQUIRED" /\ a = "fail" /\ n = "FAILED"
<1>1. n \in States(TransactionTable)
    <2> DEFINE e == <<s, a, n>>
    <2>1. e[3] \in {x[3] : x \in TransactionTable}
        OBVIOUS
    <2> QED
        BY <2>1 DEF States
<1> QED
    BY <1>1 DEF TransactionTable

---------------------------------------------------------------------------
(***************************************************************************)
(* The purchase intent.                                                    *)
(***************************************************************************)
\* An intent at another time, in another state.
LEMMA IntentTo ==
    ASSUME NEW x \in Intents, x.revision < 6, NEW state \in States(IntentTable), NEW t \in Time
    PROVE  LET y == To(x, state, t) IN
           /\ y \in Intents
           /\ y.state = state /\ y.revision = x.revision + 1 /\ y.updated = t
           /\ y.expires = x.expires /\ y.hash = x.hash /\ y.approval = x.approval
<1>1. x.revision + 1 \in 1..6
    BY DEF Intents
<1> QED
    BY <1>1 DEF To, Intents

\* An admitted transition of an intent keeps what holds of it.
LEMMA IntentSteps ==
    ASSUME TypeOK, IntentHolds, IntentMoves, NEW action, NEW state, NEW t \in Time,
           MoveIntent(action, state, t)
    PROVE  intent' \in Intents /\ IntentHolds' /\ IntentMoves'
<1> DEFINE hash == intent.hash \/ action = "preview_disclosure"
           approval == intent.approval \/ action = "approve_dispatch"
           y == To(intent, state, t)
           n == [y EXCEPT !.hash = hash, !.approval = approval]
<1>1. /\ <<intent.state, action, state>> \in IntentTable
      /\ IntentInTime(action, t) /\ intent \in Intents
    BY DEF MoveIntent, Moves, TypeOK
<1>2. intent.revision \in 1..6 /\ intent.revision < 6 /\ state \in States(IntentTable)
    BY <1>1, IntentRows DEF IntentMoves, Intents
<1>3. hash \in BOOLEAN /\ approval \in BOOLEAN
    OBVIOUS
<1>4. intent' = [y EXCEPT !.hash = @ \/ action = "preview_disclosure",
                          !.approval = @ \/ action = "approve_dispatch"]
    BY DEF MoveIntent
<1>5. state # "DRAFT" /\ (state = "EXPIRED" => t >= intent.expires)
    BY <1>1, IntentRows DEF IntentInTime
<1>6. /\ state \in {"APPROVED", "DISPATCHED", "CLOSED", "EXPIRED", "DISCLOSURE_PREVIEWED"} => hash
      /\ state \in {"APPROVED", "DISPATCHED", "CLOSED", "EXPIRED"} => approval
    BY <1>1, IntentRows DEF IntentHolds
<1>6a. state = "CONFIRMED" => ~hash
    BY <1>1, IntentRows DEF IntentMoves
<1>7. /\ y \in Intents
      /\ y.state = state /\ y.revision = intent.revision + 1 /\ y.updated = t
      /\ y.expires = intent.expires /\ y.hash = intent.hash /\ y.approval = intent.approval
    BY <1>1, <1>2, IntentTo
<1> HIDE DEF y
<1>8. intent' = n
    BY <1>4, <1>7
<1> HIDE DEF hash, approval
<1>9. /\ n \in Intents
      /\ n.state = state /\ n.revision = intent.revision + 1 /\ n.updated = t
      /\ n.expires = intent.expires /\ n.hash = hash /\ n.approval = approval
    BY <1>3, <1>7 DEF Intents
<1> HIDE DEF n
<1>9a. n.state \in {"DRAFT", "CONFIRMED"} => ~n.hash
    BY <1>5, <1>6a, <1>9
<1>10. IntentMoves'
    BY <1>1, <1>2, <1>8, <1>9, <1>9a, IntentRows DEF IntentMoves
<1>11. IntentHolds'
    BY <1>5, <1>6, <1>8, <1>9 DEF IntentHolds
<1> QED
    BY <1>8, <1>9, <1>10, <1>11

---------------------------------------------------------------------------
(***************************************************************************)
(* The offer.                                                              *)
(***************************************************************************)
OfferInv == offer \in Offers \cup {None} /\ OfferHolds /\ OfferMoves

LinkInv == AcceptanceOfTerms /\ AcceptedAsRead /\ TransactionOfAcceptance

\* An offer at another time, in another state.
LEMMA OfferTo ==
    ASSUME NEW x \in Offers, x.revision < 6 + 2 * MaxVersion,
           NEW state \in States(OfferTable), NEW t \in Time
    PROVE  LET y == To(x, state, t) IN
           /\ y \in Offers
           /\ y.state = state /\ y.revision = x.revision + 1 /\ y.updated = t
           /\ y.version = x.version /\ y.terms = x.terms /\ y.parent = x.parent
           /\ y.accepted = x.accepted
<1>1. x.revision + 1 \in 1..(6 + 2 * MaxVersion)
    BY LimitAssumption DEF Offers
<1> QED
    BY <1>1 DEF To, Offers

\* What an admitted transition of an offer starts from.
LEMMA OfferStart ==
    ASSUME TypeOK, OfferHolds, OfferMoves, NEW action, NEW state, NEW t \in Time,
           MoveOffer(action, state, t)
    PROVE  /\ offer # None /\ offer \in Offers /\ offer.state # "ACCEPTED"
           /\ <<offer.state, action, state>> \in OfferTable
           /\ OfferInTime(action, t) /\ t >= offer.updated
           /\ LET y == To(offer, state, t) IN
              /\ y \in Offers
              /\ y.state = state /\ y.revision = offer.revision + 1 /\ y.updated = t
              /\ y.version = offer.version /\ y.terms = offer.terms /\ y.parent = offer.parent
              /\ ~y.accepted
<1>1. /\ offer # None /\ offer \in Offers /\ <<offer.state, action, state>> \in OfferTable
      /\ OfferInTime(action, t) /\ t >= offer.updated
    BY DEF MoveOffer, Moves, Monotonic, TypeOK
<1>2. offer.version \in 1..MaxVersion /\ offer.revision \in 1..(6 + 2 * MaxVersion)
    BY <1>1 DEF Offers
<1>3. offer.state # "ACCEPTED" /\ state \in States(OfferTable)
    BY <1>1, OfferRows
<1>4. offer.revision < 6 + 2 * MaxVersion
    BY <1>1, <1>2, OfferRows, LimitAssumption DEF OfferMoves
<1>5. ~offer.accepted
    BY <1>1, <1>3 DEF OfferHolds
<1> QED
    BY <1>1, <1>3, <1>4, <1>5, OfferTo

\* An admitted transition of an offer leaves the acceptance and the transaction
\* about it, as long as new terms come with a new version.
LEMMA OfferLinks ==
    ASSUME AggregateInv, offer # None, offer.state # "ACCEPTED", offer' # None, offer \in Offers,
           offer' \in Offers,
           UNCHANGED <<acceptance, transaction>>,
           \/ offer'.version = offer.version /\ (offer.terms # None => offer'.terms = offer.terms)
           \/ offer'.version = offer.version + 1 /\ offer'.terms # None,
           offer'.state = "ACCEPTED" =>
              /\ acceptance # None /\ acceptance.version = offer'.version
              /\ acceptance.created <= offer'.updated
    PROVE  LinkInv'
<1>1. offer.version \in Nat /\ (acceptance # None => acceptance.version \in Nat)
    BY LimitAssumption DEF Offers, AggregateInv, WellFormed, TypeOK, Acceptances
<1>2. AcceptanceOfTerms'
    BY <1>1 DEF AggregateInv, AcceptanceOfTerms
<1>3. AcceptedAsRead'
    BY DEF AcceptedAsRead
<1>4. transaction.acceptance = None
    BY DEF AggregateInv, TransactionOfAcceptance
<1>5. transaction.amount = None /\ transaction.receipt = None
    BY <1>4 DEF AggregateInv, WellFormed, TransactionHolds
<1>6. TransactionOfAcceptance'
    BY <1>4, <1>5 DEF TransactionOfAcceptance
<1> QED
    BY <1>2, <1>3, <1>6 DEF LinkInv

\* begin_draft, validate, reject, mark_eligible, recommend, decline, expire.
LEMMA AdvanceSteps ==
    ASSUME AggregateInv, NEW action, NEW state, NEW t \in Time, AdvanceOffer(action, state, t)
    PROVE  OfferInv' /\ LinkInv' /\ offer' # None
<1>1. MoveOffer(action, state, t) /\ action \notin {"submit", "counter", "resubmit", "accept"}
    BY DEF AdvanceOffer
<1>2. OfferHolds /\ OfferMoves /\ TypeOK
    BY DEF AggregateInv, WellFormed
<1> DEFINE y == To(offer, state, t)
<1>3. /\ offer # None /\ offer \in Offers /\ offer.state # "ACCEPTED"
      /\ <<offer.state, action, state>> \in OfferTable
      /\ OfferInTime(action, t) /\ t >= offer.updated
      /\ y \in Offers
      /\ y.state = state /\ y.revision = offer.revision + 1 /\ y.updated = t
      /\ y.version = offer.version /\ y.terms = offer.terms /\ y.parent = offer.parent
      /\ ~y.accepted
    BY <1>1, <1>2, OfferStart
<1>4. offer' = y /\ UNCHANGED <<acceptance, transaction>>
    BY DEF AdvanceOffer
<1>5. offer' # None
    BY <1>3, <1>4, NoneAssumption
<1> HIDE DEF y
<1>6. state \notin {"SUBMITTED", "COUNTERED", "ACCEPTED", "INVITED"}
    BY <1>1, <1>3, OfferRows
<1>7. LinkInv'
    BY <1>3, <1>4, <1>5, <1>6, OfferLinks
<1>8. offer.version \in Nat /\ offer.revision \in Nat
    BY <1>3, LimitAssumption DEF Offers
<1>9. OfferMoves'
    BY <1>1, <1>2, <1>3, <1>4, <1>8, OfferRows DEF OfferMoves
<1>10. OfferHolds'
  <2>1. offer.terms = None <=> (state \in {"INVITED", "DRAFT"})
    BY <1>1, <1>2, <1>3, OfferRows DEF OfferHolds
  <2>2. state = "DRAFT" => offer.parent = None
    BY <1>1, <1>2, <1>3, OfferRows DEF OfferHolds
  <2>3. offer.terms # None =>
           /\ state = "EXPIRED" => t >= offer.terms.until
           /\ state \in {"VALIDATED", "ELIGIBLE", "RECOMMENDED"} => t < offer.terms.until
    BY <1>1, <1>3, OfferRows DEF OfferInTime, StaleAdvance
  <2> QED
    BY <1>3, <1>4, <1>6, <2>1, <2>2, <2>3 DEF OfferHolds
<1> QED
    BY <1>3, <1>4, <1>7, <1>9, <1>10, <1>5 DEF OfferInv

\* The first terms of an offer.
LEMMA SubmitSteps ==
    ASSUME AggregateInv, NEW terms \in Terms, NEW t \in Time, SubmitOffer(terms, t)
    PROVE  OfferInv' /\ LinkInv' /\ offer' # None
<1> DEFINE y == To(offer, "SUBMITTED", t)
           n == [y EXCEPT !.terms = terms]
<1>1. MoveOffer("submit", "SUBMITTED", t) /\ t < terms.until
    BY DEF SubmitOffer
<1>2. OfferHolds /\ OfferMoves /\ TypeOK
    BY DEF AggregateInv, WellFormed
<1>3. /\ offer # None /\ offer \in Offers /\ offer.state # "ACCEPTED"
      /\ <<offer.state, "submit", "SUBMITTED">> \in OfferTable
      /\ y \in Offers
      /\ y.state = "SUBMITTED" /\ y.revision = offer.revision + 1 /\ y.updated = t
      /\ y.version = offer.version /\ y.terms = offer.terms /\ y.parent = offer.parent
      /\ ~y.accepted
    BY <1>1, <1>2, OfferStart
<1>4. offer' = n /\ UNCHANGED <<acceptance, transaction>>
    BY DEF SubmitOffer
<1> HIDE DEF y
<1>5. /\ n \in Offers
      /\ n.state = "SUBMITTED" /\ n.revision = offer.revision + 1 /\ n.updated = t
      /\ n.version = offer.version /\ n.terms = terms /\ n.parent = offer.parent
      /\ ~n.accepted
    BY <1>3 DEF Offers
<1> HIDE DEF n
<1>6. offer' # None /\ terms # None
    BY <1>4, <1>5, NoneAssumption
<1>7. offer.state = "DRAFT" /\ offer.terms = None /\ offer.version = 1 /\ offer.revision = 2
    BY <1>2, <1>3, OfferRows DEF OfferHolds, OfferMoves
<1>8. LinkInv'
    BY <1>3, <1>4, <1>5, <1>6, <1>7, OfferLinks
<1>9. OfferMoves'
    BY <1>4, <1>5, <1>7 DEF OfferMoves
<1>10. OfferHolds'
    BY <1>1, <1>4, <1>5, <1>6 DEF OfferHolds
<1> QED
    BY <1>4, <1>5, <1>8, <1>9, <1>10, NoneAssumption DEF OfferInv

\* Countering the current version.
LEMMA CounterSteps ==
    ASSUME AggregateInv, NEW parent \in 1..MaxVersion, NEW t \in Time, CounterOffer(parent, t)
    PROVE  OfferInv' /\ LinkInv' /\ offer' # None
<1> DEFINE y == To(offer, "COUNTERED", t)
           n == [y EXCEPT !.parent = parent]
<1>1. MoveOffer("counter", "COUNTERED", t) /\ parent = offer.version
    BY DEF CounterOffer
<1>2. OfferHolds /\ OfferMoves /\ TypeOK
    BY DEF AggregateInv, WellFormed
<1>3. /\ offer # None /\ offer \in Offers /\ offer.state # "ACCEPTED"
      /\ <<offer.state, "counter", "COUNTERED">> \in OfferTable
      /\ OfferInTime("counter", t)
      /\ y \in Offers
      /\ y.state = "COUNTERED" /\ y.revision = offer.revision + 1 /\ y.updated = t
      /\ y.version = offer.version /\ y.terms = offer.terms /\ y.parent = offer.parent
      /\ ~y.accepted
    BY <1>1, <1>2, OfferStart
<1>4. offer' = n /\ UNCHANGED <<acceptance, transaction>>
    BY DEF CounterOffer
<1> HIDE DEF y
<1>5. /\ n \in Offers
      /\ n.state = "COUNTERED" /\ n.revision = offer.revision + 1 /\ n.updated = t
      /\ n.version = offer.version /\ n.terms = offer.terms /\ n.parent = parent
      /\ ~n.accepted
    BY <1>3 DEF Offers
<1> HIDE DEF n
<1>6. offer' # None
    BY <1>4, <1>5, NoneAssumption
<1>7. /\ offer.state = "SUBMITTED" /\ offer.terms # None /\ t < offer.terms.until
      /\ offer.revision = 1 + 2 * offer.version /\ offer.version \in Nat
    BY <1>2, <1>3, OfferRows, LimitAssumption
    DEF OfferHolds, OfferMoves, OfferInTime, StaleAdvance, Offers
<1>8. LinkInv'
    BY <1>3, <1>4, <1>5, <1>6, OfferLinks
<1>9. OfferMoves'
    BY <1>4, <1>5, <1>7 DEF OfferMoves
<1>10. OfferHolds'
    BY <1>1, <1>4, <1>5, <1>7 DEF OfferHolds
<1> QED
    BY <1>4, <1>5, <1>8, <1>9, <1>10, NoneAssumption DEF OfferInv

\* New terms come under a new version.
LEMMA ResubmitSteps ==
    ASSUME AggregateInv, NEW terms \in Terms, NEW t \in Time, ResubmitOffer(terms, t)
    PROVE  OfferInv' /\ LinkInv' /\ offer' # None
<1> DEFINE y == To(offer, "SUBMITTED", t)
           n == [y EXCEPT !.terms = terms, !.version = offer.version + 1]
<1>1. /\ MoveOffer("resubmit", "SUBMITTED", t) /\ t < terms.until
      /\ offer.version < MaxVersion
    BY DEF ResubmitOffer
<1>2. OfferHolds /\ OfferMoves /\ TypeOK
    BY DEF AggregateInv, WellFormed
<1>3. /\ offer # None /\ offer \in Offers /\ offer.state # "ACCEPTED"
      /\ <<offer.state, "resubmit", "SUBMITTED">> \in OfferTable
      /\ y \in Offers
      /\ y.state = "SUBMITTED" /\ y.revision = offer.revision + 1 /\ y.updated = t
      /\ y.version = offer.version /\ y.terms = offer.terms /\ y.parent = offer.parent
      /\ ~y.accepted
    BY <1>1, <1>2, OfferStart
<1>4. offer' = [y EXCEPT !.terms = terms, !.version = @ + 1] /\ UNCHANGED <<acceptance, transaction>>
    BY DEF ResubmitOffer, Resubmitted
<1> HIDE DEF y
<1>5. offer' = n
    BY <1>3, <1>4
<1>6. offer.version + 1 \in 1..MaxVersion
    BY <1>1, <1>3, LimitAssumption DEF Offers
<1>7. /\ n \in Offers
      /\ n.state = "SUBMITTED" /\ n.revision = offer.revision + 1 /\ n.updated = t
      /\ n.version = offer.version + 1 /\ n.terms = terms /\ n.parent = offer.parent
      /\ ~n.accepted
    BY <1>3, <1>6 DEF Offers
<1> HIDE DEF n
<1>8. offer' # None /\ terms # None
    BY <1>5, <1>7, NoneAssumption
<1>9. /\ offer.state = "COUNTERED"
      /\ offer.revision = 2 + 2 * offer.version /\ offer.version \in Nat
    BY <1>2, <1>3, OfferRows, LimitAssumption DEF OfferMoves, Offers
<1>10. LinkInv'
    BY <1>3, <1>4, <1>5, <1>7, <1>8, OfferLinks
<1>11. OfferMoves'
    BY <1>5, <1>7, <1>9 DEF OfferMoves
<1>12. OfferHolds'
    BY <1>1, <1>5, <1>7, <1>8 DEF OfferHolds
<1> QED
    BY <1>5, <1>7, <1>10, <1>11, <1>12, NoneAssumption DEF OfferInv

\* Accepting the version that the acceptance was made of.
LEMMA AcceptSteps ==
    ASSUME AggregateInv, NEW t \in Time, AcceptOffer(t)
    PROVE  OfferInv' /\ LinkInv' /\ offer' # None
<1> DEFINE y == To(offer, "ACCEPTED", t)
           n == [y EXCEPT !.accepted = TRUE]
<1>1. /\ MoveOffer("accept", "ACCEPTED", t)
      /\ acceptance # None /\ acceptance.version = offer.version /\ t >= acceptance.created
    BY DEF AcceptOffer
<1>2. OfferHolds /\ OfferMoves /\ TypeOK
    BY DEF AggregateInv, WellFormed
<1>3. /\ offer # None /\ offer \in Offers /\ offer.state # "ACCEPTED"
      /\ <<offer.state, "accept", "ACCEPTED">> \in OfferTable
      /\ OfferInTime("accept", t)
      /\ y \in Offers
      /\ y.state = "ACCEPTED" /\ y.revision = offer.revision + 1 /\ y.updated = t
      /\ y.version = offer.version /\ y.terms = offer.terms /\ y.parent = offer.parent
    BY <1>1, <1>2, OfferStart
<1>4. offer' = n /\ UNCHANGED <<acceptance, transaction>>
    BY DEF AcceptOffer
<1> HIDE DEF y
<1>5. /\ n \in Offers
      /\ n.state = "ACCEPTED" /\ n.revision = offer.revision + 1 /\ n.updated = t
      /\ n.version = offer.version /\ n.terms = offer.terms /\ n.parent = offer.parent
      /\ n.accepted
    BY <1>3 DEF Offers
<1> HIDE DEF n
<1>6. offer' # None
    BY <1>4, <1>5, NoneAssumption
<1>7. offer.terms # None /\ t < offer.terms.until
    BY <1>2, <1>3, OfferRows DEF OfferHolds, OfferInTime, StaleAdvance
<1>8. acceptance.created <= t
    <2>1. acceptance.created \in Int
      BY <1>1, <1>2, LimitAssumption DEF TypeOK, Acceptances, Time
    <2> QED
      BY <1>1, <2>1, LimitAssumption DEF Time
<1>9. LinkInv'
    BY <1>1, <1>3, <1>4, <1>5, <1>6, <1>8, OfferLinks
<1>10. OfferMoves'
    BY <1>4, <1>5 DEF OfferMoves
<1>11. OfferHolds'
    BY <1>4, <1>5, <1>7 DEF OfferHolds
<1> QED
    BY <1>4, <1>5, <1>9, <1>10, <1>11, NoneAssumption DEF OfferInv

\* A supplier is asked.
LEMMA InviteSteps ==
    ASSUME AggregateInv, NEW t \in Time, InviteOffer(t)
    PROVE  OfferInv' /\ LinkInv' /\ offer' # None
<1> DEFINE n == [state |-> "INVITED", revision |-> 1, updated |-> t, version |-> 1,
                 terms |-> None, parent |-> None, accepted |-> FALSE]
<1>1. offer = None /\ offer' = n /\ UNCHANGED <<acceptance, transaction>>
    BY DEF InviteOffer
<1>2. "INVITED" \in States(OfferTable)
  <2>1. <<"INVITED", "begin_draft", "DRAFT">> \in OfferTable
    BY DEF OfferTable
  <2>2. <<"INVITED", "begin_draft", "DRAFT">>[1] \in {e[1] : e \in OfferTable}
    BY <2>1
  <2> QED
    BY <2>2 DEF States
<1>3. n \in Offers
    BY <1>2, LimitAssumption DEF Offers
<1>4. OfferHolds' /\ OfferMoves'
    BY <1>1 DEF OfferHolds, OfferMoves
<1>5. acceptance = None /\ transaction.acceptance = None
    BY <1>1 DEF AggregateInv, AcceptanceOfTerms, TransactionOfAcceptance
<1>6. transaction.amount = None /\ transaction.receipt = None
    BY <1>5 DEF AggregateInv, WellFormed, TransactionHolds
<1>7. LinkInv'
    BY <1>1, <1>5, <1>6 DEF LinkInv, AcceptanceOfTerms, AcceptedAsRead, TransactionOfAcceptance
<1> QED
    BY <1>1, <1>3, <1>4, <1>7, NoneAssumption DEF OfferInv

\* An acceptance is recorded of the terms as they are read.
LEMMA RecordSteps ==
    ASSUME AggregateInv, NEW t \in Time, NEW expires \in 1..(MaxTime + 1),
           RecordAcceptance(t, expires)
    PROVE  acceptance' \in Acceptances /\ LinkInv'
<1> DEFINE n == [version |-> offer.version, terms |-> offer.terms, created |-> t, expires |-> expires]
<1>1. /\ offer # None /\ offer.terms # None /\ offer.state # "ACCEPTED"
      /\ acceptance' = n /\ UNCHANGED <<offer, transaction>>
    BY DEF RecordAcceptance
<1>2. offer \in Offers
    BY <1>1 DEF AggregateInv, WellFormed, TypeOK
<1>3. offer.version \in 1..MaxVersion /\ offer.terms \in Terms
    BY <1>1, <1>2 DEF Offers
<1>4. n \in Acceptances
    BY <1>3 DEF Acceptances
<1>5. transaction.acceptance = None
    BY <1>1 DEF AggregateInv, TransactionOfAcceptance
<1>6. transaction.amount = None /\ transaction.receipt = None
    BY <1>5 DEF AggregateInv, WellFormed, TransactionHolds
<1>7. offer.version <= offer.version
    BY <1>3
<1>8. LinkInv'
    BY <1>1, <1>5, <1>6, <1>7 DEF LinkInv, AcceptanceOfTerms, AcceptedAsRead, TransactionOfAcceptance
<1> QED
    BY <1>1, <1>4, <1>8

---------------------------------------------------------------------------
(***************************************************************************)
(* The transaction.                                                        *)
(***************************************************************************)
TransactionInv == transaction \in Transactions /\ TransactionHolds /\ TransactionMoves

\* A transaction at another time, in another state.
LEMMA TransactionTo ==
    ASSUME NEW x \in Transactions, x.revision < 4,
           NEW state \in States(TransactionTable), NEW t \in Time
    PROVE  LET y == To(x, state, t) IN
           /\ y \in Transactions
           /\ y.state = state /\ y.revision = x.revision + 1 /\ y.updated = t
           /\ y.acceptance = x.acceptance /\ y.amount = x.amount /\ y.deadline = x.deadline
           /\ y.receipt = x.receipt
<1>1. x.revision + 1 \in 1..4
    BY DEF Transactions
<1> QED
    BY <1>1 DEF To, Transactions

\* What an admitted transition of a transaction starts from.
LEMMA TransactionStart ==
    ASSUME TransactionInv, NEW action, NEW state, NEW t \in Time,
           MoveTransaction(action, state, t)
    PROVE  /\ <<transaction.state, action, state>> \in TransactionTable
           /\ transaction.receipt = None
           /\ LET y == To(transaction, state, t) IN
              /\ y \in Transactions
              /\ y.state = state /\ y.revision = transaction.revision + 1 /\ y.updated = t
              /\ y.acceptance = transaction.acceptance /\ y.amount = transaction.amount
              /\ y.deadline = transaction.deadline /\ y.receipt = None
<1>1. <<transaction.state, action, state>> \in TransactionTable /\ transaction \in Transactions
    BY DEF MoveTransaction, Moves, TransactionInv
<1>2. state \in States(TransactionTable) /\ transaction.state # "AUTHORIZED_SIMULATED"
    BY <1>1, TransactionRows
<1>3. transaction.revision < 4
    BY <1>1, TransactionRows DEF TransactionInv, TransactionMoves
<1>4. transaction.receipt = None
    BY <1>2 DEF TransactionInv, TransactionHolds
<1> QED
    BY <1>1, <1>2, <1>3, <1>4, TransactionTo

\* What each action makes of the transaction.
LEMMA RequestSteps ==
    ASSUME AggregateInv, NEW t \in Time, RequestFromAcceptance(t)
    PROVE  TransactionInv' /\ LinkInv'
<1> DEFINE y == To(transaction, "ACCEPTANCE_PENDING", t)
           n == [y EXCEPT !.acceptance = acceptance]
<1>0. TransactionInv
    BY DEF AggregateInv, WellFormed, TypeOK, TransactionInv
<1>1. /\ MoveTransaction("request_from_acceptance", "ACCEPTANCE_PENDING", t)
      /\ offer # None /\ offer.state = "ACCEPTED"
      /\ t < acceptance.expires
      /\ transaction' = n /\ UNCHANGED <<offer, acceptance>>
    BY DEF RequestFromAcceptance
<1>2. acceptance \in Acceptances /\ acceptance # None
    BY <1>1 DEF AggregateInv, WellFormed, TypeOK, AcceptedAsRead
<1>3. /\ <<transaction.state, "request_from_acceptance", "ACCEPTANCE_PENDING">> \in TransactionTable
      /\ y \in Transactions
      /\ y.state = "ACCEPTANCE_PENDING" /\ y.revision = transaction.revision + 1 /\ y.updated = t
      /\ y.amount = transaction.amount /\ y.deadline = transaction.deadline /\ y.receipt = None
    BY <1>0, <1>1, TransactionStart
<1> HIDE DEF y
<1>4. /\ n \in Transactions
      /\ n.state = "ACCEPTANCE_PENDING" /\ n.revision = transaction.revision + 1 /\ n.updated = t
      /\ n.acceptance = acceptance /\ n.amount = transaction.amount
      /\ n.deadline = transaction.deadline /\ n.receipt = None
    BY <1>2, <1>3 DEF Transactions
<1> HIDE DEF n
<1>5. transaction.state = "NOT_REQUESTED" /\ transaction.revision = 1
    BY <1>0, <1>3, TransactionRows DEF TransactionInv, TransactionMoves
<1>6. transaction.deadline = None /\ transaction.amount = None
    BY <1>0, <1>5 DEF TransactionInv, TransactionHolds
<1>7. TransactionHolds' /\ TransactionMoves'
    BY <1>1, <1>2, <1>4, <1>5, <1>6 DEF TransactionHolds, TransactionMoves
<1>8. LinkInv'
    BY <1>1, <1>4, <1>6 DEF LinkInv, AggregateInv, AcceptanceOfTerms, AcceptedAsRead, TransactionOfAcceptance
<1> QED
    BY <1>1, <1>4, <1>7, <1>8 DEF TransactionInv

\* The approval is asked for the price of the accepted terms.
LEMMA RequireSteps ==
    ASSUME AggregateInv, NEW deadline \in 1..(MaxTime + 1), NEW t \in Time,
           RequireApproval(deadline, t)
    PROVE  TransactionInv' /\ LinkInv'
<1> DEFINE y == To(transaction, "APPROVAL_REQUIRED", t)
           n == [y EXCEPT !.amount = offer.terms.price, !.deadline = deadline]
<1>0. TransactionInv
    BY DEF AggregateInv, WellFormed, TypeOK, TransactionInv
<1>1. /\ MoveTransaction("require_approval", "APPROVAL_REQUIRED", t)
      /\ deadline > t /\ deadline <= transaction.acceptance.expires
      /\ transaction' = n /\ UNCHANGED <<offer, acceptance>>
    BY DEF RequireApproval
<1>2. /\ <<transaction.state, "require_approval", "APPROVAL_REQUIRED">> \in TransactionTable
      /\ y \in Transactions
      /\ y.state = "APPROVAL_REQUIRED" /\ y.revision = transaction.revision + 1 /\ y.updated = t
      /\ y.acceptance = transaction.acceptance /\ y.receipt = None
    BY <1>0, <1>1, TransactionStart
<1>3. transaction.state = "ACCEPTANCE_PENDING" /\ transaction.revision = 2
    BY <1>0, <1>2, TransactionRows DEF TransactionInv, TransactionMoves
<1>4. transaction.acceptance # None /\ offer # None /\ offer.state = "ACCEPTED"
    BY <1>0, <1>3 DEF TransactionInv, TransactionHolds, AggregateInv, TransactionOfAcceptance
<1>5. offer.terms.price \in Price /\ offer.terms.price # None
  <2>1. offer \in Offers /\ offer.terms # None
    BY <1>4 DEF AggregateInv, WellFormed, TypeOK, OfferHolds
  <2> QED
    BY <2>1, NoneAssumption DEF Offers, Terms
<1> HIDE DEF y
<1>6. /\ n \in Transactions
      /\ n.state = "APPROVAL_REQUIRED" /\ n.revision = transaction.revision + 1 /\ n.updated = t
      /\ n.acceptance = transaction.acceptance /\ n.amount = offer.terms.price
      /\ n.deadline = deadline /\ n.receipt = None
    BY <1>2, <1>5 DEF Transactions
<1> HIDE DEF n
<1>7. deadline # None /\ t < deadline
    BY <1>1, NoneAssumption, LimitAssumption DEF Time
<1>8. TransactionHolds' /\ TransactionMoves'
    BY <1>1, <1>3, <1>4, <1>5, <1>6, <1>7 DEF TransactionHolds, TransactionMoves
<1>9. LinkInv'
    BY <1>1, <1>4, <1>6 DEF LinkInv, AggregateInv, AcceptanceOfTerms, AcceptedAsRead, TransactionOfAcceptance
<1> QED
    BY <1>1, <1>6, <1>8, <1>9 DEF TransactionInv

\* The receipt is for the amount the approval was asked for.
LEMMA AuthorizeSteps ==
    ASSUME AggregateInv, NEW t \in Time, AuthorizeSimulated(t)
    PROVE  TransactionInv' /\ LinkInv'
<1> DEFINE y == To(transaction, "AUTHORIZED_SIMULATED", t)
           r == [amount |-> transaction.amount, at |-> t]
           n == [y EXCEPT !.receipt = r]
<1>0. TransactionInv
    BY DEF AggregateInv, WellFormed, TypeOK, TransactionInv
<1>1. /\ MoveTransaction("authorize_simulated", "AUTHORIZED_SIMULATED", t)
      /\ t < transaction.deadline
      /\ transaction' = n /\ UNCHANGED <<offer, acceptance>>
    BY DEF AuthorizeSimulated, Authorizable
<1>2. /\ <<transaction.state, "authorize_simulated", "AUTHORIZED_SIMULATED">> \in TransactionTable
      /\ y \in Transactions
      /\ y.state = "AUTHORIZED_SIMULATED" /\ y.revision = transaction.revision + 1 /\ y.updated = t
      /\ y.acceptance = transaction.acceptance /\ y.amount = transaction.amount
      /\ y.deadline = transaction.deadline
    BY <1>0, <1>1, TransactionStart
<1>3. transaction.state = "APPROVAL_REQUIRED"
    BY <1>2, TransactionRows
<1>4. /\ transaction.acceptance # None /\ transaction.deadline # None /\ transaction.amount # None
      /\ transaction.deadline <= transaction.acceptance.expires
    BY <1>0, <1>3 DEF TransactionInv, TransactionHolds
<1>5. r \in [amount : Price, at : Time]
    BY <1>0, <1>4 DEF TransactionInv, Transactions
<1>6. r.amount = transaction.amount /\ r.at = t /\ r # None
    BY <1>5, NoneAssumption
<1> HIDE DEF y, r
<1>7. /\ n \in Transactions
      /\ n.state = "AUTHORIZED_SIMULATED" /\ n.revision = transaction.revision + 1 /\ n.updated = t
      /\ n.acceptance = transaction.acceptance /\ n.amount = transaction.amount
      /\ n.deadline = transaction.deadline /\ n.receipt = r
    BY <1>2, <1>5 DEF Transactions
<1> HIDE DEF n
<1>8. TransactionHolds' /\ TransactionMoves'
    BY <1>1, <1>4, <1>6, <1>7 DEF TransactionHolds, TransactionMoves
<1>9. LinkInv'
    BY <1>1, <1>4, <1>6, <1>7 DEF LinkInv, AggregateInv, AcceptanceOfTerms, AcceptedAsRead, TransactionOfAcceptance
<1> QED
    BY <1>1, <1>7, <1>8, <1>9 DEF TransactionInv

\* decline, expire, fail.
LEMMA EndSteps ==
    ASSUME AggregateInv, NEW action \in {"decline", "expire", "fail"}, NEW state, NEW t \in Time,
           EndTransaction(action, state, t)
    PROVE  TransactionInv' /\ LinkInv'
<1> DEFINE n == To(transaction, state, t)
<1>0. TransactionInv
    BY DEF AggregateInv, WellFormed, TypeOK, TransactionInv
<1>1. /\ MoveTransaction(action, state, t)
      /\ action = "expire" => t >= transaction.deadline
      /\ transaction' = n /\ UNCHANGED <<offer, acceptance>>
    BY DEF EndTransaction
<1>2. /\ <<transaction.state, action, state>> \in TransactionTable
      /\ n \in Transactions
      /\ n.state = state /\ n.revision = transaction.revision + 1 /\ n.updated = t
      /\ n.acceptance = transaction.acceptance /\ n.amount = transaction.amount
      /\ n.deadline = transaction.deadline /\ n.receipt = None
    BY <1>0, <1>1, TransactionStart
<1>3. /\ transaction.state = "APPROVAL_REQUIRED"
      /\ state \in {"DECLINED", "EXPIRED", "FAILED"} /\ (state = "EXPIRED" => action = "expire")
    BY <1>2, TransactionRows
<1> HIDE DEF n
<1>4. /\ transaction.acceptance # None /\ transaction.deadline # None /\ transaction.amount # None
      /\ transaction.deadline <= transaction.acceptance.expires
    BY <1>0, <1>3 DEF TransactionInv, TransactionHolds
<1>5. TransactionHolds' /\ TransactionMoves'
    BY <1>1, <1>2, <1>3, <1>4 DEF TransactionHolds, TransactionMoves
<1>6. LinkInv'
    BY <1>1, <1>2, <1>4 DEF LinkInv, AggregateInv, AcceptanceOfTerms, AcceptedAsRead, TransactionOfAcceptance
<1> QED
    BY <1>1, <1>2, <1>5, <1>6 DEF TransactionInv

---------------------------------------------------------------------------
(***************************************************************************)
(* All of it.                                                              *)
(***************************************************************************)
\* The invariant, aggregate by aggregate.
LEMMA InvParts ==
    AggregateInv <=> /\ intent \in Intents /\ IntentHolds /\ IntentMoves
                     /\ OfferInv /\ acceptance \in Acceptances \cup {None}
                     /\ TransactionInv /\ LinkInv
BY DEF AggregateInv, WellFormed, TypeOK, OfferInv, TransactionInv, LinkInv

\* New aggregates are well formed.
LEMMA InitInv == Init => AggregateInv
<1> SUFFICES ASSUME Init PROVE AggregateInv
    OBVIOUS
<1>1. PICK expires \in 1..MaxTime :
         intent = [state |-> "DRAFT", revision |-> 1, updated |-> 0,
                   expires |-> expires, hash |-> FALSE, approval |-> FALSE]
    BY DEF Init
<1>2. "DRAFT" \in States(IntentTable) /\ "NOT_REQUESTED" \in States(TransactionTable)
  <2>1. /\ <<"DRAFT", "confirm", "CONFIRMED">> \in IntentTable
        /\ <<"NOT_REQUESTED", "request_from_acceptance", "ACCEPTANCE_PENDING">> \in TransactionTable
    BY DEF IntentTable, TransactionTable
  <2>2. /\ <<"DRAFT", "confirm", "CONFIRMED">>[1] \in {e[1] : e \in IntentTable}
        /\ <<"NOT_REQUESTED", "request_from_acceptance", "ACCEPTANCE_PENDING">>[1]
              \in {e[1] : e \in TransactionTable}
    BY <2>1
  <2> QED
    BY <2>2 DEF States
<1>3. intent \in Intents /\ IntentHolds /\ IntentMoves
    BY <1>1, <1>2, LimitAssumption DEF Intents, Time, IntentHolds, IntentMoves
<1>4. transaction \in Transactions
    BY <1>2, LimitAssumption DEF Init, Transactions, Time
<1>5. TransactionHolds /\ TransactionMoves
    BY DEF Init, TransactionHolds, TransactionMoves
<1>6. OfferInv /\ acceptance = None /\ LinkInv
    BY DEF Init, OfferInv, OfferHolds, OfferMoves, LinkInv, AcceptanceOfTerms, AcceptedAsRead,
           TransactionOfAcceptance
<1> QED
    BY <1>3, <1>4, <1>5, <1>6, InvParts DEF TransactionInv

\* No transition that the checks of _transition let through breaks an aggregate.
LEMMA NextInv == AggregateInv /\ [Next]_vars => AggregateInv'
<1> SUFFICES ASSUME AggregateInv, [Next]_vars
             PROVE  AggregateInv'
    OBVIOUS
<1>0. /\ TypeOK /\ IntentHolds /\ IntentMoves /\ OfferInv /\ TransactionInv /\ LinkInv
      /\ acceptance \in Acceptances \cup {None} /\ intent \in Intents
    BY InvParts DEF AggregateInv, WellFormed
<1>1. ASSUME NEW t \in Time, NEW action, NEW state, MoveIntent(action, state, t)
      PROVE  AggregateInv'
  <2>1. intent' \in Intents /\ IntentHolds' /\ IntentMoves'
    BY <1>0, <1>1, IntentSteps
  <2>2. UNCHANGED <<offer, acceptance, transaction>>
    BY <1>1 DEF MoveIntent
  <2>3. OfferInv' /\ TransactionInv' /\ LinkInv' /\ acceptance' \in Acceptances \cup {None}
    BY <1>0, <2>2
    DEF OfferInv, OfferHolds, OfferMoves, TransactionInv, TransactionHolds, TransactionMoves,
        LinkInv, AcceptanceOfTerms, AcceptedAsRead, TransactionOfAcceptance
  <2> QED
    BY <2>1, <2>3
    DEF AggregateInv, WellFormed, TypeOK, OfferInv, TransactionInv, LinkInv
<1>2. ASSUME NEW t \in Time,
             \/ InviteOffer(t)
             \/ \E action, state : AdvanceOffer(action, state, t)
             \/ \E terms \in Terms : SubmitOffer(terms, t) \/ ResubmitOffer(terms, t)
             \/ \E parent \in 1..MaxVersion : CounterOffer(parent, t)
             \/ AcceptOffer(t)
      PROVE  AggregateInv'
  <2>1. OfferInv' /\ LinkInv'
    BY <1>2, InviteSteps, AdvanceSteps, SubmitSteps, ResubmitSteps, CounterSteps, AcceptSteps
  <2>2. UNCHANGED <<intent, acceptance, transaction>>
    BY <1>2 DEF InviteOffer, AdvanceOffer, SubmitOffer, ResubmitOffer, CounterOffer, AcceptOffer
  <2>3. /\ intent' \in Intents /\ IntentHolds' /\ IntentMoves' /\ TransactionInv'
        /\ acceptance' \in Acceptances \cup {None}
    BY <1>0, <2>2 DEF IntentHolds, IntentMoves, TransactionInv, TransactionHolds, TransactionMoves
  <2> QED
    BY <2>1, <2>3
    DEF AggregateInv, WellFormed, TypeOK, OfferInv, TransactionInv, LinkInv
<1>3. ASSUME NEW t \in Time, NEW expires \in 1..(MaxTime + 1), RecordAcceptance(t, expires)
      PROVE  AggregateInv'
  <2>1. acceptance' \in Acceptances /\ LinkInv'
    BY <1>3, RecordSteps
  <2>2. UNCHANGED <<intent, offer, transaction>>
    BY <1>3 DEF RecordAcceptance
  <2>3. /\ intent' \in Intents /\ IntentHolds' /\ IntentMoves' /\ TransactionInv' /\ OfferInv'
    BY <1>0, <2>2 DEF IntentHolds, IntentMoves, TransactionInv, TransactionHolds, TransactionMoves,
                      OfferInv, OfferHolds, OfferMoves
  <2> QED
    BY <2>1, <2>3
    DEF AggregateInv, WellFormed, TypeOK, OfferInv, TransactionInv, LinkInv
<1>4. ASSUME NEW t \in Time,
             \/ RequestFromAcceptance(t)
             \/ \E deadline \in 1..(MaxTime + 1) : RequireApproval(deadline, t)
             \/ AuthorizeSimulated(t)
             \/ \E action \in {"decline", "expire", "fail"} :
                   \E state : EndTransaction(action, state, t)
      PROVE  AggregateInv'
  <2>1. TransactionInv' /\ LinkInv'
    BY <1>4, RequestSteps, RequireSteps, AuthorizeSteps, EndSteps
  <2>2. UNCHANGED <<intent, offer, acceptance>>
    BY <1>4 DEF RequestFromAcceptance, RequireApproval, AuthorizeSimulated, EndTransaction
  <2>3. /\ intent' \in Intents /\ IntentHolds' /\ IntentMoves' /\ OfferInv'
        /\ acceptance' \in Acceptances \cup {None}
    BY <1>0, <2>2 DEF IntentHolds, IntentMoves, OfferInv, OfferHolds, OfferMoves
  <2> QED
    BY <2>1, <2>3
    DEF AggregateInv, WellFormed, TypeOK, OfferInv, TransactionInv, LinkInv
<1>5. CASE UNCHANGED vars
  <2>1. UNCHANGED <<intent, offer, acceptance, transaction>>
    BY <1>5 DEF vars
  <2> QED
    BY <2>1
    DEF AggregateInv, WellFormed, TypeOK, IntentHolds, IntentMoves, OfferHolds, OfferMoves,
        TransactionHolds, TransactionMoves, AcceptanceOfTerms, AcceptedAsRead,
        TransactionOfAcceptance
<1>6. CASE Next
  <2> PICK t \in Time :
        \/ \E e \in {x \in IntentTable : x[1] = intent.state} : MoveIntent(e[2], e[3], t)
        \/ InviteOffer(t)
        \/ \E e \in {x \in OfferTable : offer # None /\ x[1] = offer.state} : AdvanceOffer(e[2], e[3], t)
        \/ \E terms \in Terms : SubmitOffer(terms, t) \/ ResubmitOffer(terms, t)
        \/ \E parent \in 1..MaxVersion : CounterOffer(parent, t)
        \/ \E expires \in 1..(MaxTime + 1) : RecordAcceptance(t, expires)
        \/ AcceptOffer(t)
        \/ RequestFromAcceptance(t)
        \/ \E deadline \in 1..(MaxTime + 1) : RequireApproval(deadline, t)
        \/ AuthorizeSimulated(t)
        \/ EndTransaction("decline", "DECLINED", t)
        \/ EndTransaction("expire", "EXPIRED", t)
        \/ EndTransaction("fail", "FAILED", t)
      BY <1>6 DEF Next
  <2> QED
    BY <1>1, <1>2, <1>3, <1>4
<1> QED
    BY <1>5, <1>6

\* The inductive invariant holds whatever the calls, their order and their clocks.
THEOREM AggregateInvariance == Spec => []AggregateInv
BY InitInv, NextInv, PTL DEF Spec

\* The checks of _transition suffice: an aggregate that they let through is never
\* one that __post_init__ of purchase_intent.py, offer.py or transaction.py refuses.
THEOREM ChecksSuffice == Spec => []WellFormed
<1>1. AggregateInv => WellFormed
    BY DEF AggregateInv
<1> QED
    BY <1>1, AggregateInvariance, PTL

\* Comparing versions, as Offer.accept and request_from_acceptance do, pins the
\* terms: what is authorized is what the buyer accepted while it was open, at its
\* price and while the acceptance and the decision were open, and so while the
\* terms were if the acceptance does not outlast them.
THEOREM VersionsPinTerms == Spec => []TermsAgreed
<1>1. ASSUME AggregateInv
      PROVE  TermsAgreed
  <2>0. /\ transaction \in Transactions /\ TransactionHolds /\ TransactionOfAcceptance
        /\ AcceptedAsRead /\ AcceptanceOfTerms /\ offer \in Offers \cup {None}
        /\ acceptance \in Acceptances \cup {None} /\ OfferHolds
      BY <1>1 DEF AggregateInv, WellFormed, TypeOK
  <2>1. (offer # None /\ offer.state = "ACCEPTED") => acceptance.terms = offer.terms
      BY <2>0 DEF AcceptedAsRead, AcceptanceOfTerms
  <2>2. transaction.acceptance # None => transaction.acceptance = acceptance
      BY <2>0 DEF TransactionOfAcceptance
  <2>3. ASSUME transaction.receipt # None
        PROVE  /\ offer.state = "ACCEPTED"
               /\ transaction.receipt.amount = acceptance.terms.price
               /\ acceptance.created <= offer.updated
               /\ offer.updated < acceptance.terms.until
               /\ transaction.receipt.at < transaction.deadline
               /\ transaction.deadline <= acceptance.expires
               /\ acceptance.expires <= acceptance.terms.until
                     => transaction.receipt.at < acceptance.terms.until
    <3>1. /\ transaction.state = "AUTHORIZED_SIMULATED"
          /\ transaction.acceptance # None /\ transaction.deadline # None
          /\ transaction.amount # None
          /\ transaction.updated < transaction.deadline
          /\ transaction.deadline <= transaction.acceptance.expires
        BY <2>0, <2>3 DEF TransactionHolds
    <3>2. /\ offer # None /\ offer.state = "ACCEPTED" /\ transaction.acceptance = acceptance
          /\ transaction.receipt.amount = offer.terms.price
          /\ transaction.receipt.at = transaction.updated
        BY <2>0, <2>3, <3>1 DEF TransactionOfAcceptance
    <3>3. /\ offer.state = "ACCEPTED"
          /\ transaction.receipt.amount = acceptance.terms.price
          /\ acceptance.created <= offer.updated
          /\ transaction.receipt.at < transaction.deadline
          /\ transaction.deadline <= acceptance.expires
        BY <2>0, <2>1, <3>1, <3>2 DEF AcceptedAsRead
    <3>4. offer.updated < acceptance.terms.until
      <4>1. offer.terms # None
        BY <2>0, <3>2 DEF OfferHolds
      <4> QED
        BY <2>0, <2>1, <3>2, <4>1 DEF OfferHolds
    <3>5. acceptance.expires <= acceptance.terms.until
             => transaction.receipt.at < acceptance.terms.until
      <4>1. acceptance \in Acceptances /\ acceptance.terms \in Terms
        BY <2>0, <3>1, <3>2 DEF Acceptances
      <4>2. acceptance.expires \in Int /\ acceptance.terms.until \in Int
        BY <4>1, LimitAssumption DEF Acceptances, Terms
      <4>3. transaction.deadline \in Int /\ transaction.receipt.at \in Int
        BY <2>0, <3>1, <3>2, LimitAssumption DEF Transactions, Time
      <4> QED
        BY <3>3, <4>2, <4>3
    <3> QED
        BY <3>3, <3>4, <3>5
  <2> QED
      BY <2>1, <2>2, <2>3 DEF TermsAgreed
<1> QED
    BY <1>1, AggregateInvariance, PTL

---------------------------------------------------------------------------
(***************************************************************************)
(* The tables of events against those of transitions.                      *)
(***************************************************************************)
\* An intent's transition has an event of its own, for the state it leads to.
LEMMA IntentSpecs ==
    ASSUME NEW s, NEW a, NEW n, <<s, a, n>> \in IntentTable
    PROVE  /\ a \in DOMAIN IntentEvents
           /\ IntentEvents[a].target = n
           /\ IntentEvents[a].reasons = IntentReasons(a)
           /\ IntentReasons(a) \subseteq AuditReasons
           /\ IntentEvents[a].hash = "forbidden" => n = "CONFIRMED"
           /\ IntentEvents[a].hash = "required" =>
                n \in {"APPROVED", "DISPATCHED", "CLOSED", "EXPIRED", "DISCLOSURE_PREVIEWED"}
<1>1. IntentReasons(a) \subseteq AuditReasons
    BY IntentRows DEF IntentReasons, CancellationReason, ClosureReason, AuditReasons
<1>2. a \in DOMAIN IntentEvents /\ IntentEvents[a].target = n
    BY IntentRows DEF IntentEvents, Kind
<1>3. IntentEvents[a].reasons = IntentReasons(a)
    BY IntentRows DEF IntentEvents, Kind, IntentReasons
<1> QED
    BY <1>1, <1>2, <1>3, IntentRows DEF IntentEvents, Kind

\* An offer's transition has an event of its own, without a hash.
LEMMA OfferSpecs ==
    ASSUME NEW s, NEW a, NEW n, <<s, a, n>> \in OfferTable
    PROVE  /\ a \in DOMAIN OfferEvents
           /\ OfferEvents[a].target = n
           /\ OfferEvents[a].reasons = OfferReasons(a)
           /\ OfferReasons(a) \subseteq AuditReasons
           /\ OfferEvents[a].hash = "forbidden"
           /\ a = "accept" <=> n = "ACCEPTED"
<1>1. OfferReasons(a) \subseteq AuditReasons
    BY OfferRows DEF OfferReasons, RejectionReason, DeclineReason, AuditReasons
<1>2. a \in DOMAIN OfferEvents /\ OfferEvents[a].target = n
    BY OfferRows DEF OfferEvents, Kind
<1>3. OfferEvents[a].reasons = OfferReasons(a)
  <2>1. CASE a = "reject"
    BY <2>1 DEF OfferEvents, Kind, OfferReasons
  <2>2. CASE a = "decline"
    BY <2>2 DEF OfferEvents, Kind, OfferReasons
  <2>3. CASE a \in {"begin_draft", "submit", "validate", "counter", "resubmit"}
    BY <2>3 DEF OfferEvents, Kind, OfferReasons
  <2>4. CASE a \in {"mark_eligible", "recommend"}
    BY <2>4 DEF OfferEvents, Kind, OfferReasons
  <2>5. CASE a \in {"accept", "expire"}
    BY <2>5 DEF OfferEvents, Kind, OfferReasons
  <2> QED
    BY <2>1, <2>2, <2>3, <2>4, <2>5, OfferRows
<1>4. OfferEvents[a].hash = "forbidden"
  <2>1. CASE a \in {"begin_draft", "submit", "validate"}
    BY <2>1 DEF OfferEvents, Kind
  <2>3. CASE a \in {"counter", "resubmit", "reject"}
    BY <2>3 DEF OfferEvents, Kind
  <2>2. CASE a \in {"mark_eligible", "recommend", "accept", "expire", "decline"}
    BY <2>2 DEF OfferEvents, Kind
  <2> QED
    BY <2>1, <2>2, <2>3, OfferRows
<1>5. a = "accept" <=> n = "ACCEPTED"
    BY OfferRows
<1> QED
    BY <1>1, <1>2, <1>3, <1>4, <1>5

\* A transaction's transition has an event of its own, without a hash.
LEMMA TransactionSpecs ==
    ASSUME NEW s, NEW a, NEW n, <<s, a, n>> \in TransactionTable
    PROVE  /\ a \in DOMAIN TransactionEvents
           /\ TransactionEvents[a].target = n /\ n # "NOT_REQUESTED"
           /\ TransactionEvents[a].reasons = TransactionReasons(a)
           /\ TransactionReasons(a) \subseteq AuditReasons
           /\ TransactionEvents[a].hash = "forbidden"
<1>1. TransactionReasons(a) \subseteq AuditReasons
    BY TransactionRows
    DEF TransactionReasons, TransactionDeclineReason, TransactionFailureReason, AuditReasons
<1>2. a \in DOMAIN TransactionEvents /\ TransactionEvents[a].target = n
    BY TransactionRows DEF TransactionEvents, Kind
<1>3. TransactionEvents[a].reasons = TransactionReasons(a)
    BY TransactionRows DEF TransactionEvents, Kind, TransactionReasons
<1> QED
    BY <1>1, <1>2, <1>3, TransactionRows DEF TransactionEvents, Kind

\* An event with one of its action's reasons can be written to the log.
LEMMA EventRecordable ==
    ASSUME NEW e, e.resource \in DOMAIN Events, e.action \in DOMAIN Events[e.resource],
           e.reason \in Events[e.resource][e.action].reasons, e.reason \in AuditReasons
    PROVE  Recordable(Projected(e))
<1> DEFINE r == Projected(e)
<1>1. /\ r.action = <<e.resource, e.action>> /\ r.decision = "record"
      /\ r.reasons = {e.reason}
    BY DEF Projected, AuditName
<1>2. <<e.resource, e.action>> \in EventNames
    BY DEF EventNames
<1>3. /\ r.action[1] = e.resource /\ r.action[2] = e.action
    BY <1>1
<1> HIDE DEF r
<1>4. r.reasons # {} /\ r.reasons \subseteq AuditReasons
    BY <1>1
<1>5. r.reasons \subseteq Events[r.action[1]][r.action[2]].reasons
    BY <1>1, <1>3
<1>6. r.action \in EventNames
    BY <1>1, <1>2
<1>7. Recordable(r)
    BY <1>1, <1>4, <1>5, <1>6 DEF Recordable
<1> QED
    BY <1>7 DEF r

\* An offer is never forgotten.
LEMMA OfferStays ==
    ASSUME AggregateInv, [Next]_vars, offer # None
    PROVE  offer' # None
<1>1. ASSUME NEW t \in Time,
             \/ InviteOffer(t)
             \/ \E action, state : AdvanceOffer(action, state, t)
             \/ \E terms \in Terms : SubmitOffer(terms, t) \/ ResubmitOffer(terms, t)
             \/ \E parent \in 1..MaxVersion : CounterOffer(parent, t)
             \/ AcceptOffer(t)
      PROVE  offer' # None
    BY <1>1, InviteSteps, AdvanceSteps, SubmitSteps, ResubmitSteps, CounterSteps, AcceptSteps
<1>2. ASSUME NEW t \in Time,
             \/ \E action, state : MoveIntent(action, state, t)
             \/ \E expires \in 1..(MaxTime + 1) : RecordAcceptance(t, expires)
             \/ RequestFromAcceptance(t)
             \/ \E deadline \in 1..(MaxTime + 1) : RequireApproval(deadline, t)
             \/ AuthorizeSimulated(t)
             \/ \E action, state : EndTransaction(action, state, t)
      PROVE  offer' # None
    BY <1>2 DEF MoveIntent, RecordAcceptance, RequestFromAcceptance, RequireApproval,
                AuthorizeSimulated, EndTransaction
<1>3. CASE UNCHANGED vars
    BY <1>3 DEF vars
<1> QED
    BY <1>1, <1>2, <1>3 DEF Next

\* What an intent tells of a transition.
LEMMA IntentTold ==
    ASSUME NEW s, NEW a, NEW n, <<s, a, n>> \in IntentTable,
           NEW x \in Intents, x.state = n, n = "CONFIRMED" => ~x.hash,
           n \in {"APPROVED", "DISPATCHED", "CLOSED", "EXPIRED", "DISCLOSURE_PREVIEWED"} => x.hash,
           NEW reason \in IntentReasons(a)
    PROVE  Told(x, IntentEvent(x, a, reason))
<1> DEFINE e == IntentEvent(x, a, reason)
<1>1. /\ e.resource = "purchase_intent" /\ e.action = a /\ e.reason = reason
      /\ e.target = IntentEvents[a].target /\ e.version = x.revision /\ e.at = x.updated
      /\ ~e.offer /\ ~e.acceptance
    BY DEF IntentEvent
<1>2. e.hash <=> x.hash
    BY DEF IntentEvent
<1>3. "purchase_intent" \in DOMAIN Events /\ Events["purchase_intent"] = IntentEvents
    BY DEF Events
<1>4. /\ OfferIdOf("purchase_intent") = "forbidden"
      /\ AcceptanceIdOf("purchase_intent", a) = "forbidden"
    BY DEF OfferIdOf, AcceptanceIdOf
<1>5. x.revision >= 1
    BY DEF Intents
<1> HIDE DEF e
<1>6. Recordable(Projected(e))
    BY <1>1, <1>3, IntentSpecs, EventRecordable
<1>7. Presence(e.hash, IntentEvents[a].hash)
    BY <1>2, IntentSpecs DEF Presence
<1>8. Constructible(e)
    BY <1>1, <1>3, <1>4, <1>5, <1>7, IntentSpecs DEF Constructible, Presence
<1> QED
    BY <1>1, <1>6, <1>8, IntentSpecs DEF Told, e

\* What an offer tells of a transition.
LEMMA OfferTold ==
    ASSUME NEW s, NEW a, NEW n, <<s, a, n>> \in OfferTable,
           NEW x \in Offers, x.state = n, x.accepted <=> n = "ACCEPTED",
           NEW reason \in OfferReasons(a)
    PROVE  Told(x, OfferEvent(x, a, reason))
<1> DEFINE e == OfferEvent(x, a, reason)
<1>1. /\ e.resource = "offer" /\ e.action = a /\ e.reason = reason
      /\ e.target = OfferEvents[a].target /\ e.version = x.revision /\ e.at = x.updated
      /\ e.offer /\ ~e.hash
    BY DEF OfferEvent
<1>2. e.acceptance <=> x.accepted
    BY DEF OfferEvent
<1>3. "offer" \in DOMAIN Events /\ Events["offer"] = OfferEvents
    BY DEF Events
<1>4. /\ OfferIdOf("offer") = "required"
      /\ AcceptanceIdOf("offer", a) = IF a = "accept" THEN "required" ELSE "forbidden"
    BY DEF OfferIdOf, AcceptanceIdOf
<1>5. x.revision >= 1
    BY LimitAssumption DEF Offers
<1> HIDE DEF e
<1>6. Recordable(Projected(e))
    BY <1>1, <1>3, OfferSpecs, EventRecordable
<1>7. Presence(e.acceptance, AcceptanceIdOf("offer", a))
    BY <1>2, <1>4, OfferSpecs DEF Presence
<1>8. Constructible(e)
    BY <1>1, <1>3, <1>4, <1>5, <1>7, OfferSpecs DEF Constructible, Presence
<1> QED
    BY <1>1, <1>6, <1>8, OfferSpecs DEF Told, e

\* What a transaction tells of a transition.
LEMMA TransactionTold ==
    ASSUME NEW s, NEW a, NEW n, <<s, a, n>> \in TransactionTable,
           NEW x \in Transactions, x.state = n, x.acceptance # None,
           NEW reason \in TransactionReasons(a)
    PROVE  Told(x, TransactionEvent(x, a, reason))
<1> DEFINE e == TransactionEvent(x, a, reason)
<1>1. /\ e.resource = "transaction" /\ e.action = a /\ e.reason = reason
      /\ e.target = TransactionEvents[a].target /\ e.version = x.revision /\ e.at = x.updated
      /\ ~e.hash
    BY DEF TransactionEvent
<1>2. e.offer /\ e.acceptance
    BY DEF TransactionEvent
<1>3. "transaction" \in DOMAIN Events /\ Events["transaction"] = TransactionEvents
    BY DEF Events
<1>4. /\ OfferIdOf("transaction") = "required"
      /\ AcceptanceIdOf("transaction", a) = "required"
    BY DEF OfferIdOf, AcceptanceIdOf
<1>5. x.revision >= 1
    BY DEF Transactions
<1> HIDE DEF e
<1>6. Recordable(Projected(e))
    BY <1>1, <1>3, TransactionSpecs, EventRecordable
<1>7. Constructible(e)
    BY <1>1, <1>2, <1>3, <1>4, <1>5, TransactionSpecs DEF Constructible, Presence
<1> QED
    BY <1>1, <1>6, <1>7, TransactionSpecs DEF Told, e

\* Every admitted transition is told truthfully by an event that its constructor
\* takes and that the audit log takes: no transition is undone by its own event
\* (purchase_intent.py:331, offer.py:580, transaction.py:570, events.py:510).
THEOREM TransitionsTold == Spec => StepsTold
<1> DEFINE IntentStepTold ==
             \A e \in IntentTable :
               intent'.revision # intent.revision /\ e[1] = intent.state /\ e[3] = intent'.state =>
                 \A reason \in IntentReasons(e[2]) : Told(intent', IntentEvent(intent', e[2], reason))
           OfferStepTold ==
             offer # None => \A e \in OfferTable :
               offer'.revision # offer.revision /\ e[1] = offer.state /\ e[3] = offer'.state =>
                 \A reason \in OfferReasons(e[2]) : Told(offer', OfferEvent(offer', e[2], reason))
           TransactionStepTold ==
             \A e \in TransactionTable :
               transaction'.revision # transaction.revision /\
               e[1] = transaction.state /\ e[3] = transaction'.state =>
                 \A reason \in TransactionReasons(e[2]) :
                     Told(transaction', TransactionEvent(transaction', e[2], reason))
<1>1. ASSUME AggregateInv', AggregateInv, [Next]_vars
      PROVE  IntentStepTold /\ OfferStepTold /\ TransactionStepTold
  <2>1. /\ intent' \in Intents
        /\ intent'.state = "CONFIRMED" => ~intent'.hash
        /\ intent'.state \in {"APPROVED", "DISPATCHED", "CLOSED", "EXPIRED",
                              "DISCLOSURE_PREVIEWED"} => intent'.hash
    BY <1>1 DEF AggregateInv, WellFormed, TypeOK, IntentHolds, IntentMoves
  <2>2. IntentStepTold
    <3> SUFFICES ASSUME NEW e \in IntentTable, e[3] = intent'.state,
                        NEW reason \in IntentReasons(e[2])
                 PROVE  Told(intent', IntentEvent(intent', e[2], reason))
        OBVIOUS
    <3>1. <<e[1], e[2], e[3]>> \in IntentTable
        BY DEF IntentTable
    <3> QED
        BY <2>1, <3>1, IntentTold
  <2>3. OfferStepTold
    <3> SUFFICES ASSUME offer # None, NEW e \in OfferTable, e[3] = offer'.state,
                        NEW reason \in OfferReasons(e[2])
                 PROVE  Told(offer', OfferEvent(offer', e[2], reason))
        OBVIOUS
    <3>1. <<e[1], e[2], e[3]>> \in OfferTable
        BY DEF OfferTable
    <3>2. offer' # None
        BY <1>1, OfferStays
    <3>3. offer' \in Offers /\ (offer'.accepted <=> offer'.state = "ACCEPTED")
        BY <1>1, <3>2 DEF AggregateInv, WellFormed, TypeOK, OfferHolds
    <3> QED
        BY <3>1, <3>3, OfferTold
  <2>4. TransactionStepTold
    <3> SUFFICES ASSUME NEW e \in TransactionTable, e[3] = transaction'.state,
                        NEW reason \in TransactionReasons(e[2])
                 PROVE  Told(transaction', TransactionEvent(transaction', e[2], reason))
        OBVIOUS
    <3>1. <<e[1], e[2], e[3]>> \in TransactionTable
        BY DEF TransactionTable
    <3>2. transaction'.state # "NOT_REQUESTED"
        BY <3>1, TransactionSpecs
    <3>3. transaction' \in Transactions /\ transaction'.acceptance # None
        BY <1>1, <3>2 DEF AggregateInv, WellFormed, TypeOK, TransactionHolds
    <3> QED
        BY <3>1, <3>3, TransactionTold
  <2> QED
      BY <2>2, <2>3, <2>4
<1> QED
    BY <1>1, AggregateInvariance, PTL DEF StepsTold, Spec
=============================================================================
