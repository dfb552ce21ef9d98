---------------------------- MODULE GoldenPath_proofs ----------------------------
(***************************************************************************)
(* Proofs about GoldenPath and Views, for every set of requests,           *)
(* approvals, offers, idempotency scopes and portfolios and every bound of *)
(* the clock.  In this order: types; how far a request has come; what its  *)
(* approvals are worth; the records kept beside it; what the buyer is      *)
(* shown of it.                                                            *)
(***************************************************************************)
EXTENDS Views, TLAPS

---------------------------------------------------------------------------
(***************************************************************************)
(* What each handler makes of the session it loaded, field by field.       *)
(***************************************************************************)
\* A1 records the confirmation.
LEMMA ConfirmedFields ==
    ASSUME NEW s \in Session, NEW a \in Approval
    PROVE  LET n == Confirmed(s, a) IN
           /\ n \in Session
           /\ n.state = "AWAITING_DISPATCH_APPROVAL"
           /\ n.pi = "CONFIRMED"
           /\ n.used = s.used \cup {a}
           /\ n.created = s.created /\ n.expires = s.expires /\ n.payload = s.payload
           /\ n.portfolio = s.portfolio /\ n.saved = s.saved /\ n.offers = s.offers
           /\ n.acceptance = s.acceptance /\ n.receipt = s.receipt /\ n.replaces = s.replaces
           /\ n.replacedBy = s.replacedBy
BY DEF Confirmed, Session, BuyerState, Awaiting, PostDispatch, Closed, IntentState

\* A2 records the dispatch and the offers it brought.
LEMMA RankedFields ==
    ASSUME NEW s \in Session, NEW a \in Approval,
           NEW quotes \in [Offer -> Quote \cup {None}]
    PROVE  LET n == Ranked(s, a, quotes) IN
           /\ n \in Session
           /\ n.state = "OFFERS_RANKED"
           /\ n.pi = "DISPATCHED"
           /\ n.offers = quotes
           /\ n.used = s.used \cup {a}
           /\ n.created = s.created /\ n.expires = s.expires /\ n.payload = s.payload
           /\ n.portfolio = s.portfolio /\ n.saved = s.saved /\ n.acceptance = s.acceptance
           /\ n.receipt = s.receipt /\ n.replaces = s.replaces /\ n.replacedBy = s.replacedBy
BY DEF Ranked, Session, BuyerState, Awaiting, PostDispatch, Closed, IntentState

\* The earlier of two instants.
LEMMA LesserFacts == \A x, y \in Time : Lesser(x, y) \in Time /\ Lesser(x, y) <= x /\ Lesser(x, y) <= y
BY MaxTimeAssumption DEF Lesser, Time

\* A3 records the acceptance in the session and in the accepted offer.
LEMMA AcceptedFields ==
    ASSUME NEW s \in Session, NEW a \in Approval, NEW o \in Offer, s.offers[o] # None
    PROVE  LET n == Accepted(s, a, o) IN
           /\ n \in Session
           /\ n.state = "ACCEPTANCE_RECORDED"
           /\ n.offers = [s.offers EXCEPT ![o] = [state |-> "ACCEPTED", until |-> s.offers[o].until]]
           /\ n.acceptance = [offer |-> o, approval |-> a,
                              expires |-> Lesser(s.offers[o].until, s.expires)]
           /\ n.used = s.used \cup {a}
           /\ n.pi = s.pi /\ n.created = s.created /\ n.expires = s.expires
           /\ n.payload = s.payload /\ n.portfolio = s.portfolio /\ n.saved = s.saved
           /\ n.receipt = s.receipt /\ n.replaces = s.replaces /\ n.replacedBy = s.replacedBy
<1> DEFINE quotes == [s.offers EXCEPT ![o] = [state |-> "ACCEPTED", until |-> s.offers[o].until]]
           taken == [offer |-> o, approval |-> a, expires |-> Lesser(s.offers[o].until, s.expires)]
           moved == [s EXCEPT !.state = "ACCEPTANCE_RECORDED", !.offers = quotes,
                              !.acceptance = taken, !.used = @ \cup {a}]
<1>1. s.offers \in [Offer -> Quote \cup {None}] /\ s.expires \in Time
    BY DEF Session
<1>2. s.offers[o].until \in Time
    BY <1>1 DEF Quote
<1>3. quotes \in [Offer -> Quote \cup {None}]
    BY <1>1, <1>2 DEF Quote
<1>4. taken \in Acceptance
    BY <1>1, <1>2, LesserFacts DEF Acceptance
<1>5. Accepted(s, a, o) = moved
    BY DEF Accepted
<1> HIDE DEF quotes, taken
<1>6. moved \in Session
    BY <1>3, <1>4 DEF Session, BuyerState, PostDispatch
<1>7. /\ moved.state = "ACCEPTANCE_RECORDED" /\ moved.offers = quotes
      /\ moved.acceptance = taken /\ moved.used = s.used \cup {a}
      /\ moved.pi = s.pi /\ moved.created = s.created /\ moved.expires = s.expires
      /\ moved.payload = s.payload /\ moved.portfolio = s.portfolio /\ moved.saved = s.saved
      /\ moved.receipt = s.receipt /\ moved.replaces = s.replaces
      /\ moved.replacedBy = s.replacedBy
    BY DEF Session
<1> QED
    BY <1>5, <1>6, <1>7 DEF quotes, taken

\* A4 records the receipt.
LEMMA AuthorizedFields ==
    ASSUME NEW s \in Session, NEW a \in Approval, NEW r \in Receipt
    PROVE  LET n == Authorized(s, a, r) IN
           /\ n \in Session
           /\ n.state = "TRANSACTION_AUTHORIZED_SIMULATED"
           /\ n.receipt = r
           /\ n.used = s.used \cup {a}
           /\ n.pi = s.pi /\ n.created = s.created /\ n.expires = s.expires
           /\ n.payload = s.payload /\ n.portfolio = s.portfolio /\ n.saved = s.saved
           /\ n.offers = s.offers /\ n.acceptance = s.acceptance /\ n.replaces = s.replaces
           /\ n.replacedBy = s.replacedBy
BY DEF Authorized, Session, BuyerState, Awaiting, PostDispatch, Closed, IntentState

\* Cancelling keeps the history.
LEMMA CancelledFields ==
    ASSUME NEW s \in Session
    PROVE  LET n == Cancelled(s) IN
           /\ n \in Session
           /\ n.state = "CANCELLED"
           /\ n.pi = "CANCELLED"
           /\ n.saved = FALSE
           /\ n.created = s.created /\ n.expires = s.expires /\ n.payload = s.payload
           /\ n.portfolio = s.portfolio /\ n.offers = s.offers /\ n.acceptance = s.acceptance
           /\ n.receipt = s.receipt /\ n.used = s.used /\ n.replaces = s.replaces
           /\ n.replacedBy = s.replacedBy
BY DEF Cancelled, Session, BuyerState, Awaiting, PostDispatch, Closed, IntentState

\* Replacing closes the original and names its replacement.
LEMMA SupersededFields ==
    ASSUME NEW s \in Session, NEW j \in Intent
    PROVE  LET n == Superseded(s, j) IN
           /\ n \in Session
           /\ n.replacedBy = j
           /\ n.saved = FALSE
           /\ \/ n.state = "SUPERSEDED" /\ n.pi = "CLOSED"
              \/ n.state = "CANCELLED" /\ n.pi = "CANCELLED"
           /\ n.created = s.created
           /\ n.expires = s.expires /\ n.payload = s.payload /\ n.portfolio = s.portfolio
           /\ n.offers = s.offers /\ n.acceptance = s.acceptance /\ n.receipt = s.receipt
           /\ n.used = s.used /\ n.replaces = s.replaces
<1> DEFINE closed == [s EXCEPT !.state = "SUPERSEDED", !.pi = "CLOSED", !.replacedBy = j, !.saved = FALSE]
           dropped == [s EXCEPT !.state = "CANCELLED", !.pi = "CANCELLED", !.replacedBy = j, !.saved = FALSE]
<1>1. Superseded(s, j) = closed \/ Superseded(s, j) = dropped
    BY DEF Superseded
<1>2. /\ closed \in Session
      /\ closed.state = "SUPERSEDED" /\ closed.pi = "CLOSED"
      /\ closed.replacedBy = j /\ closed.saved = FALSE
      /\ closed.created = s.created /\ closed.expires = s.expires
      /\ closed.payload = s.payload /\ closed.portfolio = s.portfolio
      /\ closed.offers = s.offers /\ closed.acceptance = s.acceptance
      /\ closed.receipt = s.receipt /\ closed.used = s.used /\ closed.replaces = s.replaces
    BY DEF Session, BuyerState, Closed, IntentState
<1>3. /\ dropped \in Session
      /\ dropped.state = "CANCELLED" /\ dropped.pi = "CANCELLED"
      /\ dropped.replacedBy = j /\ dropped.saved = FALSE
      /\ dropped.created = s.created /\ dropped.expires = s.expires
      /\ dropped.payload = s.payload /\ dropped.portfolio = s.portfolio
      /\ dropped.offers = s.offers /\ dropped.acceptance = s.acceptance
      /\ dropped.receipt = s.receipt /\ dropped.used = s.used /\ dropped.replaces = s.replaces
    BY DEF Session, BuyerState, Closed, IntentState
<1> HIDE DEF closed, dropped
<1> QED
    BY <1>1, <1>2, <1>3

\* A new draft is a session.
LEMMA DraftType ==
    ASSUME NEW c, NEW e, NEW p, NEW original, NEW body,
           c \in Time, e \in Time, p \in Portfolio \cup {None},
           original \in Intent \cup {None}, body \in Payload
    PROVE  Draft(c, e, p, original, body) \in Session
BY DEF Draft, Session, BuyerState, Awaiting, IntentState

\* Keeping a request on the buyer's list touches nothing else.
LEMMA SavedFields ==
    ASSUME NEW s \in Session, NEW flag \in BOOLEAN
    PROVE  LET n == [s EXCEPT !.saved = flag] IN
           /\ n \in Session
           /\ n.state = s.state /\ n.pi = s.pi /\ n.created = s.created
           /\ n.expires = s.expires /\ n.payload = s.payload /\ n.portfolio = s.portfolio
           /\ n.offers = s.offers /\ n.acceptance = s.acceptance /\ n.receipt = s.receipt
           /\ n.used = s.used /\ n.replaces = s.replaces /\ n.replacedBy = s.replacedBy
BY DEF Session

---------------------------------------------------------------------------
(***************************************************************************)
(* Type correctness.                                                       *)
(***************************************************************************)
\* The part of TypeOK that speaks of the sessions.
SessionsOK == /\ sessions \in [Intent -> Session \cup {None}]
              /\ \A i \in Rows : sessions[i].created < sessions[i].expires

\* Saving a well-formed session keeps the store well-formed.
LEMMA SaveOK ==
    ASSUME SessionsOK, NEW i \in Intent, NEW n \in Session, n.created < n.expires, Save(i, n)
    PROVE  SessionsOK'
BY DEF SessionsOK, Save, Rows, Exists

\* A stored session, loaded.
LEMMA RowType == ASSUME SessionsOK, NEW i \in Intent, Exists(i)
                 PROVE  /\ sessions[i] \in Session
                        /\ sessions[i].created < sessions[i].expires
BY DEF SessionsOK, Exists, Rows

\* The offers mapped from a dispatch are quotes.
LEMMA MappedType == ASSUME NEW valid \in [Offer -> Time \cup {None}], NEW winner \in Offer \cup {None}
                    PROVE  Mapped(valid, winner) \in [Offer -> Quote \cup {None}]
BY DEF Mapped, Quote

\* The stores start empty.
LEMMA InitTypeOK == Init => TypeOK
BY MaxTimeAssumption DEF Init, TypeOK, Time, Rows, Exists

\* Every step keeps every store in its shape.
LEMMA NextTypeOK == TypeOK /\ [Next]_vars => TypeOK'
<1> SUFFICES ASSUME TypeOK, [Next]_vars PROVE TypeOK'
    OBVIOUS
<1>0. SessionsOK
    BY DEF TypeOK, SessionsOK
<1>1. ASSUME NEW i \in Intent, NEW c \in Time, NEW e \in Time, NEW p \in Portfolio \cup {None},
             NEW body \in Payload, Create(i, c, e, p, body)
      PROVE  TypeOK'
  <2> DEFINE new == Draft(c, e, p, None, body)
  <2>1. new \in Session /\ new.created = c /\ new.expires = e
    BY DEF Draft, Session, BuyerState, Awaiting, IntentState
  <2>2. c < e /\ Save(i, new)
    BY <1>1 DEF Create, Lives
  <2> HIDE DEF new
  <2>3. SessionsOK'
    BY <1>0, <2>1, <2>2, SaveOK
  <2> QED
    BY <1>1, <2>3 DEF Create, TypeOK, SessionsOK
<1>2. ASSUME NEW i \in Intent, NEW a \in Approval, Confirm(i, a)
      PROVE  TypeOK'
  <2>1. SessionsOK'
    BY <1>0, <1>2, RowType, ConfirmedFields, SaveOK DEF Confirm, InState
  <2> QED
    BY <1>2, <2>1 DEF Confirm, Issue, Grant, Kind, TypeOK, SessionsOK
<1>3. ASSUME NEW i \in Intent, NEW a \in Approval, NEW valid \in [Offer -> Time \cup {None}],
             NEW winner \in Offer \cup {None}, Dispatch(i, a, valid, winner)
      PROVE  TypeOK'
  <2>1. SessionsOK'
    BY <1>0, <1>3, RowType, MappedType, RankedFields, SaveOK DEF Dispatch, InState
  <2> QED
    BY <1>3, <2>1 DEF Dispatch, Issue, Grant, Kind, TypeOK, SessionsOK
<1>4. ASSUME NEW i \in Intent, NEW a \in Approval, NEW o \in Offer, Accept(i, a, o)
      PROVE  TypeOK'
  <2> DEFINE s == sessions[i]
             new == Accepted(s, a, o)
  <2>1. s \in Session /\ s.created < s.expires
    BY <1>0, <1>4, RowType DEF Accept, Selectable, InState
  <2>2. s.offers[o] # None /\ Save(i, new)
    BY <1>4 DEF Accept, Selectable
  <2> HIDE DEF s
  <2>3. new \in Session /\ new.created = s.created /\ new.expires = s.expires
    BY <2>1, <2>2, AcceptedFields
  <2> HIDE DEF new
  <2>4. SessionsOK'
    BY <1>0, <2>1, <2>2, <2>3, SaveOK
  <2> QED
    BY <1>4, <2>4 DEF Accept, Selectable, Issue, Grant, Kind, TypeOK, SessionsOK
<1>5. ASSUME NEW i \in Intent, NEW a \in Approval, NEW k \in Key, NEW e \in Time,
             Authorize(i, a, k, e)
      PROVE  TypeOK'
  <2>1. sessions[i] \in Session /\ sessions[i].created < sessions[i].expires
    BY <1>0, <1>5, RowType DEF Authorize, AcceptanceBound, InState
  <2>2. sessions[i].acceptance \in Acceptance
    BY <1>5, <2>1 DEF Authorize, AcceptanceBound, Session
  <2>3. sessions[i].acceptance.offer \in Offer /\ sessions[i].acceptance.expires \in Time
    BY <2>2 DEF Acceptance
  <2> DEFINE r == [approval |-> a, key |-> k, at |-> now,
                   until |-> Lesser(sessions[i].acceptance.expires, e), replayUntil |-> e]
  <2>4. r \in Receipt
    BY <2>3, LesserFacts DEF Receipt, TypeOK
  <2>5. SessionsOK'
    BY <1>0, <1>5, <2>1, <2>4, AuthorizedFields, SaveOK DEF Authorize, AcceptanceBound
  <2> QED
    BY <1>5, <2>3, <2>5 DEF Authorize, AcceptanceBound, Issue, Grant, Kind, Record, TypeOK, SessionsOK
<1>6. ASSUME NEW i \in Intent, NEW p \in Portfolio, Cancel(i, p)
      PROVE  TypeOK'
  <2>1. SessionsOK'
    BY <1>0, <1>6, RowType, CancelledFields, SaveOK DEF Cancel, Closable, Owned
  <2>2. sessions[i] \in Session
    BY <1>0, <1>6, RowType DEF Cancel, Closable, Owned
  <2> QED
    BY <1>6, <2>1, <2>2 DEF Cancel, RevokeActive, TypeOK, SessionsOK, Session
<1>7. ASSUME NEW i \in Intent, NEW j \in Intent \ {i}, NEW p \in Portfolio, NEW k \in Key,
             Replace(i, j, p, k)
      PROVE  TypeOK'
  <2>1. sessions[i] \in Session /\ sessions[i].created < sessions[i].expires
    BY <1>0, <1>7, RowType DEF Replace, Owned
  <2> DEFINE old == Superseded(sessions[i], j)
             new == Draft(now, sessions[i].expires, p, i, "bare")
  <2>2. old \in Session /\ old.created < old.expires
    BY <2>1, SupersededFields
  <2>3. now \in Time /\ sessions[i].expires \in Time
    BY <2>1 DEF TypeOK, Session
  <2>4. /\ new \in Session /\ new.created = now /\ new.expires = sessions[i].expires
        /\ now < sessions[i].expires
    BY <1>7, <2>3 DEF Replace, Lives, Draft, Session, BuyerState, Awaiting, IntentState, Payload
  <2>5. sessions' = [sessions EXCEPT ![i] = old, ![j] = new]
    BY <1>7 DEF Replace
  <2> HIDE DEF old, new
  <2>6. SessionsOK'
    BY <1>0, <2>2, <2>4, <2>5 DEF SessionsOK, Rows, Exists
  <2> QED
    BY <1>7, <2>1, <2>6 DEF Replace, RevokeActive, Replacement, TypeOK, SessionsOK, Session
<1>8. ASSUME NEW i \in Intent, NEW p \in Portfolio, Delete(i, p)
      PROVE  TypeOK'
    BY <1>8 DEF Delete, Save, TypeOK, Rows, Exists
<1>9. ASSUME NEW i \in Intent, NEW p \in Portfolio, NEW flag \in BOOLEAN, SetSaved(i, p, flag)
      PROVE  TypeOK'
  <2>1. SessionsOK'
    BY <1>0, <1>9, RowType, SavedFields, SaveOK DEF SetSaved, Owned
  <2> QED
    BY <1>9, <2>1 DEF SetSaved, TypeOK, SessionsOK
<1>10. CASE Tick
    BY <1>10, MaxTimeAssumption DEF Tick, Time, TypeOK, Rows, Exists
<1>11. CASE UNCHANGED vars
    BY <1>11 DEF vars, TypeOK, Rows, Exists
<1> QED
    BY <1>1, <1>2, <1>3, <1>4, <1>5, <1>6, <1>7, <1>8, <1>9, <1>10, <1>11
    DEF Next, Command, Forward, PortfolioCommand

\* Every store holds rows of its shape, in every reachable state.
THEOREM TypeCorrect == Spec => []TypeOK
BY InitTypeOK, NextTypeOK, PTL DEF Spec

---------------------------------------------------------------------------
(***************************************************************************)
(* How far a request of GoldenPath has come: proofs that the parts of a    *)
(* session agree about it, that nothing advances an expired request, and   *)
(* that a finished request stays as it is.                                 *)
(*                                                                         *)
(* The argument is about one session at a time: each handler saves one     *)
(* session (a replacement saves two), and it turns a sound session into a  *)
(* sound one.  Sound adds to Agrees what keeps an authorization in time:   *)
(* an acceptance does not outlive its request or its offer.                *)
(***************************************************************************)

Finished == Closed \cup {"TRANSACTION_AUTHORIZED_SIMULATED"}

Sound(s) ==
    /\ Agrees(s)
    /\ s.acceptance # None =>
          /\ s.acceptance.expires <= s.expires
          /\ s.offers[s.acceptance.offer] # None
          /\ s.acceptance.expires <= s.offers[s.acceptance.offer].until

AllSound == \A i \in Rows : Sound(sessions[i])

\* Session n follows s before the request and the offer it accepted expire.
Timely(s, n) ==
    n.state # s.state /\ n.state \notin Closed =>
        /\ now < s.expires
        /\ \A o \in AcceptedOffers(n) : now < s.offers[o].until

\* What a step owes the sessions that were there.
Follows ==
    \A i \in Rows :
        /\ sessions[i].state \in Finished => sessions'[i] = sessions[i]
        /\ sessions'[i] # None => Timely(sessions[i], sessions'[i])

SessionInv == TypeOK /\ AllSound

---------------------------------------------------------------------------
\* What is before the earlier of two instants is before both.
LEMMA BeforeLesser ==
    ASSUME NEW x \in Time, NEW y \in Time, NEW t \in Time, t < Lesser(x, y)
    PROVE  t < x /\ t < y
BY MaxTimeAssumption DEF Lesser, Time

\* Confirming a draft.
LEMMA ConfirmSound ==
    ASSUME NEW s \in Session, NEW a \in Approval, Sound(s),
           s.state = "AWAITING_REQUIREMENT_CONFIRMATION"
    PROVE  Sound(Confirmed(s, a)) /\ AcceptedOffers(Confirmed(s, a)) = {}
<1> DEFINE n == Confirmed(s, a)
<1>1. /\ n.state = "AWAITING_DISPATCH_APPROVAL" /\ n.pi = "CONFIRMED"
      /\ n.expires = s.expires /\ n.offers = s.offers /\ n.acceptance = s.acceptance
      /\ n.receipt = s.receipt
    BY ConfirmedFields
<1> HIDE DEF n
<1>2. s.acceptance = None /\ s.receipt = None /\ \A o \in Offer : s.offers[o] = None
    BY DEF Sound, Agrees, Awaiting
<1>3. AcceptedOffers(n) = {}
    BY <1>1, <1>2 DEF AcceptedOffers
<1>4. Agrees(n)
    BY <1>1, <1>2, <1>3 DEF Agrees
<1> QED
    BY <1>1, <1>2, <1>3, <1>4 DEF Sound, n

\* Recording a dispatch and its offers.
LEMMA DispatchSound ==
    ASSUME NEW s \in Session, NEW a \in Approval, Sound(s),
           NEW valid \in [Offer -> Time \cup {None}], NEW winner \in Offer \cup {None},
           s.state = "AWAITING_DISPATCH_APPROVAL"
    PROVE  LET n == Ranked(s, a, Mapped(valid, winner)) IN Sound(n) /\ AcceptedOffers(n) = {}
<1> DEFINE quotes == Mapped(valid, winner)
           n == Ranked(s, a, quotes)
<1>1. \A o \in Offer : quotes[o] # None => quotes[o].state # "ACCEPTED"
    BY DEF Mapped
<1>2. quotes \in [Offer -> Quote \cup {None}]
    BY MappedType
<1> HIDE DEF quotes
<1>3. /\ n.state = "OFFERS_RANKED" /\ n.pi = "DISPATCHED"
      /\ n.offers = quotes /\ n.acceptance = s.acceptance /\ n.receipt = s.receipt
    BY <1>2, RankedFields
<1> HIDE DEF n
<1>4. s.acceptance = None /\ s.receipt = None
    BY DEF Sound, Agrees, Awaiting
<1>5. AcceptedOffers(n) = {}
    BY <1>1, <1>3 DEF AcceptedOffers
<1>6. Agrees(n)
    BY <1>3, <1>4, <1>5 DEF Agrees, Awaiting
<1> QED
    BY <1>3, <1>4, <1>5, <1>6 DEF Sound, n, quotes

\* Accepting one of the offers.
LEMMA AcceptSound ==
    ASSUME NEW s \in Session, NEW a \in Approval, NEW o \in Offer, Sound(s),
           s.state = "OFFERS_RANKED", s.offers[o] # None
    PROVE  Sound(Accepted(s, a, o)) /\ AcceptedOffers(Accepted(s, a, o)) = {o}
<1> DEFINE n == Accepted(s, a, o)
<1>1. /\ n.state = "ACCEPTANCE_RECORDED"
      /\ n.offers = [s.offers EXCEPT ![o] = [state |-> "ACCEPTED", until |-> s.offers[o].until]]
      /\ n.acceptance = [offer |-> o, approval |-> a,
                         expires |-> Lesser(s.offers[o].until, s.expires)]
      /\ n.pi = s.pi /\ n.expires = s.expires /\ n.receipt = s.receipt
      /\ n \in Session
    BY AcceptedFields
<1> HIDE DEF n
<1>2. s.offers \in [Offer -> Quote \cup {None}] /\ s.expires \in Time
    BY DEF Session
<1>3. s.offers[o].until \in Time
    BY <1>2 DEF Quote
<1>4. s.acceptance = None /\ s.receipt = None /\ AcceptedOffers(s) = {}
    BY DEF Sound, Agrees
<1>5. /\ n.offers[o] = [state |-> "ACCEPTED", until |-> s.offers[o].until]
      /\ n.offers[o] \in Quote
      /\ \A h \in Offer \ {o} : n.offers[h] = s.offers[h]
    BY <1>1, <1>2, <1>3 DEF Quote
<1>6. n.offers[o] # None
    BY <1>5, NoneAssumption
<1>7. AcceptedOffers(n) = {o}
    BY <1>4, <1>5, <1>6 DEF AcceptedOffers
<1>8. n.acceptance # None /\ n.acceptance.offer = o
      /\ n.acceptance.expires = Lesser(s.offers[o].until, s.expires)
  <2>1. n.acceptance \in Acceptance
    BY <1>1, <1>2, <1>3, LesserFacts DEF Acceptance
  <2> QED
    BY <1>1, <2>1, NoneAssumption
<1>9. Agrees(n)
    BY <1>1, <1>4, <1>7, <1>8 DEF Sound, Agrees, Awaiting
<1>10. n.acceptance.expires <= s.expires /\ n.acceptance.expires <= n.offers[o].until
    BY <1>2, <1>3, <1>5, <1>8, LesserFacts
<1> QED
    BY <1>1, <1>6, <1>7, <1>8, <1>9, <1>10 DEF Sound, n

\* Authorizing the accepted offer.
LEMMA AuthorizeSound ==
    ASSUME NEW s \in Session, NEW a \in Approval, NEW r \in Receipt, Sound(s),
           s.state = "ACCEPTANCE_RECORDED"
    PROVE  Sound(Authorized(s, a, r)) /\ AcceptedOffers(Authorized(s, a, r)) = {s.acceptance.offer}
<1> DEFINE n == Authorized(s, a, r)
<1>1. /\ n.state = "TRANSACTION_AUTHORIZED_SIMULATED" /\ n.receipt = r
      /\ n.pi = s.pi /\ n.expires = s.expires /\ n.offers = s.offers
      /\ n.acceptance = s.acceptance
    BY AuthorizedFields
<1> HIDE DEF n
<1>2. r # None /\ s.acceptance # None /\ AcceptedOffers(s) = {s.acceptance.offer}
    BY NoneAssumption DEF Sound, Agrees
<1>3. AcceptedOffers(n) = {s.acceptance.offer}
    BY <1>1, <1>2 DEF AcceptedOffers
<1>4. Agrees(n)
    BY <1>1, <1>2, <1>3 DEF Sound, Agrees, Awaiting
<1> QED
    BY <1>1, <1>2, <1>3, <1>4 DEF Sound, n

\* Closing a request, whichever way, keeps its offers and its acceptance.
LEMMA ClosedSound ==
    ASSUME NEW s \in Session, NEW n \in Session, Sound(s), s.receipt = None,
           \/ n.state = "CANCELLED" /\ n.pi = "CANCELLED"
           \/ n.state = "SUPERSEDED" /\ n.pi = "CLOSED",
           n.expires = s.expires, n.offers = s.offers, n.acceptance = s.acceptance,
           n.receipt = s.receipt
    PROVE  Sound(n)
<1>1. AcceptedOffers(n) = AcceptedOffers(s)
    BY DEF AcceptedOffers
<1>2. Agrees(n)
    BY <1>1 DEF Sound, Agrees, Awaiting
<1> QED
    BY <1>2 DEF Sound

\* A draft.
LEMMA DraftSound ==
    ASSUME NEW n, n.state = "AWAITING_REQUIREMENT_CONFIRMATION", n.pi = "DRAFT",
           n.offers = [o \in Offer |-> None], n.acceptance = None, n.receipt = None
    PROVE  Sound(n)
<1>1. AcceptedOffers(n) = {}
    BY DEF AcceptedOffers
<1> QED
    BY <1>1 DEF Sound, Agrees, Awaiting

\* Keeping a request on the list.
LEMMA SavedSound ==
    ASSUME NEW s \in Session, NEW n \in Session, Sound(s),
           n.state = s.state, n.pi = s.pi, n.expires = s.expires, n.offers = s.offers,
           n.acceptance = s.acceptance, n.receipt = s.receipt
    PROVE  Sound(n)
<1>1. AcceptedOffers(n) = AcceptedOffers(s)
    BY DEF AcceptedOffers
<1> QED
    BY <1>1 DEF Sound, Agrees

---------------------------------------------------------------------------
\* A handler that saves one sound session that follows the one it loaded.
LEMMA SaveFollows ==
    ASSUME SessionInv, NEW i \in Intent, NEW n \in Session, Save(i, n), Sound(n),
           Exists(i) => sessions[i].state \notin Finished /\ Timely(sessions[i], n)
    PROVE  AllSound' /\ Follows
<1>1. sessions'[i] = n /\ n # None /\ \A j \in Intent \ {i} : sessions'[j] = sessions[j]
    BY NoneAssumption DEF Save, SessionInv, TypeOK
<1>2. AllSound'
    BY <1>1 DEF SessionInv, AllSound, Rows, Exists
<1>3. \A j \in Rows : Timely(sessions[j], sessions[j])
    BY DEF Timely
<1>4. Follows
    BY <1>1, <1>3 DEF Follows, Rows
<1> QED
    BY <1>2, <1>4

\* Every step keeps sessions sound, finished ones as they are, and moves no
\* request forward after its expiry.
LEMMA NextSessions ==
    ASSUME SessionInv, [Next]_vars
    PROVE  AllSound' /\ Follows
<1>0. /\ SessionsOK
      /\ \A i \in Intent : Exists(i) => Sound(sessions[i])
    BY DEF SessionInv, TypeOK, SessionsOK, AllSound, Rows
<1>1. ASSUME NEW i \in Intent, NEW c \in Time, NEW e \in Time, NEW p \in Portfolio \cup {None},
             NEW body \in Payload, Create(i, c, e, p, body)
      PROVE  AllSound' /\ Follows
  <2> DEFINE new == Draft(c, e, p, None, body)
  <2>1. new \in Session
    BY DraftType
  <2>2. /\ new.state = "AWAITING_REQUIREMENT_CONFIRMATION" /\ new.pi = "DRAFT"
        /\ new.offers = [o \in Offer |-> None] /\ new.acceptance = None /\ new.receipt = None
    BY DEF Draft
  <2>3. Save(i, new) /\ ~Exists(i)
    BY <1>1 DEF Create
  <2> HIDE DEF new
  <2> QED
    BY <2>1, <2>2, <2>3, DraftSound, SaveFollows
<1>2. ASSUME NEW i \in Intent, NEW a \in Approval, Confirm(i, a)
      PROVE  AllSound' /\ Follows
  <2> DEFINE s == sessions[i]
             new == Confirmed(s, a)
  <2>1. /\ Exists(i) /\ s.state = "AWAITING_REQUIREMENT_CONFIRMATION"
        /\ now < s.expires /\ Save(i, new)
    BY <1>2 DEF Confirm, InState
  <2>2. s \in Session /\ Sound(s)
    BY <1>0, <2>1, RowType
  <2> HIDE DEF s
  <2>3. new \in Session /\ Sound(new) /\ AcceptedOffers(new) = {}
    BY <2>1, <2>2, ConfirmedFields, ConfirmSound
  <2> HIDE DEF new
  <2>4. Timely(s, new) /\ s.state \notin Finished
    BY <2>1, <2>3 DEF Timely, Finished, Closed
  <2> QED
    BY <2>1, <2>3, <2>4, SaveFollows DEF s
<1>3. ASSUME NEW i \in Intent, NEW a \in Approval, NEW valid \in [Offer -> Time \cup {None}],
             NEW winner \in Offer \cup {None}, Dispatch(i, a, valid, winner)
      PROVE  AllSound' /\ Follows
  <2> DEFINE s == sessions[i]
             new == Ranked(s, a, Mapped(valid, winner))
  <2>1. /\ Exists(i) /\ s.state = "AWAITING_DISPATCH_APPROVAL"
        /\ now < s.expires /\ Save(i, new)
    BY <1>3 DEF Dispatch, InState
  <2>2. s \in Session /\ Sound(s)
    BY <1>0, <2>1, RowType
  <2> HIDE DEF s
  <2>3. new \in Session /\ Sound(new) /\ AcceptedOffers(new) = {}
    BY <2>1, <2>2, MappedType, RankedFields, DispatchSound
  <2> HIDE DEF new
  <2>4. Timely(s, new) /\ s.state \notin Finished
    BY <2>1, <2>3 DEF Timely, Finished, Closed
  <2> QED
    BY <2>1, <2>3, <2>4, SaveFollows DEF s
<1>4. ASSUME NEW i \in Intent, NEW a \in Approval, NEW o \in Offer, Accept(i, a, o)
      PROVE  AllSound' /\ Follows
  <2> DEFINE s == sessions[i]
             new == Accepted(s, a, o)
  <2>1. /\ Exists(i) /\ s.state = "OFFERS_RANKED" /\ s.offers[o] # None
        /\ now < s.offers[o].until /\ now < Lesser(s.offers[o].until, s.expires)
        /\ Save(i, new)
    BY <1>4 DEF Accept, Selectable, InState
  <2>2. s \in Session /\ Sound(s) /\ now \in Time
    BY <1>0, <2>1, RowType DEF SessionInv, TypeOK
  <2> HIDE DEF s
  <2>3. new \in Session /\ Sound(new) /\ AcceptedOffers(new) = {o}
    BY <2>1, <2>2, AcceptedFields, AcceptSound
  <2> HIDE DEF new
  <2>4. now < s.expires
    <3>1. s.expires \in Time /\ s.offers[o].until \in Time
      BY <2>1, <2>2 DEF Session, Quote
    <3> QED
      BY <2>1, <2>2, <3>1, BeforeLesser
  <2>5. Timely(s, new) /\ s.state \notin Finished
    BY <2>1, <2>3, <2>4 DEF Timely, Finished, Closed
  <2> QED
    BY <2>1, <2>3, <2>5, SaveFollows DEF s
<1>5. ASSUME NEW i \in Intent, NEW a \in Approval, NEW k \in Key, NEW e \in Time,
             Authorize(i, a, k, e)
      PROVE  AllSound' /\ Follows
  <2> DEFINE s == sessions[i]
             r == [approval |-> a, key |-> k, at |-> now,
                   until |-> Lesser(s.acceptance.expires, e), replayUntil |-> e]
             new == Authorized(s, a, r)
  <2>1. /\ Exists(i) /\ s.state = "ACCEPTANCE_RECORDED" /\ s.acceptance # None
        /\ now < Lesser(s.acceptance.expires, e) /\ Save(i, new)
    BY <1>5 DEF Authorize, AcceptanceBound, InState
  <2>2. s \in Session /\ Sound(s) /\ now \in Time
    BY <1>0, <2>1, RowType DEF SessionInv, TypeOK
  <2> HIDE DEF s
  <2>3. /\ s.acceptance.offer \in Offer /\ s.acceptance.expires \in Time
        /\ s.expires \in Time /\ s.offers \in [Offer -> Quote \cup {None}]
    BY <2>1, <2>2 DEF Session, Acceptance
  <2>4. r \in Receipt
    BY <2>2, <2>3, LesserFacts DEF Receipt
  <2> HIDE DEF r
  <2>5. new \in Session /\ Sound(new) /\ AcceptedOffers(new) = {s.acceptance.offer}
    BY <2>1, <2>2, <2>4, AuthorizedFields, AuthorizeSound
  <2> HIDE DEF new
  <2>6. now < s.acceptance.expires
    BY <2>1, <2>2, <2>3, BeforeLesser
  <2>7. now < s.expires /\ now < s.offers[s.acceptance.offer].until
    <3>1. /\ s.acceptance.expires <= s.expires
          /\ s.offers[s.acceptance.offer] # None
          /\ s.acceptance.expires <= s.offers[s.acceptance.offer].until
      BY <2>1, <2>2 DEF Sound
    <3>2. s.offers[s.acceptance.offer].until \in Time
      BY <2>3, <3>1 DEF Quote
    <3> QED
      BY <2>2, <2>3, <2>6, <3>1, <3>2, MaxTimeAssumption DEF Time
  <2>8. Timely(s, new) /\ s.state \notin Finished
    BY <2>1, <2>5, <2>7 DEF Timely, Finished, Closed
  <2> QED
    BY <2>1, <2>5, <2>8, SaveFollows DEF s
<1>6. ASSUME NEW i \in Intent, NEW p \in Portfolio, Cancel(i, p)
      PROVE  AllSound' /\ Follows
  <2> DEFINE s == sessions[i]
             new == Cancelled(s)
  <2>1. Exists(i) /\ s.state \notin Finished /\ s.receipt = None /\ Save(i, new)
    BY <1>6 DEF Cancel, Closable, Owned, Finished
  <2>2. s \in Session /\ Sound(s)
    BY <1>0, <2>1, RowType
  <2> HIDE DEF s
  <2>3. /\ new \in Session /\ new.state = "CANCELLED" /\ new.pi = "CANCELLED"
        /\ new.expires = s.expires /\ new.offers = s.offers
        /\ new.acceptance = s.acceptance /\ new.receipt = s.receipt
    BY <2>2, CancelledFields
  <2> HIDE DEF new
  <2>4. Sound(new) /\ Timely(s, new)
    BY <2>1, <2>2, <2>3, ClosedSound DEF Timely, Closed
  <2> QED
    BY <2>1, <2>3, <2>4, SaveFollows DEF s
<1>7. ASSUME NEW i \in Intent, NEW j \in Intent \ {i}, NEW p \in Portfolio, NEW k \in Key,
             Replace(i, j, p, k)
      PROVE  AllSound' /\ Follows
  <2> DEFINE s == sessions[i]
             old == Superseded(s, j)
             new == Draft(now, s.expires, p, i, "bare")
  <2>1. /\ Exists(i) /\ s.state \notin Finished /\ s.receipt = None /\ ~Exists(j)
        /\ sessions' = [sessions EXCEPT ![i] = old, ![j] = new]
    BY <1>7 DEF Replace, Closable, Owned, Finished
  <2>2. s \in Session /\ Sound(s)
    BY <1>0, <2>1, RowType
  <2> HIDE DEF s
  <2>3. /\ old \in Session
        /\ \/ old.state = "CANCELLED" /\ old.pi = "CANCELLED"
           \/ old.state = "SUPERSEDED" /\ old.pi = "CLOSED"
        /\ old.expires = s.expires /\ old.offers = s.offers
        /\ old.acceptance = s.acceptance /\ old.receipt = s.receipt
    BY <2>2, SupersededFields
  <2>4. Sound(new)
    <3>1. /\ new.state = "AWAITING_REQUIREMENT_CONFIRMATION" /\ new.pi = "DRAFT"
          /\ new.offers = [o \in Offer |-> None] /\ new.acceptance = None /\ new.receipt = None
      BY DEF Draft
    <3> HIDE DEF new
    <3> QED
      BY <3>1, DraftSound
  <2> HIDE DEF old, new
  <2>5. Sound(old) /\ Timely(s, old)
    <3>1. Sound(old)
      BY <2>1, <2>2, <2>3, ClosedSound
    <3>2. old.state \in Closed
      BY <2>3 DEF Closed
    <3> QED
      BY <3>1, <3>2 DEF Timely
  <2>6. /\ sessions'[i] = old /\ sessions'[j] = new
        /\ \A h \in Intent \ {i, j} : sessions'[h] = sessions[h]
    BY <2>1 DEF SessionInv, TypeOK
  <2>7. AllSound'
    BY <2>4, <2>5, <2>6 DEF SessionInv, AllSound, Rows, Exists
  <2>8. \A h \in Rows : Timely(sessions[h], sessions[h])
    BY DEF Timely
  <2>9. Follows
    BY <2>1, <2>5, <2>6, <2>8 DEF Follows, Rows, s
  <2> QED
    BY <2>7, <2>9
<1>8. ASSUME NEW i \in Intent, NEW p \in Portfolio, Delete(i, p)
      PROVE  AllSound' /\ Follows
  <2>1. sessions[i].state \notin Finished /\ sessions' = [sessions EXCEPT ![i] = None]
    BY <1>8 DEF Delete, Save, Finished, Closed
  <2>2. sessions'[i] = None /\ \A j \in Intent \ {i} : sessions'[j] = sessions[j]
    BY <2>1 DEF SessionInv, TypeOK
  <2>3. \A j \in Rows : Timely(sessions[j], sessions[j])
    BY DEF Timely
  <2> QED
    BY <2>1, <2>2, <2>3 DEF SessionInv, AllSound, Follows, Rows, Exists
<1>9. ASSUME NEW i \in Intent, NEW p \in Portfolio, NEW flag \in BOOLEAN, SetSaved(i, p, flag)
      PROVE  AllSound' /\ Follows
  <2> DEFINE s == sessions[i]
             new == [s EXCEPT !.saved = flag]
  <2>1. Exists(i) /\ s.state \notin Finished /\ Save(i, new)
    BY <1>9 DEF SetSaved, Owned, Finished
  <2>2. s \in Session /\ Sound(s)
    BY <1>0, <2>1, RowType
  <2> HIDE DEF s
  <2>3. /\ new \in Session /\ new.state = s.state /\ new.pi = s.pi
        /\ new.expires = s.expires /\ new.offers = s.offers
        /\ new.acceptance = s.acceptance /\ new.receipt = s.receipt
    BY <2>2, SavedFields
  <2> HIDE DEF new
  <2>4. Sound(new) /\ Timely(s, new)
    BY <2>2, <2>3, SavedSound DEF Timely
  <2> QED
    BY <2>1, <2>3, <2>4, SaveFollows DEF s
<1>10. CASE Tick \/ UNCHANGED vars
  <2>1. sessions' = sessions
    BY <1>10 DEF Tick, vars
  <2>2. \A j \in Rows : Timely(sessions[j], sessions[j])
    BY DEF Timely
  <2> QED
    BY <2>1, <2>2 DEF SessionInv, AllSound, Follows, Rows, Exists
<1> QED
    BY <1>1, <1>2, <1>3, <1>4, <1>5, <1>6, <1>7, <1>8, <1>9, <1>10
    DEF Next, Command, Forward, PortfolioCommand

---------------------------------------------------------------------------
\* The inductive invariant of the sessions.
THEOREM SessionInvariance == Spec => []SessionInv
<1>1. Init => SessionInv
    BY InitTypeOK DEF Init, SessionInv, AllSound, Rows, Exists
<1>2. SessionInv /\ [Next]_vars => SessionInv'
    BY NextTypeOK, NextSessions DEF SessionInv
<1> QED
    BY <1>1, <1>2, PTL DEF Spec

\* The five parts of a session that tell how far a request has come never
\* disagree, for any number of requests, offers, approvals and any clock.
THEOREM SessionPartsAgree == Spec => []StatesAgree
<1>1. SessionInv => StatesAgree
    BY DEF SessionInv, AllSound, Sound, StatesAgree
<1> QED
    BY SessionInvariance, <1>1, PTL

\* A finished request never changes.
THEOREM FinishedFrozen == Spec => TerminalFrozen
<1>1. SessionInv /\ [Next]_vars =>
        [\A i \in Rows : sessions[i].state \in Closed \cup {"TRANSACTION_AUTHORIZED_SIMULATED"} =>
                             sessions[i]' = sessions[i]]_vars
    BY NextSessions DEF Follows, Finished
<1> QED
    BY SessionInvariance, <1>1, PTL DEF Spec, TerminalFrozen

\* No request is brought forward at or after its expiry or that of the offer it
\* accepted.
THEOREM ForwardInTime == Spec => ExpiredNeverAdvances
<1>1. SessionInv /\ [Next]_vars =>
        [\A i \in Rows :
            (Exists(i)' /\ sessions[i]'.state # sessions[i].state
                        /\ sessions[i]'.state \notin Closed) =>
               /\ now < sessions[i].expires
               /\ \A o \in AcceptedOffers(sessions[i])' : now < sessions[i].offers[o].until]_vars
    BY NextSessions DEF Follows, Timely, Exists, AcceptedOffers
<1> QED
    BY SessionInvariance, <1>1, PTL DEF Spec, ExpiredNeverAdvances

---------------------------------------------------------------------------
(***************************************************************************)
(* What the approvals of GoldenPath are worth: proofs that each is spent   *)
(* once, for the request it was given for, revoked when that request       *)
(* closes, and that no request moves forward without its own.              *)
(*                                                                         *)
(* The argument: a step spends one approval for one request, or closes one *)
(* request, or touches no approval.  An approval that can be issued is on  *)
(* record for no request, because one on record is used by the request it  *)
(* names, which refuses to use it twice.                                   *)
(***************************************************************************)

\* The approvals a request has used, none if there is no such request.
Used(i) == IF Exists(i) THEN sessions[i].used ELSE {}

IsClosed(i) == Exists(i) /\ sessions[i].state \in Closed

\* Approval a is issued as grant g and used by request i.
Spends(i, a, g) ==
    /\ ~IsClosed(i) /\ ~IsClosed(i)'
    /\ a \notin Used(i) /\ grants[a] \in {None, g}
    /\ g # None /\ g.intent = i
    /\ grants' = [grants EXCEPT ![a] = g] /\ revoked' = revoked
    /\ Used(i)' = Used(i) \cup {a}
    /\ \A j \in Intent \ {i} : Used(j)' = Used(j) /\ IsClosed(j)' = IsClosed(j)

\* Request i closes and what it used is revoked.
Closes(i) ==
    /\ IsClosed(i)'
    /\ \A j \in Intent \ {i} : IsClosed(j)' = IsClosed(j)
    /\ \A j \in Intent : Used(j)' = Used(j)
    /\ grants' = grants
    /\ revoked' = revoked \cup {a \in Used(i) : grants[a] # None}

\* No approval is touched.
Keeps ==
    /\ \A j \in Intent : Used(j)' = Used(j) /\ IsClosed(j)' = IsClosed(j)
    /\ grants' = grants /\ revoked' = revoked

---------------------------------------------------------------------------
\* A session saved under its id, and what others see of it.
LEMMA SaveSteps ==
    ASSUME TypeOK, NEW i \in Intent, NEW n \in Session, Save(i, n)
    PROVE  /\ Used(i)' = n.used /\ IsClosed(i)' = (n.state \in Closed)
           /\ \A j \in Intent \ {i} : Used(j)' = Used(j) /\ IsClosed(j)' = IsClosed(j)
<1>1. sessions'[i] = n /\ n # None /\ \A j \in Intent \ {i} : sessions'[j] = sessions[j]
    BY NoneAssumption DEF Save, TypeOK
<1> QED
    BY <1>1 DEF Used, IsClosed, Exists

\* A handler that issues an approval and saves the session spends the approval.
LEMMA SpendSteps ==
    ASSUME TypeOK, NEW i \in Intent, NEW a \in Approval, NEW g \in Grant, NEW n \in Session,
           Exists(i), sessions[i].state \notin Closed, n.state \notin Closed, g.intent = i,
           n.used = sessions[i].used \cup {a},
           Issuable(i, a, g), Issue(a, g), Save(i, n), revoked' = revoked
    PROVE  Spends(i, a, g)
<1>1. g # None
    BY NoneAssumption
<1>2. /\ Used(i)' = n.used /\ IsClosed(i)' = (n.state \in Closed)
      /\ \A j \in Intent \ {i} : Used(j)' = Used(j) /\ IsClosed(j)' = IsClosed(j)
    BY SaveSteps
<1>3. Used(i) = sessions[i].used /\ ~IsClosed(i)
    BY DEF Used, IsClosed
<1> QED
    BY <1>1, <1>2, <1>3 DEF Spends, Issuable, Issue

\* Every step spends an approval, closes a request or touches no approval.
LEMMA KindsOfCommands ==
    ASSUME TypeOK, [Next]_vars
    PROVE  \/ \E i \in Intent, a \in Approval, g \in Grant : Spends(i, a, g)
           \/ \E i \in Intent : Closes(i)
           \/ Keeps
<1>0. SessionsOK
    BY DEF TypeOK, SessionsOK
<1>1. ASSUME NEW i \in Intent, NEW c \in Time, NEW e \in Time, NEW p \in Portfolio \cup {None},
             NEW body \in Payload, Create(i, c, e, p, body)
      PROVE  Keeps
  <2> DEFINE new == Draft(c, e, p, None, body)
  <2>1. new \in Session
    BY DraftType
  <2>2. new.used = {} /\ new.state \notin Closed
    BY DEF Draft, Closed
  <2>3. Save(i, new) /\ ~Exists(i) /\ grants' = grants /\ revoked' = revoked
    BY <1>1 DEF Create
  <2> HIDE DEF new
  <2>4. Used(i) = {} /\ IsClosed(i) = FALSE
    BY <2>3 DEF Used, IsClosed
  <2>5. Used(i)' = {} /\ IsClosed(i)' = FALSE
    <3>1. Used(i)' = new.used /\ IsClosed(i)' = (new.state \in Closed)
      BY <2>1, <2>3, SaveSteps
    <3>2. (new.state \in Closed) = FALSE
      BY <2>2
    <3> QED
      BY <2>2, <3>1, <3>2
  <2>6. \A j \in Intent \ {i} : Used(j)' = Used(j) /\ IsClosed(j)' = IsClosed(j)
    BY <2>1, <2>3, SaveSteps
  <2> QED
    BY <2>3, <2>4, <2>5, <2>6 DEF Keeps
<1>2. ASSUME NEW i \in Intent, NEW a \in Approval, Confirm(i, a)
      PROVE  \E g \in Grant : Spends(i, a, g)
  <2> DEFINE g == [kind |-> "REQUIREMENT_CONFIRMATION", intent |-> i, offer |-> None]
             new == Confirmed(sessions[i], a)
  <2>1. g \in Grant /\ g.intent = i
    BY DEF Grant, Kind
  <2>2. /\ Exists(i) /\ sessions[i].state \notin Closed
        /\ Issuable(i, a, g) /\ Issue(a, g) /\ Save(i, new) /\ revoked' = revoked
    BY <1>2 DEF Confirm, InState, Closed
  <2>3. new \in Session /\ new.state \notin Closed /\ new.used = sessions[i].used \cup {a}
    BY <1>0, <2>2, RowType, ConfirmedFields DEF Closed
  <2> HIDE DEF g, new
  <2> QED
    BY <2>1, <2>2, <2>3, SpendSteps
<1>3. ASSUME NEW i \in Intent, NEW a \in Approval, NEW valid \in [Offer -> Time \cup {None}],
             NEW winner \in Offer \cup {None}, Dispatch(i, a, valid, winner)
      PROVE  \E g \in Grant : Spends(i, a, g)
  <2> DEFINE g == [kind |-> "PURCHASE_INTENT_DISPATCH", intent |-> i, offer |-> None]
             new == Ranked(sessions[i], a, Mapped(valid, winner))
  <2>1. g \in Grant /\ g.intent = i
    BY DEF Grant, Kind
  <2>2. /\ Exists(i) /\ sessions[i].state \notin Closed
        /\ Issuable(i, a, g) /\ Issue(a, g) /\ Save(i, new) /\ revoked' = revoked
    BY <1>3 DEF Dispatch, InState, Closed
  <2>3. new \in Session /\ new.state \notin Closed /\ new.used = sessions[i].used \cup {a}
    BY <1>0, <2>2, RowType, MappedType, RankedFields DEF Closed
  <2> HIDE DEF g, new
  <2> QED
    BY <2>1, <2>2, <2>3, SpendSteps
<1>4. ASSUME NEW i \in Intent, NEW a \in Approval, NEW o \in Offer, Accept(i, a, o)
      PROVE  \E g \in Grant : Spends(i, a, g)
  <2> DEFINE g == [kind |-> "OFFER_ACCEPTANCE", intent |-> i, offer |-> o]
             s == sessions[i]
             new == Accepted(s, a, o)
  <2>1. g \in Grant /\ g.intent = i
    BY DEF Grant, Kind
  <2>2. /\ Exists(i) /\ sessions[i].state \notin Closed /\ sessions[i].offers[o] # None
        /\ Issuable(i, a, g) /\ Issue(a, g) /\ Save(i, new) /\ revoked' = revoked
    BY <1>4 DEF Accept, Selectable, InState, Closed
  <2>3. s \in Session /\ s.offers[o] # None
    BY <1>0, <2>2, RowType
  <2> HIDE DEF s
  <2>4. new \in Session /\ new.state = "ACCEPTANCE_RECORDED" /\ new.used = s.used \cup {a}
    BY <2>3, AcceptedFields
  <2>5. new.state \notin Closed /\ new.used = sessions[i].used \cup {a}
    BY <2>4 DEF Closed, s
  <2> HIDE DEF g, new
  <2> QED
    BY <2>1, <2>2, <2>4, <2>5, SpendSteps
<1>5. ASSUME NEW i \in Intent, NEW a \in Approval, NEW k \in Key, NEW e \in Time,
             Authorize(i, a, k, e)
      PROVE  \E g \in Grant : Spends(i, a, g)
  <2>0. Exists(i) /\ sessions[i].state \notin Closed /\ sessions[i] \in Session
    BY <1>0, <1>5, RowType DEF Authorize, AcceptanceBound, InState, Closed
  <2>1. sessions[i].acceptance.offer \in Offer /\ sessions[i].acceptance.expires \in Time
    BY <1>5, <2>0 DEF Authorize, AcceptanceBound, Session, Acceptance
  <2> DEFINE g == [kind |-> "TRANSACTION_AUTHORIZATION", intent |-> i,
                   offer |-> sessions[i].acceptance.offer]
             r == [approval |-> a, key |-> k, at |-> now,
                   until |-> Lesser(sessions[i].acceptance.expires, e), replayUntil |-> e]
             new == Authorized(sessions[i], a, r)
  <2>2. g \in Grant /\ g.intent = i
    BY <2>1 DEF Grant, Kind
  <2>3. r \in Receipt
    BY <2>1, LesserFacts DEF Receipt, TypeOK
  <2>4. Issuable(i, a, g) /\ Issue(a, g) /\ Save(i, new) /\ revoked' = revoked
    BY <1>5 DEF Authorize, AcceptanceBound
  <2>5. new \in Session /\ new.state \notin Closed /\ new.used = sessions[i].used \cup {a}
    BY <2>0, <2>3, AuthorizedFields DEF Closed
  <2> HIDE DEF g, r, new
  <2> QED
    BY <2>0, <2>2, <2>4, <2>5, SpendSteps
<1>6. ASSUME NEW i \in Intent, NEW p \in Portfolio, Cancel(i, p)
      PROVE  Closes(i)
  <2> DEFINE new == Cancelled(sessions[i])
  <2>1. /\ Exists(i) /\ Save(i, new) /\ grants' = grants
        /\ revoked' = revoked \cup {a \in sessions[i].used : grants[a] # None}
    BY <1>6 DEF Cancel, Closable, Owned, RevokeActive
  <2>2. new \in Session /\ new.state \in Closed /\ new.used = sessions[i].used
    BY <1>0, <2>1, RowType, CancelledFields DEF Closed
  <2> HIDE DEF new
  <2>3. Used(i) = sessions[i].used
    BY <2>1 DEF Used
  <2> QED
    BY <2>1, <2>2, <2>3, SaveSteps DEF Closes
<1>7. ASSUME NEW i \in Intent, NEW j \in Intent \ {i}, NEW p \in Portfolio, NEW k \in Key,
             Replace(i, j, p, k)
      PROVE  Closes(i)
  <2> DEFINE old == Superseded(sessions[i], j)
             new == Draft(now, sessions[i].expires, p, i, "bare")
  <2>1. /\ Exists(i) /\ ~Exists(j) /\ grants' = grants
        /\ revoked' = revoked \cup {a \in sessions[i].used : grants[a] # None}
        /\ sessions' = [sessions EXCEPT ![i] = old, ![j] = new]
    BY <1>7 DEF Replace, Owned, RevokeActive
  <2>2. sessions[i] \in Session
    BY <1>0, <2>1, RowType
  <2>3. old \in Session /\ old.state \in Closed /\ old.used = sessions[i].used
    BY <2>2, SupersededFields DEF Closed
  <2>4. new.used = {} /\ new.state \notin Closed
    BY DEF Draft, Closed
  <2> HIDE DEF old, new
  <2>5. /\ sessions'[i] = old /\ old # None /\ sessions'[j] = new
        /\ \A h \in Intent \ {i, j} : sessions'[h] = sessions[h]
    BY <2>1, <2>3, NoneAssumption DEF TypeOK
  <2>6. Used(i)' = Used(i) /\ IsClosed(i)' /\ Used(i) = sessions[i].used
    BY <2>1, <2>3, <2>5 DEF Used, IsClosed, Exists
  <2>7. Used(j)' = Used(j) /\ IsClosed(j)' = IsClosed(j)
    BY <2>1, <2>4, <2>5 DEF Used, IsClosed, Exists
  <2>8. \A h \in Intent \ {i, j} : Used(h)' = Used(h) /\ IsClosed(h)' = IsClosed(h)
    BY <2>5 DEF Used, IsClosed, Exists
  <2> QED
    BY <2>1, <2>6, <2>7, <2>8 DEF Closes
<1>8. ASSUME NEW i \in Intent, NEW p \in Portfolio, Delete(i, p)
      PROVE  Keeps
  <2>1. /\ sessions[i].used = {} /\ sessions[i].state \notin Closed
        /\ sessions' = [sessions EXCEPT ![i] = None] /\ grants' = grants /\ revoked' = revoked
    BY <1>8 DEF Delete, Save, Closed
  <2>2. sessions'[i] = None /\ \A j \in Intent \ {i} : sessions'[j] = sessions[j]
    BY <2>1 DEF TypeOK
  <2> QED
    BY <2>1, <2>2 DEF Keeps, Used, IsClosed, Exists
<1>9. ASSUME NEW i \in Intent, NEW p \in Portfolio, NEW flag \in BOOLEAN, SetSaved(i, p, flag)
      PROVE  Keeps
  <2> DEFINE new == [sessions[i] EXCEPT !.saved = flag]
  <2>1. Exists(i) /\ Save(i, new) /\ grants' = grants /\ revoked' = revoked
    BY <1>9 DEF SetSaved, Owned
  <2>2. new \in Session /\ new.used = sessions[i].used /\ new.state = sessions[i].state
    BY <1>0, <2>1, RowType, SavedFields
  <2> HIDE DEF new
  <2>3. Used(i) = sessions[i].used /\ IsClosed(i) = (sessions[i].state \in Closed)
    BY <2>1 DEF Used, IsClosed
  <2> QED
    BY <2>1, <2>2, <2>3, SaveSteps DEF Keeps
<1>10. CASE Tick \/ UNCHANGED vars
    BY <1>10 DEF Tick, vars, Keeps, Used, IsClosed, Exists
<1> QED
    BY <1>1, <1>2, <1>3, <1>4, <1>5, <1>6, <1>7, <1>8, <1>9, <1>10
    DEF Next, Command, Forward, PortfolioCommand

---------------------------------------------------------------------------
\* An approval on record was used by the one request it names, and one that is
\* not on record by none.
Exclusive ==
    \A a \in Approval : \A i \in Intent :
        a \in Used(i) <=> grants[a] # None /\ grants[a].intent = i

\* What is revoked is what closed requests used.
RevokedUsed ==
    \A a \in Approval : a \in revoked <=> \E i \in Intent : IsClosed(i) /\ a \in Used(i)

ApprovalInv == TypeOK /\ Exclusive /\ RevokedUsed

\* At the start nothing is used, issued or revoked.
LEMMA InitApprovals == Init => ApprovalInv
BY InitTypeOK DEF Init, ApprovalInv, Exclusive, RevokedUsed, Used, IsClosed, Exists

\* The invariant survives an approval that is spent: it was on record for nobody.
LEMMA SpendsApprovals ==
    ASSUME ApprovalInv, NEW i \in Intent, NEW a \in Approval, NEW g \in Grant, Spends(i, a, g)
    PROVE  Exclusive' /\ RevokedUsed'
<1>1. grants[a] = None
    BY DEF ApprovalInv, Exclusive, Spends
<1>2. \A j \in Intent : a \notin Used(j)
    BY <1>1 DEF ApprovalInv, Exclusive
<1>3. /\ grants'[a] = g /\ g # None /\ g.intent = i
      /\ \A b \in Approval \ {a} : grants'[b] = grants[b]
    BY DEF ApprovalInv, TypeOK, Spends
<1>4. /\ Used(i)' = Used(i) \cup {a}
      /\ \A j \in Intent \ {i} : Used(j)' = Used(j)
    BY DEF Spends
<1>5. Exclusive'
  <2> SUFFICES ASSUME NEW b \in Approval, NEW j \in Intent
               PROVE  b \in Used(j)' <=> grants'[b] # None /\ grants'[b].intent = j
    BY DEF Exclusive
  <2>1. CASE b = a
    BY <2>1, <1>2, <1>3, <1>4
  <2>2. CASE b # a
    <3>1. b \in Used(j)' <=> b \in Used(j)
      BY <2>2, <1>4
    <3> QED
      BY <2>2, <3>1, <1>3 DEF ApprovalInv, Exclusive
  <2> QED
    BY <2>1, <2>2
<1>6. RevokedUsed'
  <2>1. \A j \in Intent : IsClosed(j)' => j # i
    BY DEF Spends
  <2>2. \A j \in Intent \ {i} : Used(j)' = Used(j) /\ IsClosed(j)' = IsClosed(j)
    BY DEF Spends
  <2>3. ~IsClosed(i) /\ revoked' = revoked
    BY DEF Spends
  <2>4. \A b \in Approval : (\E j \in Intent : IsClosed(j)' /\ b \in Used(j)')
                                <=> (\E j \in Intent : IsClosed(j) /\ b \in Used(j))
    BY <2>1, <2>2, <2>3
  <2> QED
    BY <2>3, <2>4 DEF ApprovalInv, RevokedUsed
<1> QED
    BY <1>5, <1>6

\* It survives a request that closes: all it used is on record, so all is revoked.
LEMMA ClosesApprovals ==
    ASSUME ApprovalInv, NEW i \in Intent, Closes(i)
    PROVE  Exclusive' /\ RevokedUsed'
<1>1. /\ grants' = grants /\ \A j \in Intent : Used(j)' = Used(j)
      /\ IsClosed(i)' /\ \A j \in Intent \ {i} : IsClosed(j)' = IsClosed(j)
    BY DEF Closes
<1>2. Exclusive'
    BY <1>1 DEF ApprovalInv, Exclusive
<1>3. \A b \in Approval : b \in Used(i) => grants[b] # None
    BY DEF ApprovalInv, Exclusive
<1>4. \A b \in Approval : b \in revoked' <=> b \in revoked \/ b \in Used(i)
    BY <1>3 DEF Closes
<1>5. RevokedUsed'
    BY <1>1, <1>4 DEF ApprovalInv, RevokedUsed
<1> QED
    BY <1>2, <1>5

\* Every step keeps the invariant.
LEMMA NextApprovals == ApprovalInv /\ [Next]_vars => ApprovalInv'
<1> SUFFICES ASSUME ApprovalInv, [Next]_vars PROVE ApprovalInv'
    OBVIOUS
<1>1. TypeOK /\ TypeOK'
    BY NextTypeOK DEF ApprovalInv
<1>2. CASE Keeps
  <2>1. \A j \in Intent : Used(j)' = Used(j) /\ IsClosed(j)' = IsClosed(j)
    BY <1>2 DEF Keeps
  <2>2. grants' = grants /\ revoked' = revoked
    BY <1>2 DEF Keeps
  <2> QED
    BY <1>1, <2>1, <2>2 DEF ApprovalInv, Exclusive, RevokedUsed
<1> QED
    BY <1>1, <1>2, KindsOfCommands, SpendsApprovals, ClosesApprovals DEF ApprovalInv

\* The inductive invariant of the approvals.
THEOREM ApprovalInvariance == Spec => []ApprovalInv
BY InitApprovals, NextApprovals, PTL DEF Spec

\* An approval is spent once and for the request it was issued for, for any
\* number of requests and any order of commands, and no refused command leaves one behind.
THEOREM ApprovalsSpentOnce == Spec => []ApprovalExclusive
<1>1. ApprovalInv => ApprovalExclusive
  <2> SUFFICES ASSUME ApprovalInv, NEW a \in Approval
               PROVE  {i \in Rows : a \in sessions[i].used} =
                          IF grants[a] = None THEN {} ELSE {grants[a].intent}
    BY DEF ApprovalExclusive
  <2>1. {i \in Rows : a \in sessions[i].used} = {i \in Intent : a \in Used(i)}
    BY DEF Rows, Used
  <2>2. grants[a] # None => grants[a].intent \in Intent
    BY DEF ApprovalInv, TypeOK, Grant
  <2> QED
    BY <2>1, <2>2 DEF ApprovalInv, Exclusive
<1> QED
    BY ApprovalInvariance, <1>1, PTL

\* Closing a request revokes exactly what it was granted.
THEOREM ClosedRequestsRevoked == Spec => []ClosedRevoked
<1>1. ApprovalInv => ClosedRevoked
  <2> SUFFICES ASSUME ApprovalInv
               PROVE  revoked = UNION {sessions[i].used : i \in {r \in Rows : sessions[r].state \in Closed}}
    BY DEF ClosedRevoked
  <2>1. revoked \subseteq Approval
    BY DEF ApprovalInv, TypeOK
  <2>2. \A i \in Rows : sessions[i].used \subseteq Approval
    BY DEF ApprovalInv, TypeOK, Rows, Exists, Session
  <2>3. \A i \in Intent : IsClosed(i) <=> i \in Rows /\ sessions[i].state \in Closed
    BY DEF IsClosed, Rows
  <2>4. \A i \in Rows : Used(i) = sessions[i].used
    BY DEF Used, Rows
  <2>5. \A a \in Approval : a \in revoked <=>
            \E i \in Rows : sessions[i].state \in Closed /\ a \in sessions[i].used
    BY <2>3, <2>4 DEF ApprovalInv, RevokedUsed, Rows
  <2> QED
    BY <2>1, <2>2, <2>5
<1> QED
    BY ApprovalInvariance, <1>1, PTL

\* The two together: every approval that was ever issued is accounted for by
\* the requests that spent it and by those that closed.
THEOREM ApprovalsAlwaysAccounted == Spec => []ApprovalsAccounted
BY ApprovalsSpentOnce, ClosedRequestsRevoked, PTL DEF ApprovalsAccounted

---------------------------------------------------------------------------
(***************************************************************************)
(* The chain of approvals of one session.                                  *)
(***************************************************************************)
\* What ConsentChain says of session s of request i under the grants gr, beyond
\* what Exclusive says.
Kinds(s, gr) == {gr[a].kind : a \in s.used}

Spent(s, gr) ==
    /\ \A a, b \in s.used : gr[a].kind = gr[b].kind => a = b
    /\ s.state \notin Closed => Kinds(s, gr) = Consents(s.state)

Named(i, s, gr) ==
    /\ s.acceptance # None =>
          /\ s.acceptance.approval \in s.used
          /\ gr[s.acceptance.approval] = [kind |-> "OFFER_ACCEPTANCE", intent |-> i,
                                          offer |-> s.acceptance.offer]
    /\ s.receipt # None =>
          /\ s.receipt.approval \in s.used
          /\ gr[s.receipt.approval] = [kind |-> "TRANSACTION_AUTHORIZATION", intent |-> i,
                                       offer |-> s.acceptance.offer]

Chains == \A i \in Rows : Spent(sessions[i], grants) /\ Named(i, sessions[i], grants)

ConsentInv == SessionInv /\ ApprovalInv /\ Chains

\* The approvals each state has behind it, and the one that leads to it.
LEMMA ConsentSteps ==
    /\ Consents("AWAITING_REQUIREMENT_CONFIRMATION") = {}
    /\ Consents("AWAITING_DISPATCH_APPROVAL") = {"REQUIREMENT_CONFIRMATION"}
    /\ Consents("OFFERS_RANKED") = {"REQUIREMENT_CONFIRMATION", "PURCHASE_INTENT_DISPATCH"}
    /\ Consents("ACCEPTANCE_RECORDED") = Consents("OFFERS_RANKED") \cup {"OFFER_ACCEPTANCE"}
    /\ Consents("TRANSACTION_AUTHORIZED_SIMULATED") =
          Consents("ACCEPTANCE_RECORDED") \cup {"TRANSACTION_AUTHORIZATION"}
BY DEF Consents, Kind

\* A handler that uses an approval of the kind its next state asks for.
LEMMA ForwardSpent ==
    ASSUME NEW s, NEW n, NEW gr, NEW new, NEW a, Spent(s, gr),
           s.state \notin Closed, n.used = s.used \cup {a}, a \notin s.used,
           \A b \in s.used : new[b] = gr[b],
           new[a].kind \notin Consents(s.state),
           Consents(n.state) = Consents(s.state) \cup {new[a].kind}
    PROVE  Spent(n, new)
<1>1. Kinds(s, gr) = Consents(s.state)
    BY DEF Spent
<1>2. Kinds(n, new) = Kinds(s, gr) \cup {new[a].kind}
    BY DEF Kinds
<1>3. \A b \in s.used : new[b].kind # new[a].kind
    BY <1>1 DEF Kinds
<1>4. \A b, c \in n.used : new[b].kind = new[c].kind => b = c
    BY <1>3 DEF Spent
<1> QED
    BY <1>1, <1>2, <1>4 DEF Spent

\* A handler that spends a good approval keeps every chain: the grant it writes
\* is used by nobody else.
LEMMA SpendChains ==
    ASSUME ConsentInv, NEW i \in Intent, NEW a \in Approval, NEW g \in Grant, NEW n \in Session,
           Exists(i), g.intent = i, Issuable(i, a, g), Issue(a, g), Save(i, n),
           Spent(n, grants'), Named(i, n, grants')
    PROVE  Chains'
<1>1. sessions'[i] = n /\ \A j \in Intent \ {i} : sessions'[j] = sessions[j]
    BY DEF Save, ConsentInv, SessionInv, TypeOK
<1>2. a \notin Used(i) /\ grants[a] \in {None, g} /\ grants' = [grants EXCEPT ![a] = g]
    BY DEF Issuable, Issue, Used
<1>3. \A j \in Intent : a \notin Used(j)
    BY <1>2 DEF ConsentInv, ApprovalInv, Exclusive
<1>4. \A j \in Rows : sessions[j].used \subseteq Approval
    BY DEF Rows, Exists, ConsentInv, SessionInv, TypeOK, Session
<1>5. \A j \in Rows : \A b \in sessions[j].used : grants'[b] = grants[b]
    BY <1>2, <1>3, <1>4 DEF Used, Rows, ConsentInv, SessionInv, TypeOK
<1> SUFFICES ASSUME NEW j \in Intent, sessions'[j] # None
             PROVE  Spent(sessions'[j], grants') /\ Named(j, sessions'[j], grants')
    BY DEF Chains, Rows, Exists
<1>6. CASE j = i
    BY <1>1, <1>6
<1>7. CASE j # i
  <2>1. sessions'[j] = sessions[j] /\ j \in Rows
    BY <1>1, <1>7 DEF Rows, Exists
  <2>2. Spent(sessions[j], grants) /\ Named(j, sessions[j], grants)
    BY <2>1 DEF ConsentInv, Chains
  <2>3. \A b \in sessions[j].used : grants'[b] = grants[b]
    BY <1>5, <2>1
  <2>4. Kinds(sessions[j], grants') = Kinds(sessions[j], grants)
    BY <2>3 DEF Kinds
  <2>5. Spent(sessions[j], grants')
    BY <2>2, <2>3, <2>4 DEF Spent
  <2>6. Named(j, sessions[j], grants')
    BY <2>2, <2>3 DEF Named
  <2> QED
    BY <2>1, <2>5, <2>6
<1> QED
    BY <1>6, <1>7

\* Steps that issue nothing and leave alone, or close, what has a chain.
LEMMA KeepChains ==
    ASSUME ConsentInv, grants' = grants,
           \A j \in Intent : sessions'[j] # None =>
              \/ /\ sessions'[j].used = {}
                 /\ sessions'[j].state = "AWAITING_REQUIREMENT_CONFIRMATION"
                 /\ sessions'[j].acceptance = None
                 /\ sessions'[j].receipt = None
              \/ /\ Exists(j)
                 /\ sessions'[j].state \in Closed \cup {sessions[j].state}
                 /\ sessions'[j].used = sessions[j].used
                 /\ sessions'[j].acceptance = sessions[j].acceptance
                 /\ sessions'[j].receipt = sessions[j].receipt
    PROVE  Chains'
<1> SUFFICES ASSUME NEW j \in Intent, sessions'[j] # None
             PROVE  Spent(sessions'[j], grants) /\ Named(j, sessions'[j], grants)
    BY DEF Chains, Rows, Exists
<1>1. CASE /\ sessions'[j].used = {} /\ sessions'[j].state = "AWAITING_REQUIREMENT_CONFIRMATION"
           /\ sessions'[j].acceptance = None /\ sessions'[j].receipt = None
    BY <1>1, ConsentSteps DEF Spent, Named, Kinds
<1>2. CASE /\ Exists(j)
           /\ sessions'[j].state \in Closed \cup {sessions[j].state}
           /\ sessions'[j].used = sessions[j].used
           /\ sessions'[j].acceptance = sessions[j].acceptance
           /\ sessions'[j].receipt = sessions[j].receipt
  <2>1. Spent(sessions[j], grants) /\ Named(j, sessions[j], grants)
    BY <1>2 DEF ConsentInv, Chains, Rows
  <2>2. Kinds(sessions'[j], grants) = Kinds(sessions[j], grants)
    BY <1>2 DEF Kinds
  <2>3. Spent(sessions'[j], grants)
    BY <1>2, <2>1, <2>2 DEF Spent
  <2>4. Named(j, sessions'[j], grants)
    BY <1>2, <2>1 DEF Named
  <2> QED
    BY <2>3, <2>4
<1> QED
    BY <1>1, <1>2

\* What the guards of an issuing handler say of the approval it spends.
LEMMA SpendFacts ==
    ASSUME ConsentInv, NEW i \in Intent, NEW a \in Approval, NEW g \in Grant,
           Exists(i), g.intent = i, Issuable(i, a, g), Issue(a, g)
    PROVE  /\ a \notin sessions[i].used
           /\ grants'[a] = g
           /\ \A b \in sessions[i].used : grants'[b] = grants[b]
           /\ sessions[i] \in Session /\ Sound(sessions[i])
           /\ Spent(sessions[i], grants) /\ Named(i, sessions[i], grants)
<1>1. i \in Rows /\ SessionsOK
    BY DEF Rows, ConsentInv, SessionInv, TypeOK, SessionsOK
<1>2. sessions[i] \in Session
    BY <1>1, RowType
<1>3. sessions[i].used \subseteq Approval
    BY <1>2 DEF Session
<1>4. a \notin sessions[i].used /\ grants' = [grants EXCEPT ![a] = g]
    BY DEF Issuable, Issue
<1>5. /\ grants'[a] = g
      /\ \A b \in sessions[i].used : grants'[b] = grants[b]
    BY <1>3, <1>4 DEF ConsentInv, SessionInv, TypeOK
<1> QED
    BY <1>1, <1>2, <1>4, <1>5 DEF ConsentInv, SessionInv, AllSound, Chains

\* Every step keeps the chain of every session.
LEMMA NextChains ==
    ASSUME ConsentInv, [Next]_vars
    PROVE  Chains'
<1>0. TypeOK /\ SessionsOK
    BY DEF ConsentInv, SessionInv, TypeOK, SessionsOK
<1>1. ASSUME NEW i \in Intent, NEW c \in Time, NEW e \in Time, NEW p \in Portfolio \cup {None},
             NEW body \in Payload, Create(i, c, e, p, body)
      PROVE  Chains'
  <2> DEFINE new == Draft(c, e, p, None, body)
  <2>1. /\ new.used = {} /\ new.state = "AWAITING_REQUIREMENT_CONFIRMATION"
        /\ new.acceptance = None /\ new.receipt = None
    BY DEF Draft
  <2> HIDE DEF new
  <2>2. grants' = grants /\ sessions' = [sessions EXCEPT ![i] = new]
    BY <1>1 DEF Create, Save, new
  <2>3. sessions'[i] = new /\ \A j \in Intent \ {i} : sessions'[j] = sessions[j]
    BY <1>0, <2>2 DEF TypeOK
  <2> QED
    BY <2>1, <2>2, <2>3, KeepChains DEF Exists
<1>2. ASSUME NEW i \in Intent, NEW a \in Approval, Confirm(i, a)
      PROVE  Chains'
  <2> DEFINE s == sessions[i]
             g == [kind |-> "REQUIREMENT_CONFIRMATION", intent |-> i, offer |-> None]
             new == Confirmed(s, a)
  <2>1. g \in Grant /\ g.intent = i /\ g.kind = "REQUIREMENT_CONFIRMATION"
    BY DEF Grant, Kind
  <2>2. /\ Exists(i) /\ s.state = "AWAITING_REQUIREMENT_CONFIRMATION"
        /\ Issuable(i, a, g) /\ Issue(a, g) /\ Save(i, new)
    BY <1>2 DEF Confirm, InState
  <2> HIDE DEF g
  <2>3. /\ a \notin s.used /\ grants'[a] = g /\ \A b \in s.used : grants'[b] = grants[b]
        /\ s \in Session /\ Sound(s) /\ Spent(s, grants)
    BY <2>1, <2>2, SpendFacts
  <2> HIDE DEF s
  <2>4. /\ new \in Session /\ new.state = "AWAITING_DISPATCH_APPROVAL"
        /\ new.used = s.used \cup {a} /\ new.acceptance = s.acceptance
        /\ new.receipt = s.receipt
    BY <2>3, ConfirmedFields
  <2>5. s.acceptance = None /\ s.receipt = None
    BY <2>2, <2>3 DEF Sound, Agrees, Awaiting
  <2> HIDE DEF new
  <2>6. Spent(new, grants')
    <3>1. s.state \notin Closed /\ grants'[a].kind = "REQUIREMENT_CONFIRMATION"
      BY <2>1, <2>2, <2>3 DEF Closed
    <3>2. Consents(s.state) = {}
      BY <2>2, ConsentSteps
    <3>3. Consents(new.state) = Consents(s.state) \cup {grants'[a].kind}
      BY <2>4, <3>1, <3>2, ConsentSteps
    <3>4. grants'[a].kind \notin Consents(s.state)
      BY <3>1, <3>2
    <3> QED
      BY <2>3, <2>4, <3>1, <3>3, <3>4, ForwardSpent
  <2>7. Named(i, new, grants')
    BY <2>4, <2>5 DEF Named
  <2> QED
    BY <2>1, <2>2, <2>4, <2>6, <2>7, SpendChains
<1>3. ASSUME NEW i \in Intent, NEW a \in Approval, NEW valid \in [Offer -> Time \cup {None}],
             NEW winner \in Offer \cup {None}, Dispatch(i, a, valid, winner)
      PROVE  Chains'
  <2> DEFINE s == sessions[i]
             g == [kind |-> "PURCHASE_INTENT_DISPATCH", intent |-> i, offer |-> None]
             new == Ranked(s, a, Mapped(valid, winner))
  <2>1. g \in Grant /\ g.intent = i /\ g.kind = "PURCHASE_INTENT_DISPATCH"
    BY DEF Grant, Kind
  <2>2. /\ Exists(i) /\ s.state = "AWAITING_DISPATCH_APPROVAL"
        /\ Issuable(i, a, g) /\ Issue(a, g) /\ Save(i, new)
    BY <1>3 DEF Dispatch, InState
  <2> HIDE DEF g
  <2>3. /\ a \notin s.used /\ grants'[a] = g /\ \A b \in s.used : grants'[b] = grants[b]
        /\ s \in Session /\ Sound(s) /\ Spent(s, grants)
    BY <2>1, <2>2, SpendFacts
  <2> HIDE DEF s
  <2>4. /\ new \in Session /\ new.state = "OFFERS_RANKED"
        /\ new.used = s.used \cup {a} /\ new.acceptance = s.acceptance
        /\ new.receipt = s.receipt
    BY <2>3, MappedType, RankedFields
  <2>5. s.acceptance = None /\ s.receipt = None
    BY <2>2, <2>3 DEF Sound, Agrees, Awaiting
  <2> HIDE DEF new
  <2>6. Spent(new, grants')
    <3>1. s.state \notin Closed /\ grants'[a].kind = "PURCHASE_INTENT_DISPATCH"
      BY <2>1, <2>2, <2>3 DEF Closed
    <3>2. Consents(s.state) = {"REQUIREMENT_CONFIRMATION"}
      BY <2>2, ConsentSteps
    <3>3. Consents(new.state) = Consents(s.state) \cup {grants'[a].kind}
      BY <2>4, <3>1, <3>2, ConsentSteps
    <3>4. grants'[a].kind \notin Consents(s.state)
      BY <3>1, <3>2
    <3> QED
      BY <2>3, <2>4, <3>1, <3>3, <3>4, ForwardSpent
  <2>7. Named(i, new, grants')
    BY <2>4, <2>5 DEF Named
  <2> QED
    BY <2>1, <2>2, <2>4, <2>6, <2>7, SpendChains
<1>4. ASSUME NEW i \in Intent, NEW a \in Approval, NEW o \in Offer, Accept(i, a, o)
      PROVE  Chains'
  <2> DEFINE s == sessions[i]
             g == [kind |-> "OFFER_ACCEPTANCE", intent |-> i, offer |-> o]
             new == Accepted(s, a, o)
  <2>1. g \in Grant /\ g.intent = i /\ g.kind = "OFFER_ACCEPTANCE"
    BY DEF Grant, Kind
  <2>2. /\ Exists(i) /\ s.state = "OFFERS_RANKED" /\ s.offers[o] # None
        /\ Issuable(i, a, g) /\ Issue(a, g) /\ Save(i, new)
    BY <1>4 DEF Accept, Selectable, InState
  <2> HIDE DEF g
  <2>3. /\ a \notin s.used /\ grants'[a] = g /\ \A b \in s.used : grants'[b] = grants[b]
        /\ s \in Session /\ Sound(s) /\ Spent(s, grants)
    BY <2>1, <2>2, SpendFacts
  <2> HIDE DEF s
  <2>4. /\ new \in Session /\ new.state = "ACCEPTANCE_RECORDED"
        /\ new.used = s.used \cup {a} /\ new.receipt = s.receipt
        /\ new.acceptance = [offer |-> o, approval |-> a,
                             expires |-> Lesser(s.offers[o].until, s.expires)]
    <3>1. s \in Session /\ s.offers[o] # None
      BY <2>2, <2>3
    <3> QED
      BY <3>1, AcceptedFields
  <2>5. s.receipt = None
    BY <2>2, <2>3 DEF Sound, Agrees
  <2> HIDE DEF new
  <2>6. Spent(new, grants')
    BY <2>1, <2>2, <2>3, <2>4, ConsentSteps, ForwardSpent DEF Closed
  <2>7. Named(i, new, grants')
    <3>1. new.acceptance.approval = a /\ new.acceptance.offer = o
      BY <2>4
    <3> QED
      BY <2>3, <2>4, <2>5, <3>1 DEF Named, g
  <2> QED
    BY <2>1, <2>2, <2>4, <2>6, <2>7, SpendChains
<1>5. ASSUME NEW i \in Intent, NEW a \in Approval, NEW k \in Key, NEW e \in Time,
             Authorize(i, a, k, e)
      PROVE  Chains'
  <2> DEFINE s == sessions[i]
             g == [kind |-> "TRANSACTION_AUTHORIZATION", intent |-> i,
                   offer |-> s.acceptance.offer]
             r == [approval |-> a, key |-> k, at |-> now,
                   until |-> Lesser(s.acceptance.expires, e), replayUntil |-> e]
             new == Authorized(s, a, r)
  <2>0. /\ Exists(i) /\ s.state = "ACCEPTANCE_RECORDED" /\ s.acceptance # None
        /\ Issuable(i, a, g) /\ Issue(a, g) /\ Save(i, new)
    BY <1>5 DEF Authorize, AcceptanceBound, InState
  <2>1. s \in Session /\ s.acceptance.offer \in Offer /\ s.acceptance.expires \in Time
    BY <1>0, <2>0, RowType DEF Session, Acceptance
  <2>2. g \in Grant /\ g.intent = i /\ g.kind = "TRANSACTION_AUTHORIZATION"
    BY <2>1 DEF Grant, Kind
  <2>3. r \in Receipt /\ r.approval = a
    BY <1>0, <2>1, LesserFacts DEF Receipt, TypeOK
  <2> HIDE DEF g, r
  <2>4. /\ a \notin s.used /\ grants'[a] = g /\ \A b \in s.used : grants'[b] = grants[b]
        /\ Spent(s, grants) /\ Named(i, s, grants)
    BY <2>0, <2>2, SpendFacts
  <2> HIDE DEF s
  <2>5. /\ new \in Session /\ new.state = "TRANSACTION_AUTHORIZED_SIMULATED"
        /\ new.used = s.used \cup {a} /\ new.receipt = r
        /\ new.acceptance = s.acceptance
    BY <2>1, <2>3, AuthorizedFields
  <2> HIDE DEF new
  <2>6. Spent(new, grants')
    <3>1. Consents(s.state) = {"REQUIREMENT_CONFIRMATION", "PURCHASE_INTENT_DISPATCH",
                               "OFFER_ACCEPTANCE"}
      BY <2>0, ConsentSteps
    <3>2. g.kind \notin Consents(s.state)
      BY <2>2, <3>1
    <3> QED
      BY <2>0, <2>2, <2>4, <2>5, <3>2, ConsentSteps, ForwardSpent DEF Closed
  <2>7. Named(i, new, grants')
    BY <2>0, <2>3, <2>4, <2>5 DEF Named, g
  <2> QED
    BY <2>0, <2>2, <2>5, <2>6, <2>7, SpendChains
<1>6. ASSUME NEW i \in Intent, NEW p \in Portfolio, Cancel(i, p)
      PROVE  Chains'
  <2> DEFINE new == Cancelled(sessions[i])
  <2>1. Exists(i) /\ grants' = grants /\ sessions' = [sessions EXCEPT ![i] = new]
    BY <1>6 DEF Cancel, Closable, Owned, Save
  <2>2. /\ new.state \in Closed /\ new.used = sessions[i].used
        /\ new.acceptance = sessions[i].acceptance /\ new.receipt = sessions[i].receipt
    BY <1>0, <2>1, RowType, CancelledFields DEF Closed
  <2> HIDE DEF new
  <2>3. sessions'[i] = new /\ \A j \in Intent \ {i} : sessions'[j] = sessions[j]
    BY <1>0, <2>1 DEF TypeOK
  <2> QED
    BY <2>1, <2>2, <2>3, KeepChains DEF Exists
<1>7. ASSUME NEW i \in Intent, NEW j \in Intent \ {i}, NEW p \in Portfolio, NEW k \in Key,
             Replace(i, j, p, k)
      PROVE  Chains'
  <2> DEFINE old == Superseded(sessions[i], j)
             new == Draft(now, sessions[i].expires, p, i, "bare")
  <2>1. /\ Exists(i) /\ grants' = grants
        /\ sessions' = [sessions EXCEPT ![i] = old, ![j] = new]
    BY <1>7 DEF Replace, Owned
  <2>2. sessions[i] \in Session
    BY <1>0, <2>1, RowType
  <2>3. /\ old.state \in Closed /\ old.used = sessions[i].used
        /\ old.acceptance = sessions[i].acceptance /\ old.receipt = sessions[i].receipt
    BY <2>2, SupersededFields DEF Closed
  <2>4. /\ new.used = {} /\ new.state = "AWAITING_REQUIREMENT_CONFIRMATION"
        /\ new.acceptance = None /\ new.receipt = None
    BY DEF Draft
  <2> HIDE DEF old, new
  <2>5. /\ sessions'[i] = old /\ sessions'[j] = new
        /\ \A h \in Intent \ {i, j} : sessions'[h] = sessions[h]
    BY <1>0, <2>1 DEF TypeOK
  <2> QED
    BY <2>1, <2>3, <2>4, <2>5, KeepChains DEF Exists
<1>8. ASSUME NEW i \in Intent, NEW p \in Portfolio, Delete(i, p)
      PROVE  Chains'
  <2>1. grants' = grants /\ sessions' = [sessions EXCEPT ![i] = None]
    BY <1>8 DEF Delete, Save
  <2>2. sessions'[i] = None /\ \A j \in Intent \ {i} : sessions'[j] = sessions[j]
    BY <1>0, <2>1 DEF TypeOK
  <2> QED
    BY <2>1, <2>2, KeepChains DEF Exists
<1>9. ASSUME NEW i \in Intent, NEW p \in Portfolio, NEW flag \in BOOLEAN, SetSaved(i, p, flag)
      PROVE  Chains'
  <2> DEFINE new == [sessions[i] EXCEPT !.saved = flag]
  <2>1. Exists(i) /\ grants' = grants /\ sessions' = [sessions EXCEPT ![i] = new]
    BY <1>9 DEF SetSaved, Owned, Save
  <2>2. /\ new.state = sessions[i].state /\ new.used = sessions[i].used
        /\ new.acceptance = sessions[i].acceptance /\ new.receipt = sessions[i].receipt
    BY <1>0, <2>1, RowType, SavedFields
  <2> HIDE DEF new
  <2>3. sessions'[i] = new /\ \A j \in Intent \ {i} : sessions'[j] = sessions[j]
    BY <1>0, <2>1 DEF TypeOK
  <2> QED
    BY <2>1, <2>2, <2>3, KeepChains DEF Exists
<1>10. CASE Tick \/ UNCHANGED vars
  <2>1. sessions' = sessions /\ grants' = grants
    BY <1>10 DEF Tick, vars
  <2> QED
    BY <2>1, KeepChains DEF Exists
<1> QED
    BY <1>1, <1>2, <1>3, <1>4, <1>5, <1>6, <1>7, <1>8, <1>9, <1>10
    DEF Next, Command, Forward, PortfolioCommand

\* Nothing moves without its own approval: the grants a live request used are one
\* of each kind up to its state, all its own, and the acceptance and the receipt
\* name those for the accepted offer.
THEOREM ForwardByConsent == Spec => []ConsentChain
<1>1. Init => Chains
    BY DEF Init, Chains, Rows, Exists
<1>2. ConsentInv /\ [Next]_vars => Chains'
    BY NextChains
<1>3. ConsentInv => ConsentChain
  <2> SUFFICES ASSUME ConsentInv, NEW i \in Rows
               PROVE  /\ \A a \in sessions[i].used : grants[a] # None /\ grants[a].intent = i
                      /\ Spent(sessions[i], grants) /\ Named(i, sessions[i], grants)
    BY DEF ConsentChain, Spent, Named, Kinds
  <2>1. sessions[i].used \subseteq Approval /\ Used(i) = sessions[i].used
    BY DEF Rows, Exists, Used, ConsentInv, SessionInv, TypeOK, Session
  <2> QED
    BY <2>1 DEF Rows, ConsentInv, ApprovalInv, Exclusive, Chains
<1> QED
    BY SessionInvariance, ApprovalInvariance, <1>1, <1>2, <1>3, PTL DEF Spec, ConsentInv

---------------------------------------------------------------------------
(***************************************************************************)
(* What GoldenPath keeps beside its sessions: proofs that a replacement    *)
(* and its original name each other and the replace log names both, and    *)
(* that every idempotency record answers with the receipt it was written   *)
(* with.  Given the types, both invariants are inductive as they stand.    *)
(*                                                                         *)
(* Replace alone writes links and Authorize alone writes receipts; of the  *)
(* other handlers it is enough to know that they keep them, or that a      *)
(* session they create or delete has none.                                 *)
(***************************************************************************)

Unlinked(s) == s.replaces = None /\ s.replacedBy = None

\* Session n is linked as s was, and closed if s was.
Linked(s, n) ==
    /\ n.replaces = s.replaces /\ n.replacedBy = s.replacedBy
    /\ n.portfolio = s.portfolio /\ n.expires = s.expires
    /\ s.state \in Closed => n.state \in Closed

LinksKept ==
    \A j \in Intent :
        \/ Exists(j) /\ sessions'[j] # None /\ Linked(sessions[j], sessions'[j])
        \/ /\ Exists(j) => sessions'[j] = None /\ Unlinked(sessions[j])
           /\ sessions'[j] # None => Unlinked(sessions'[j])

ReceiptsKept ==
    \A j \in Intent :
        \/ Exists(j) /\ sessions'[j] # None /\ sessions'[j].receipt = sessions[j].receipt
        \/ /\ Exists(j) => sessions[j].receipt = None
           /\ sessions'[j] # None => sessions'[j].receipt = None

RecordsInv == TypeOK /\ ReplaceLinks /\ RecordedAnswer

---------------------------------------------------------------------------
\* Steps that keep the links and the log keep them right.
LEMMA LinksStay ==
    ASSUME RecordsInv, LinksKept, replaceLog' = replaceLog
    PROVE  ReplaceLinks'
<1>1. \A j \in Rows : sessions[j].replaces \in Intent \cup {None}
                      /\ sessions[j].replacedBy \in Intent \cup {None}
    BY DEF RecordsInv, TypeOK, Rows, Exists, Session
<1>2. \A p \in Portfolio, k \in Key : replaceLog[<<p, k>>] # None =>
          /\ replaceLog[<<p, k>>].original \in Intent
          /\ replaceLog[<<p, k>>].replacement \in Intent
    BY DEF RecordsInv, TypeOK, Replacement
<1>3. ASSUME NEW i \in Intent, sessions'[i] # None, sessions'[i].replacedBy # None
      PROVE  LET j == sessions'[i].replacedBy IN
             /\ sessions'[j] # None /\ sessions'[j].replaces = i
             /\ sessions'[i].state \in Closed
             /\ sessions'[j].portfolio = sessions'[i].portfolio
             /\ sessions'[j].expires = sessions'[i].expires
  <2> DEFINE j == sessions[i].replacedBy
  <2>1. Exists(i) /\ Linked(sessions[i], sessions'[i])
    BY <1>3 DEF LinksKept, Unlinked
  <2>2. j \in Intent /\ sessions'[i].replacedBy = j
    BY <1>1, <1>3, <2>1 DEF Rows, Linked
  <2>3. /\ Exists(j) /\ sessions[j].replaces = i
        /\ sessions[i].state \in Closed
        /\ sessions[j].portfolio = sessions[i].portfolio
        /\ sessions[j].expires = sessions[i].expires
    BY <1>3, <2>1, <2>2 DEF RecordsInv, ReplaceLinks, Rows
  <2>4. i # None
    BY NoneAssumption
  <2>5. sessions'[j] # None /\ Linked(sessions[j], sessions'[j])
    BY <2>2, <2>3, <2>4 DEF LinksKept, Unlinked
  <2> QED
    BY <2>1, <2>2, <2>3, <2>5 DEF Linked
<1>4. ASSUME NEW j \in Intent, sessions'[j] # None, sessions'[j].replaces # None
      PROVE  LET i == sessions'[j].replaces IN sessions'[i] # None /\ sessions'[i].replacedBy = j
  <2> DEFINE i == sessions[j].replaces
  <2>1. Exists(j) /\ Linked(sessions[j], sessions'[j])
    BY <1>4 DEF LinksKept, Unlinked
  <2>2. i \in Intent /\ sessions'[j].replaces = i
    BY <1>1, <1>4, <2>1 DEF Rows, Linked
  <2>3. Exists(i) /\ sessions[i].replacedBy = j
    BY <1>4, <2>1, <2>2 DEF RecordsInv, ReplaceLinks, Rows
  <2>4. j # None
    BY NoneAssumption
  <2>5. sessions'[i] # None /\ Linked(sessions[i], sessions'[i])
    BY <2>2, <2>3, <2>4 DEF LinksKept, Unlinked
  <2> QED
    BY <2>2, <2>3, <2>5 DEF Linked
<1>5. ASSUME NEW p \in Portfolio, NEW k \in Key, replaceLog[<<p, k>>] # None
      PROVE  LET r == replaceLog[<<p, k>>] IN
             /\ sessions'[r.original] # None /\ sessions'[r.original].portfolio = p
             /\ sessions'[r.replacement] # None /\ sessions'[r.replacement].portfolio = p
             /\ sessions'[r.original].replacedBy = r.replacement
  <2> DEFINE i == replaceLog[<<p, k>>].original
             j == replaceLog[<<p, k>>].replacement
  <2>1. i \in Intent /\ j \in Intent /\ i # None /\ j # None
    BY <1>2, <1>5, NoneAssumption
  <2>2. /\ Exists(i) /\ sessions[i].portfolio = p /\ Exists(j) /\ sessions[j].portfolio = p
        /\ sessions[i].replacedBy = j
    BY <1>5 DEF RecordsInv, ReplaceLinks, Owned
  <2>3. sessions[j].replaces = i
    BY <2>1, <2>2 DEF RecordsInv, ReplaceLinks, Rows
  <2>4. /\ sessions'[i] # None /\ Linked(sessions[i], sessions'[i])
        /\ sessions'[j] # None /\ Linked(sessions[j], sessions'[j])
    BY <2>1, <2>2, <2>3 DEF LinksKept, Unlinked
  <2> QED
    BY <2>2, <2>4 DEF Linked
<1> QED
    BY <1>3, <1>4, <1>5 DEF ReplaceLinks, Rows, Exists, Owned

\* Steps that keep the receipts and the idempotency records keep them matched.
LEMMA ReceiptsStay ==
    ASSUME RecordsInv, ReceiptsKept, idempotency' = idempotency, now <= now', now' \in Time
    PROVE  RecordedAnswer'
<1>1. ASSUME NEW i \in Intent, sessions'[i] # None, sessions'[i].receipt # None,
             now' < sessions'[i].receipt.replayUntil
      PROVE  LET r == sessions'[i].receipt IN
             idempotency[r.key] = [intent |-> i, expires |-> r.replayUntil]
  <2>1. Exists(i) /\ sessions'[i].receipt = sessions[i].receipt
    BY <1>1 DEF ReceiptsKept
  <2>2. sessions[i].receipt.replayUntil \in Time /\ now \in Time
    BY <1>1, <2>1 DEF RecordsInv, TypeOK, Exists, Session, Receipt
  <2>3. now < sessions[i].receipt.replayUntil
    BY <1>1, <2>1, <2>2, MaxTimeAssumption DEF Time
  <2> QED
    BY <1>1, <2>1, <2>3 DEF RecordsInv, RecordedAnswer, Rows
<1>2. ASSUME NEW k \in Key, idempotency[k] # None
      PROVE  LET i == idempotency[k].intent IN
             /\ sessions'[i] # None /\ sessions'[i].receipt # None
             /\ sessions'[i].receipt.key = k
             /\ sessions'[i].receipt.replayUntil = idempotency[k].expires
  <2> DEFINE i == idempotency[k].intent
  <2>1. i \in Intent
    BY <1>2 DEF RecordsInv, TypeOK, Record
  <2>2. /\ Exists(i) /\ sessions[i].receipt # None /\ sessions[i].receipt.key = k
        /\ sessions[i].receipt.replayUntil = idempotency[k].expires
    BY <1>2 DEF RecordsInv, RecordedAnswer
  <2>3. sessions'[i] # None /\ sessions'[i].receipt = sessions[i].receipt
    BY <2>1, <2>2 DEF ReceiptsKept
  <2> QED
    BY <2>2, <2>3
<1> QED
    BY <1>1, <1>2 DEF RecordedAnswer, Rows, Exists

\* Saving one session linked as it was, or a new one without links.
LEMMA SaveLinks ==
    ASSUME RecordsInv, NEW i \in Intent, NEW n \in Session, Save(i, n),
           \/ Exists(i) /\ Linked(sessions[i], n)
           \/ ~Exists(i) /\ Unlinked(n)
    PROVE  LinksKept
<1>1. n # None
    BY NoneAssumption
<1>2. sessions'[i] = n /\ \A j \in Intent \ {i} : sessions'[j] = sessions[j]
    BY DEF Save, RecordsInv, TypeOK
<1> QED
    BY <1>1, <1>2 DEF LinksKept, Linked, Exists

\* Saving one session with the receipt it had, or a new one without a receipt.
LEMMA SaveReceipts ==
    ASSUME RecordsInv, NEW i \in Intent, NEW n \in Session, Save(i, n),
           \/ Exists(i) /\ n.receipt = sessions[i].receipt
           \/ ~Exists(i) /\ n.receipt = None
    PROVE  ReceiptsKept
<1>1. n # None
    BY NoneAssumption
<1>2. sessions'[i] = n /\ \A j \in Intent \ {i} : sessions'[j] = sessions[j]
    BY DEF Save, RecordsInv, TypeOK
<1> QED
    BY <1>1, <1>2 DEF ReceiptsKept, Exists

\* A handler that saves a session and writes neither a link nor a receipt.
LEMMA SaveRecords ==
    ASSUME RecordsInv, NEW i \in Intent, NEW n \in Session, Save(i, n), Exists(i),
           Linked(sessions[i], n), n.receipt = sessions[i].receipt,
           UNCHANGED <<idempotency, replaceLog, now>>
    PROVE  ReplaceLinks' /\ RecordedAnswer'
<1>1. LinksKept /\ ReceiptsKept
    BY SaveLinks, SaveReceipts
<1>2. now <= now' /\ now' \in Time
    BY MaxTimeAssumption DEF RecordsInv, TypeOK, Time
<1> QED
    BY <1>1, <1>2, LinksStay, ReceiptsStay

\* Create writes a session that nothing refers to.
LEMMA CreateRecords ==
    ASSUME RecordsInv, NEW i \in Intent, NEW c \in Time, NEW e \in Time,
           NEW p \in Portfolio \cup {None}, NEW body \in Payload, Create(i, c, e, p, body)
    PROVE  ReplaceLinks' /\ RecordedAnswer'
<1> DEFINE new == Draft(c, e, p, None, body)
<1>1. new \in Session
    BY DraftType
<1>2. Unlinked(new) /\ new.receipt = None
    BY DEF Draft, Unlinked
<1>3. Save(i, new) /\ ~Exists(i) /\ UNCHANGED <<idempotency, replaceLog, now>>
    BY DEF Create
<1> HIDE DEF new
<1>4. LinksKept /\ ReceiptsKept
    BY <1>1, <1>2, <1>3, SaveLinks, SaveReceipts
<1>5. now <= now' /\ now' \in Time
    BY <1>3, MaxTimeAssumption DEF RecordsInv, TypeOK, Time
<1> QED
    BY <1>3, <1>4, <1>5, LinksStay, ReceiptsStay

\* Delete takes a draft that nothing refers to.
LEMMA DeleteRecords ==
    ASSUME RecordsInv, NEW i \in Intent, NEW p \in Portfolio, Delete(i, p)
    PROVE  ReplaceLinks' /\ RecordedAnswer'
<1>1. /\ Exists(i) /\ Unlinked(sessions[i]) /\ sessions[i].receipt = None
      /\ sessions' = [sessions EXCEPT ![i] = None]
      /\ UNCHANGED <<idempotency, replaceLog, now>>
    BY DEF Delete, Owned, Unlinked, Save
<1>2. sessions'[i] = None /\ \A j \in Intent \ {i} : sessions'[j] = sessions[j]
    BY <1>1 DEF RecordsInv, TypeOK
<1>3. LinksKept
    BY <1>1, <1>2 DEF LinksKept, Linked, Exists
<1>4. ReceiptsKept
    BY <1>1, <1>2 DEF ReceiptsKept, Exists
<1>5. now <= now' /\ now' \in Time
    BY <1>1, MaxTimeAssumption DEF RecordsInv, TypeOK, Time
<1> QED
    BY <1>1, <1>3, <1>4, <1>5, LinksStay, ReceiptsStay

\* Authorize writes the record together with its receipt; the scope was free, so
\* no receipt that may still be asked for loses its record.
LEMMA AuthorizeRecords ==
    ASSUME RecordsInv, NEW i \in Intent, NEW a \in Approval, NEW k \in Key, NEW e \in Time,
           Authorize(i, a, k, e)
    PROVE  ReplaceLinks' /\ RecordedAnswer'
<1> DEFINE s == sessions[i]
           r == [approval |-> a, key |-> k, at |-> now,
                 until |-> Lesser(s.acceptance.expires, e), replayUntil |-> e]
           new == Authorized(s, a, r)
<1>1. /\ Exists(i) /\ s.state = "ACCEPTANCE_RECORDED" /\ s.acceptance # None /\ s.receipt = None
      /\ ScopeFree(k) /\ Save(i, new)
      /\ idempotency' = [idempotency EXCEPT ![k] = [intent |-> i, expires |-> e]]
      /\ UNCHANGED <<replaceLog, now>>
    BY DEF Authorize, AcceptanceBound, InState
<1>2. s \in Session /\ s.acceptance.expires \in Time /\ now \in Time
    BY <1>1 DEF RecordsInv, TypeOK, Exists, Session, Acceptance
<1>3. r \in Receipt /\ r.key = k /\ r.replayUntil = e
    BY <1>2, LesserFacts DEF Receipt
<1> HIDE DEF r
<1>4. new \in Session /\ new.receipt = r /\ Linked(s, new)
    BY <1>1, <1>2, <1>3, AuthorizedFields DEF Linked, Closed
<1> HIDE DEF new
<1>5. new # None /\ r # None
    BY <1>3, <1>4, NoneAssumption
<1>6. sessions'[i] = new /\ \A j \in Intent \ {i} : sessions'[j] = sessions[j]
    BY <1>1 DEF Save, RecordsInv, TypeOK
<1>7. /\ idempotency'[k] = [intent |-> i, expires |-> e]
      /\ \A h \in Key \ {k} : idempotency'[h] = idempotency[h]
    BY <1>1 DEF RecordsInv, TypeOK
<1>8. ReplaceLinks'
    BY <1>1, <1>4, SaveLinks, LinksStay
<1>9. ASSUME NEW j \in Intent, sessions'[j] # None, sessions'[j].receipt # None,
             now' < sessions'[j].receipt.replayUntil
      PROVE  LET x == sessions'[j].receipt IN
             idempotency'[x.key] = [intent |-> j, expires |-> x.replayUntil]
  <2>1. CASE j = i
    BY <1>3, <1>4, <1>6, <1>7, <2>1
  <2>2. CASE j # i
    <3> DEFINE x == sessions[j].receipt
    <3>1. /\ sessions'[j] = sessions[j] /\ Exists(j) /\ x # None /\ now < x.replayUntil
          /\ idempotency[x.key] = [intent |-> j, expires |-> x.replayUntil]
      BY <1>1, <1>6, <1>9, <2>2 DEF RecordsInv, RecordedAnswer, Rows, Exists
    <3>2. x \in Receipt
      BY <3>1 DEF RecordsInv, TypeOK, Exists, Session
    <3>3. x.key \in Key /\ x.replayUntil \in Time
      BY <3>2 DEF Receipt
    <3>4. idempotency[x.key] # None /\ idempotency[x.key].expires = x.replayUntil
      <4>1. [intent |-> j, expires |-> x.replayUntil] \in Record
        BY <3>3 DEF Record
      <4> QED
        BY <3>1, <4>1, NoneAssumption
    <3>5. x.key # k
      BY <1>1, <1>2, <3>1, <3>3, <3>4, MaxTimeAssumption DEF ScopeFree, Time
    <3> QED
      BY <1>7, <3>1, <3>3, <3>5
  <2> QED
    BY <2>1, <2>2
<1>10. ASSUME NEW h \in Key, idempotency'[h] # None
       PROVE  LET j == idempotency'[h].intent IN
              /\ sessions'[j] # None /\ sessions'[j].receipt # None
              /\ sessions'[j].receipt.key = h
              /\ sessions'[j].receipt.replayUntil = idempotency'[h].expires
  <2>1. CASE h = k
    BY <1>3, <1>4, <1>5, <1>6, <1>7, <2>1
  <2>2. CASE h # k
    <3> DEFINE j == idempotency[h].intent
    <3>1. idempotency'[h] = idempotency[h]
      BY <1>7, <2>2
    <3>2. /\ Exists(j) /\ sessions[j].receipt # None /\ sessions[j].receipt.key = h
          /\ sessions[j].receipt.replayUntil = idempotency[h].expires
      BY <1>10, <3>1 DEF RecordsInv, RecordedAnswer
    <3>3. j \in Intent \ {i}
      BY <1>1, <1>10, <3>1, <3>2 DEF RecordsInv, TypeOK, Record
    <3> QED
      BY <1>6, <3>1, <3>2, <3>3 DEF Exists
  <2> QED
    BY <2>1, <2>2
<1> QED
    BY <1>8, <1>9, <1>10 DEF RecordedAnswer, Rows, Exists

\* Replace links a session nobody had replaced to one that did not exist.
LEMMA ReplaceRecords ==
    ASSUME RecordsInv, NEW i \in Intent, NEW j \in Intent \ {i}, NEW p \in Portfolio, NEW k \in Key,
           Replace(i, j, p, k)
    PROVE  ReplaceLinks' /\ RecordedAnswer'
<1> DEFINE s == sessions[i]
           old == Superseded(s, j)
           new == Draft(now, s.expires, p, i, "bare")
<1>1. /\ Exists(i) /\ s.portfolio = p /\ s.state \notin Closed /\ ~Exists(j)
      /\ sessions' = [sessions EXCEPT ![i] = old, ![j] = new]
      /\ replaceLog' = [replaceLog EXCEPT ![<<p, k>>] = [original |-> i, replacement |-> j]]
      /\ UNCHANGED <<idempotency, now>>
    BY DEF Replace, Closable, Owned
<1>2. s \in Session /\ now \in Time
    BY <1>1 DEF RecordsInv, TypeOK, Exists
<1>3. /\ old \in Session /\ old.state \in Closed /\ old.replacedBy = j
      /\ old.replaces = s.replaces /\ old.portfolio = s.portfolio
      /\ old.expires = s.expires /\ old.receipt = s.receipt
    BY <1>2, SupersededFields DEF Closed
<1>4. new \in Session
  <2>1. s.expires \in Time
    BY <1>2 DEF Session
  <2>2. "bare" \in Payload
    BY DEF Payload
  <2> QED
    BY <1>2, <2>1, <2>2, DraftType
<1>5. /\ new.replaces = i /\ new.replacedBy = None /\ new.portfolio = p
      /\ new.expires = s.expires /\ new.receipt = None
    BY DEF Draft
<1> HIDE DEF old, new
<1>6. /\ sessions'[i] = old /\ sessions'[j] = new
      /\ \A h \in Intent \ {i, j} : sessions'[h] = sessions[h]
    BY <1>1 DEF RecordsInv, TypeOK
<1>7. old # None /\ new # None /\ i # None /\ j # None
    BY <1>3, <1>4, NoneAssumption
<1>8. s.replacedBy = None
    BY <1>1 DEF RecordsInv, ReplaceLinks, Rows
<1>9. RecordedAnswer'
  <2>1. ReceiptsKept
    BY <1>1, <1>3, <1>5, <1>6, <1>7 DEF ReceiptsKept, Exists
  <2>2. now <= now' /\ now' \in Time
    BY <1>1, <1>2, MaxTimeAssumption DEF Time
  <2> QED
    BY <1>1, <2>1, <2>2, ReceiptsStay
<1>10. ASSUME NEW h \in Intent, sessions'[h] # None, sessions'[h].replacedBy # None
       PROVE  LET g == sessions'[h].replacedBy IN
              /\ sessions'[g] # None /\ sessions'[g].replaces = h
              /\ sessions'[h].state \in Closed
              /\ sessions'[g].portfolio = sessions'[h].portfolio
              /\ sessions'[g].expires = sessions'[h].expires
  <2>1. CASE h = i
    BY <1>1, <1>3, <1>5, <1>6, <1>7, <2>1
  <2>2. CASE h # i
    <3> DEFINE g == sessions[h].replacedBy
    <3>1. h # j /\ sessions'[h] = sessions[h] /\ Exists(h)
      BY <1>5, <1>6, <1>10, <2>2 DEF Exists
    <3>2. /\ Exists(g) /\ sessions[g].replaces = h /\ sessions[h].state \in Closed
          /\ sessions[g].portfolio = sessions[h].portfolio
          /\ sessions[g].expires = sessions[h].expires
      BY <1>10, <3>1 DEF RecordsInv, ReplaceLinks, Rows
    <3>3. g \in Intent \ {j}
      BY <1>1, <1>10, <3>1, <3>2 DEF RecordsInv, TypeOK, Exists, Session
    <3>4. /\ sessions'[g] # None /\ sessions'[g].replaces = sessions[g].replaces
          /\ sessions'[g].portfolio = sessions[g].portfolio
          /\ sessions'[g].expires = sessions[g].expires
      BY <1>3, <1>6, <1>7, <3>2, <3>3 DEF Exists
    <3> QED
      BY <3>1, <3>2, <3>4
  <2> QED
    BY <2>1, <2>2
<1>11. ASSUME NEW h \in Intent, sessions'[h] # None, sessions'[h].replaces # None
       PROVE  LET g == sessions'[h].replaces IN sessions'[g] # None /\ sessions'[g].replacedBy = h
  <2>1. CASE h = j
    BY <1>3, <1>5, <1>6, <1>7, <2>1
  <2>2. CASE h # j
    <3> DEFINE g == sessions[h].replaces
    <3>1. Exists(h) /\ sessions'[h].replaces = g
      BY <1>1, <1>3, <1>6, <1>11, <2>2 DEF Exists
    <3>2. Exists(g) /\ sessions[g].replacedBy = h
      BY <1>11, <3>1 DEF RecordsInv, ReplaceLinks, Rows
    <3>3. h # None
      BY NoneAssumption
    <3>4. g \in Intent \ {i, j}
      BY <1>1, <1>8, <1>11, <3>1, <3>2, <3>3 DEF RecordsInv, TypeOK, Exists, Session
    <3> QED
      BY <1>6, <3>1, <3>2, <3>4 DEF Exists
  <2> QED
    BY <2>1, <2>2
<1>12. ASSUME NEW q \in Portfolio, NEW h \in Key, replaceLog'[<<q, h>>] # None
       PROVE  LET r == replaceLog'[<<q, h>>] IN
              /\ sessions'[r.original] # None /\ sessions'[r.original].portfolio = q
              /\ sessions'[r.replacement] # None /\ sessions'[r.replacement].portfolio = q
              /\ sessions'[r.original].replacedBy = r.replacement
  <2>0. /\ replaceLog'[<<p, k>>] = [original |-> i, replacement |-> j]
        /\ <<q, h>> # <<p, k>> => replaceLog'[<<q, h>>] = replaceLog[<<q, h>>]
    BY <1>1 DEF RecordsInv, TypeOK
  <2>1. CASE <<q, h>> = <<p, k>>
    BY <1>1, <1>3, <1>5, <1>6, <1>7, <2>0, <2>1
  <2>2. CASE <<q, h>> # <<p, k>>
    <3> DEFINE x == replaceLog[<<q, h>>].original
               y == replaceLog[<<q, h>>].replacement
    <3>1. replaceLog'[<<q, h>>] = replaceLog[<<q, h>>]
      BY <2>0, <2>2
    <3>2. /\ Exists(x) /\ sessions[x].portfolio = q /\ Exists(y) /\ sessions[y].portfolio = q
          /\ sessions[x].replacedBy = y
      BY <1>12, <3>1 DEF RecordsInv, ReplaceLinks, Owned
    <3>3. x \in Intent /\ y \in Intent /\ y # None
      BY <1>12, <3>1, NoneAssumption DEF RecordsInv, TypeOK, Replacement
    <3>4. x # i /\ x # j /\ y # j
      BY <1>1, <1>8, <3>2, <3>3
    <3>5. /\ sessions'[x] = sessions[x]
          /\ sessions'[y] # None /\ sessions'[y].portfolio = sessions[y].portfolio
      BY <1>3, <1>6, <1>7, <3>2, <3>3, <3>4 DEF Exists
    <3> QED
      BY <3>1, <3>2, <3>5 DEF Exists
  <2> QED
    BY <2>1, <2>2
<1> QED
    BY <1>9, <1>10, <1>11, <1>12 DEF ReplaceLinks, Rows, Exists, Owned

\* Every step keeps the links and the records.
LEMMA NextRecords ==
    ASSUME RecordsInv, [Next]_vars
    PROVE  ReplaceLinks' /\ RecordedAnswer'
<1>0. SessionsOK
    BY DEF RecordsInv, TypeOK, SessionsOK
<1>1. ASSUME NEW i \in Intent, NEW c \in Time, NEW e \in Time, NEW p \in Portfolio \cup {None},
             NEW body \in Payload, Create(i, c, e, p, body)
      PROVE  ReplaceLinks' /\ RecordedAnswer'
    BY <1>1, CreateRecords
<1>2. ASSUME NEW i \in Intent, NEW a \in Approval, Confirm(i, a)
      PROVE  ReplaceLinks' /\ RecordedAnswer'
  <2> DEFINE s == sessions[i]
             new == Confirmed(s, a)
  <2>1. /\ Exists(i) /\ Save(i, new) /\ s.state \notin Closed
        /\ UNCHANGED <<idempotency, replaceLog, now>>
    BY <1>2 DEF Confirm, InState, Closed
  <2>2. s \in Session
    BY <1>0, <2>1, RowType
  <2> HIDE DEF s
  <2>3. new \in Session /\ Linked(s, new) /\ new.receipt = s.receipt
    BY <2>1, <2>2, ConfirmedFields DEF Linked, Closed
  <2> HIDE DEF new
  <2> QED
    BY <2>1, <2>3, SaveRecords DEF s
<1>3. ASSUME NEW i \in Intent, NEW a \in Approval, NEW valid \in [Offer -> Time \cup {None}],
             NEW winner \in Offer \cup {None}, Dispatch(i, a, valid, winner)
      PROVE  ReplaceLinks' /\ RecordedAnswer'
  <2> DEFINE s == sessions[i]
             new == Ranked(s, a, Mapped(valid, winner))
  <2>1. /\ Exists(i) /\ Save(i, new) /\ s.state \notin Closed
        /\ UNCHANGED <<idempotency, replaceLog, now>>
    BY <1>3 DEF Dispatch, InState, Closed
  <2>2. s \in Session
    BY <1>0, <2>1, RowType
  <2> HIDE DEF s
  <2>3. new \in Session /\ Linked(s, new) /\ new.receipt = s.receipt
    BY <2>1, <2>2, MappedType, RankedFields DEF Linked, Closed
  <2> HIDE DEF new
  <2> QED
    BY <2>1, <2>3, SaveRecords DEF s
<1>4. ASSUME NEW i \in Intent, NEW a \in Approval, NEW o \in Offer, Accept(i, a, o)
      PROVE  ReplaceLinks' /\ RecordedAnswer'
  <2> DEFINE s == sessions[i]
             new == Accepted(s, a, o)
  <2>1. /\ Exists(i) /\ Save(i, new) /\ s.offers[o] # None /\ s.state \notin Closed
        /\ UNCHANGED <<idempotency, replaceLog, now>>
    BY <1>4 DEF Accept, Selectable, InState, Closed
  <2>2. s \in Session
    BY <1>0, <2>1, RowType
  <2> HIDE DEF s
  <2>3. new \in Session /\ Linked(s, new) /\ new.receipt = s.receipt
    BY <2>1, <2>2, AcceptedFields DEF Linked, Closed
  <2> HIDE DEF new
  <2> QED
    BY <2>1, <2>3, SaveRecords DEF s
<1>5. ASSUME NEW i \in Intent, NEW a \in Approval, NEW k \in Key, NEW e \in Time,
             Authorize(i, a, k, e)
      PROVE  ReplaceLinks' /\ RecordedAnswer'
    BY <1>5, AuthorizeRecords
<1>6. ASSUME NEW i \in Intent, NEW p \in Portfolio, Cancel(i, p)
      PROVE  ReplaceLinks' /\ RecordedAnswer'
  <2> DEFINE s == sessions[i]
             new == Cancelled(s)
  <2>1. /\ Exists(i) /\ Save(i, new)
        /\ UNCHANGED <<idempotency, replaceLog, now>>
    BY <1>6 DEF Cancel, Closable, Owned
  <2>2. s \in Session
    BY <1>0, <2>1, RowType
  <2> HIDE DEF s
  <2>3. new \in Session /\ Linked(s, new) /\ new.receipt = s.receipt
    BY <2>1, <2>2, CancelledFields DEF Linked, Closed
  <2> HIDE DEF new
  <2> QED
    BY <2>1, <2>3, SaveRecords DEF s
<1>7. ASSUME NEW i \in Intent, NEW j \in Intent \ {i}, NEW p \in Portfolio, NEW k \in Key,
             Replace(i, j, p, k)
      PROVE  ReplaceLinks' /\ RecordedAnswer'
    BY <1>7, ReplaceRecords
<1>8. ASSUME NEW i \in Intent, NEW p \in Portfolio, Delete(i, p)
      PROVE  ReplaceLinks' /\ RecordedAnswer'
    BY <1>8, DeleteRecords
<1>9. ASSUME NEW i \in Intent, NEW p \in Portfolio, NEW flag \in BOOLEAN, SetSaved(i, p, flag)
      PROVE  ReplaceLinks' /\ RecordedAnswer'
  <2> DEFINE s == sessions[i]
             new == [s EXCEPT !.saved = flag]
  <2>1. /\ Exists(i) /\ Save(i, new)
        /\ UNCHANGED <<idempotency, replaceLog, now>>
    BY <1>9 DEF SetSaved, Owned
  <2>2. s \in Session
    BY <1>0, <2>1, RowType
  <2> HIDE DEF s
  <2>3. new \in Session /\ Linked(s, new) /\ new.receipt = s.receipt
    BY <2>1, <2>2, SavedFields DEF Linked, Closed
  <2> HIDE DEF new
  <2> QED
    BY <2>1, <2>3, SaveRecords DEF s
<1>10. CASE Tick \/ UNCHANGED vars
  <2>1. /\ UNCHANGED <<sessions, idempotency, replaceLog>>
        /\ now <= now' /\ now' \in Time
    BY <1>10, MaxTimeAssumption DEF Tick, vars, RecordsInv, TypeOK, Time
  <2>2. LinksKept
    BY <2>1 DEF LinksKept, Linked, Exists
  <2>3. ReceiptsKept
    BY <2>1 DEF ReceiptsKept, Exists
  <2> QED
    BY <2>1, <2>2, <2>3, LinksStay, ReceiptsStay
<1> QED
    BY <1>1, <1>2, <1>3, <1>4, <1>5, <1>6, <1>7, <1>8, <1>9, <1>10
    DEF Next, Command, Forward, PortfolioCommand

---------------------------------------------------------------------------
\* The types, the links and the records together are inductive.
THEOREM RecordsInvariance == Spec => []RecordsInv
<1>1. Init => RecordsInv
    BY InitTypeOK DEF Init, RecordsInv, ReplaceLinks, RecordedAnswer, Rows, Exists
<1>2. RecordsInv /\ [Next]_vars => RecordsInv'
    BY NextTypeOK, NextRecords DEF RecordsInv
<1> QED
    BY <1>1, <1>2, PTL DEF Spec

\* A replaced request and its replacement name each other, in one portfolio and
\* with one expiry, and the replace log of a portfolio names such pairs only.
THEOREM ReplacementsLinked == Spec => []ReplaceLinks
<1>1. RecordsInv => ReplaceLinks
    BY DEF RecordsInv
<1> QED
    BY RecordsInvariance, <1>1, PTL

\* While a scope can be replayed its record answers with the receipt it was
\* written with, and no record outlives the request it answers for.
THEOREM AnswersRecorded == Spec => []RecordedAnswer
<1>1. RecordsInv => RecordedAnswer
    BY DEF RecordsInv
<1> QED
    BY RecordsInvariance, <1>1, PTL

---------------------------------------------------------------------------
(***************************************************************************)
(* What the buyer is shown: proofs that no view of a request lies, that    *)
(* the task shown for it moves only along the table of transitions, and    *)
(* that a request shown as over stays over.                                *)
(*                                                                         *)
(* The argument: a step moves each session in one of six ways (Moves), so  *)
(* a collection, a ranking and an expired offer are recorded exactly when  *)
(* the session says so.                                                    *)
(***************************************************************************)
SameTerms(s, n) == n.offers = s.offers /\ n.acceptance = s.acceptance

\* A new draft.
Opens(n) == /\ n.state = "AWAITING_REQUIREMENT_CONFIRMATION" /\ n.pi = "DRAFT"
            /\ n.acceptance = None /\ \A o \in Offer : n.offers[o] = None

Stays(s, n) == n.state = s.state /\ n.pi = s.pi /\ SameTerms(s, n)

Confirms(s, n) ==
    /\ s.state = "AWAITING_REQUIREMENT_CONFIRMATION" /\ n.state = "AWAITING_DISPATCH_APPROVAL"
    /\ n.pi = "CONFIRMED"
    /\ SameTerms(s, n)

\* The offers are valid and at most one of them is recommended.
Dispatches(s, n) ==
    /\ s.state = "AWAITING_DISPATCH_APPROVAL" /\ n.state = "OFFERS_RANKED"
    /\ s.pi = "CONFIRMED" /\ n.pi = "DISPATCHED"
    /\ n.acceptance = s.acceptance
    /\ \A o \in Offer : n.offers[o] # None => now < n.offers[o].until
    /\ \A o, q \in Offer :
          (/\ n.offers[o] # None /\ n.offers[o].state = "RECOMMENDED"
           /\ n.offers[q] # None /\ n.offers[q].state = "RECOMMENDED") => o = q

Accepts(s, n) ==
    /\ s.state = "OFFERS_RANKED" /\ n.state = "ACCEPTANCE_RECORDED"
    /\ n.pi = s.pi
    /\ \E o \in Offer :
          /\ s.offers[o] # None /\ n.offers[o] # None /\ n.offers[o].state = "ACCEPTED"
          /\ \A q \in Offer \ {o} : n.offers[q] = s.offers[q]
          /\ n.acceptance # None /\ n.acceptance.offer = o

Authorizes(s, n) ==
    /\ s.state = "ACCEPTANCE_RECORDED" /\ n.state = "TRANSACTION_AUTHORIZED_SIMULATED"
    /\ n.pi = s.pi
    /\ SameTerms(s, n)

Ends(s, n) ==
    /\ s.state \notin Finished /\ n.state \in Closed
    /\ n.state = "SUPERSEDED" => s.state \in PostDispatch
    /\ n.pi \in {"CANCELLED", "CLOSED"}
    /\ SameTerms(s, n) /\ n.used = s.used

Moves(s, n) == \/ Stays(s, n) \/ Confirms(s, n) \/ Dispatches(s, n)
               \/ Accepts(s, n) \/ Authorizes(s, n) \/ Ends(s, n)

SessionsMove ==
    \A i \in Intent :
        /\ Exists(i) /\ sessions'[i] # None => Moves(sessions[i], sessions'[i])
        /\ ~Exists(i) /\ sessions'[i] # None => Opens(sessions'[i])
        /\ Exists(i) /\ sessions'[i] = None => Opens(sessions[i])

\* Saving one session moves that one and no other.
LEMMA SaveMoves ==
    ASSUME TypeOK, NEW i \in Intent, NEW n \in Session, Save(i, n),
           IF Exists(i) THEN Moves(sessions[i], n) ELSE Opens(n)
    PROVE  SessionsMove
<1>1. sessions'[i] = n /\ n # None /\ \A j \in Intent \ {i} : sessions'[j] = sessions[j]
    BY NoneAssumption DEF Save, TypeOK
<1>2. \A j \in Intent : Moves(sessions[j], sessions[j])
    BY DEF Moves, Stays, SameTerms
<1> QED
    BY <1>1, <1>2 DEF SessionsMove, Exists

\* The offers of a dispatch, at most one of them recommended.
LEMMA MappedOffers ==
    ASSUME NEW valid \in [Offer -> Time \cup {None}], NEW winner \in Offer \cup {None}, NEW o \in Offer
    PROVE  LET quotes == Mapped(valid, winner) IN
           /\ quotes[o] # None => /\ valid[o] # None /\ quotes[o].until = valid[o]
                                  /\ quotes[o].state = "RECOMMENDED" => o = winner
BY DEF Mapped

\* Every step moves every session in one of the ways above.
LEMMA NextMoves ==
    ASSUME SessionInv, [Next]_vars
    PROVE  SessionsMove
<1>0. /\ TypeOK /\ SessionsOK
      /\ \A i \in Intent : Exists(i) => Sound(sessions[i]) /\ sessions[i] \in Session
    BY RowType DEF SessionInv, TypeOK, SessionsOK, AllSound, Rows
<1>1. ASSUME NEW i \in Intent, NEW c \in Time, NEW e \in Time, NEW p \in Portfolio \cup {None},
             NEW body \in Payload, Create(i, c, e, p, body)
      PROVE  SessionsMove
  <2> DEFINE new == Draft(c, e, p, None, body)
  <2>1. new \in Session /\ Opens(new)
    BY DraftType DEF Draft, Opens
  <2>2. Save(i, new) /\ ~Exists(i)
    BY <1>1 DEF Create
  <2> HIDE DEF new
  <2> QED
    BY <1>0, <2>1, <2>2, SaveMoves
<1>2. ASSUME NEW i \in Intent, NEW a \in Approval, Confirm(i, a)
      PROVE  SessionsMove
  <2> DEFINE new == Confirmed(sessions[i], a)
  <2>1. /\ Exists(i) /\ Save(i, new) /\ sessions[i] \in Session
        /\ sessions[i].state = "AWAITING_REQUIREMENT_CONFIRMATION"
    BY <1>0, <1>2 DEF Confirm, InState
  <2>2. new \in Session /\ Confirms(sessions[i], new)
    BY <2>1, ConfirmedFields DEF Confirms, SameTerms
  <2> HIDE DEF new
  <2> QED
    BY <1>0, <2>1, <2>2, SaveMoves DEF Moves
<1>3. ASSUME NEW i \in Intent, NEW a \in Approval, NEW valid \in [Offer -> Time \cup {None}],
             NEW winner \in Offer \cup {None}, Dispatch(i, a, valid, winner)
      PROVE  SessionsMove
  <2> DEFINE quotes == Mapped(valid, winner)
             new == Ranked(sessions[i], a, quotes)
  <2>1. /\ Exists(i) /\ Save(i, new) /\ sessions[i] \in Session
        /\ sessions[i].state = "AWAITING_DISPATCH_APPROVAL" /\ sessions[i].pi = "CONFIRMED"
        /\ \A o \in Offer : valid[o] # None => now < valid[o]
    BY <1>0, <1>3 DEF Dispatch, InState
  <2>2. quotes \in [Offer -> Quote \cup {None}]
    BY MappedType
  <2>3. \A o \in Offer : quotes[o] # None =>
            now < quotes[o].until /\ (quotes[o].state = "RECOMMENDED" => o = winner)
    BY <2>1, MappedOffers
  <2> HIDE DEF quotes
  <2>4. new \in Session /\ Dispatches(sessions[i], new)
    BY <2>1, <2>2, <2>3, RankedFields DEF Dispatches
  <2> HIDE DEF new
  <2> QED
    BY <1>0, <2>1, <2>4, SaveMoves DEF Moves
<1>4. ASSUME NEW i \in Intent, NEW a \in Approval, NEW o \in Offer, Accept(i, a, o)
      PROVE  SessionsMove
  <2> DEFINE s == sessions[i]
             new == Accepted(s, a, o)
  <2>1. /\ Exists(i) /\ Save(i, new) /\ s \in Session
        /\ s.state = "OFFERS_RANKED" /\ s.offers[o] # None
    BY <1>0, <1>4 DEF Accept, InState, Selectable
  <2>2. new \in Session /\ new.state = "ACCEPTANCE_RECORDED" /\ new.pi = s.pi
        /\ new.offers = [s.offers EXCEPT ![o] = [state |-> "ACCEPTED", until |-> s.offers[o].until]]
        /\ new.acceptance = [offer |-> o, approval |-> a,
                             expires |-> Lesser(s.offers[o].until, s.expires)]
    BY <2>1, AcceptedFields
  <2>3. s.offers \in [Offer -> Quote \cup {None}] /\ s.expires \in Time
    BY <2>1 DEF Session
  <2>4. s.offers[o].until \in Time
    BY <2>1, <2>3 DEF Quote
  <2> HIDE DEF new
  <2>5. /\ new.offers[o] = [state |-> "ACCEPTED", until |-> s.offers[o].until]
        /\ \A q \in Offer \ {o} : new.offers[q] = s.offers[q]
    BY <2>2, <2>3
  <2>6. new.offers[o] \in Quote /\ new.acceptance \in Acceptance
    BY <2>2, <2>3, <2>4, <2>5, LesserFacts DEF Quote, Acceptance
  <2>7. new.offers[o] # None /\ new.acceptance # None /\ new.offers[o].state = "ACCEPTED"
        /\ new.acceptance.offer = o
    BY <2>2, <2>5, <2>6, NoneAssumption
  <2>8. Accepts(s, new)
    BY <2>1, <2>2, <2>5, <2>7 DEF Accepts
  <2> QED
    BY <1>0, <2>1, <2>2, <2>8, SaveMoves DEF Moves
<1>5. ASSUME NEW i \in Intent, NEW a \in Approval, NEW k \in Key, NEW e \in Time,
             Authorize(i, a, k, e)
      PROVE  SessionsMove
  <2> DEFINE s == sessions[i]
             r == [approval |-> a, key |-> k, at |-> now,
                   until |-> Lesser(s.acceptance.expires, e), replayUntil |-> e]
             new == Authorized(s, a, r)
  <2>1. /\ Exists(i) /\ Save(i, new) /\ s \in Session
        /\ s.state = "ACCEPTANCE_RECORDED" /\ s.acceptance # None
    BY <1>0, <1>5 DEF Authorize, AcceptanceBound, InState
  <2>2. s.acceptance.expires \in Time
    BY <2>1 DEF Session, Acceptance
  <2>3. r \in Receipt
    BY <1>0, <2>2, LesserFacts DEF Receipt, TypeOK
  <2> HIDE DEF r
  <2>4. new \in Session /\ Authorizes(s, new)
    BY <2>1, <2>3, AuthorizedFields DEF Authorizes, SameTerms
  <2> HIDE DEF new
  <2> QED
    BY <1>0, <2>1, <2>4, SaveMoves DEF Moves
<1>6. ASSUME NEW i \in Intent, NEW p \in Portfolio, Cancel(i, p)
      PROVE  SessionsMove
  <2> DEFINE new == Cancelled(sessions[i])
  <2>1. /\ Exists(i) /\ Save(i, new) /\ sessions[i] \in Session
        /\ sessions[i].state \notin Finished
    BY <1>0, <1>6 DEF Cancel, Closable, Owned, Finished
  <2>2. new \in Session /\ Ends(sessions[i], new)
    BY <2>1, CancelledFields DEF Ends, SameTerms, Closed
  <2> HIDE DEF new
  <2> QED
    BY <1>0, <2>1, <2>2, SaveMoves DEF Moves
<1>7. ASSUME NEW i \in Intent, NEW j \in Intent \ {i}, NEW p \in Portfolio, NEW k \in Key,
             Replace(i, j, p, k)
      PROVE  SessionsMove
  <2> DEFINE s == sessions[i]
             old == Superseded(s, j)
             new == Draft(now, s.expires, p, i, "bare")
  <2>1. /\ Exists(i) /\ ~Exists(j) /\ s \in Session /\ Sound(s) /\ s.state \notin Finished
        /\ sessions' = [sessions EXCEPT ![i] = old, ![j] = new]
    BY <1>0, <1>7 DEF Replace, Closable, Owned, Finished
  <2>2. /\ old \in Session /\ old.state \in Closed /\ old.pi \in {"CANCELLED", "CLOSED"}
        /\ SameTerms(s, old) /\ old.used = s.used
    BY <2>1, SupersededFields DEF SameTerms, Closed
  <2>3. old.state = "SUPERSEDED" => s.state \in PostDispatch
    <3>1. old.state = "SUPERSEDED" => s.pi = "DISPATCHED" \/ s.state \in PostDispatch
      BY <2>1 DEF Superseded, Session
    <3>2. s.pi = "DISPATCHED" => s.state \notin Awaiting \cup Closed
      BY <2>1 DEF Sound, Agrees, Awaiting, Closed
    <3>3. s.state \in BuyerState
      BY <2>1 DEF Session
    <3> QED
      BY <2>1, <3>1, <3>2, <3>3 DEF BuyerState, Finished
  <2>4. Ends(s, old)
    BY <2>1, <2>2, <2>3 DEF Ends
  <2>5. Opens(new)
    BY DEF Draft, Opens
  <2>6. new \in Session
    BY <1>0, <2>1, DraftType DEF Session, TypeOK, Payload
  <2> HIDE DEF old, new
  <2>7. /\ sessions'[i] = old /\ old # None /\ sessions'[j] = new /\ new # None
        /\ \A h \in Intent \ {i, j} : sessions'[h] = sessions[h]
    BY <1>0, <2>1, <2>2, <2>6, NoneAssumption DEF TypeOK
  <2>8. \A h \in Intent : Moves(sessions[h], sessions[h])
    BY DEF Moves, Stays, SameTerms
  <2> QED
    BY <2>1, <2>4, <2>5, <2>7, <2>8 DEF SessionsMove, Exists, Moves
<1>8. ASSUME NEW i \in Intent, NEW p \in Portfolio, Delete(i, p)
      PROVE  SessionsMove
  <2>1. /\ Opens(sessions[i]) /\ Exists(i)
        /\ sessions' = [sessions EXCEPT ![i] = None]
    BY <1>8 DEF Delete, Save, Opens, Owned
  <2>2. sessions'[i] = None /\ \A j \in Intent \ {i} : sessions'[j] = sessions[j]
    BY <1>0, <2>1 DEF TypeOK
  <2>3. \A h \in Intent : Moves(sessions[h], sessions[h])
    BY DEF Moves, Stays, SameTerms
  <2> QED
    BY <2>1, <2>2, <2>3 DEF SessionsMove, Exists
<1>9. ASSUME NEW i \in Intent, NEW p \in Portfolio, NEW flag \in BOOLEAN, SetSaved(i, p, flag)
      PROVE  SessionsMove
  <2> DEFINE new == [sessions[i] EXCEPT !.saved = flag]
  <2>1. Exists(i) /\ Save(i, new) /\ sessions[i] \in Session
    BY <1>0, <1>9 DEF SetSaved, Owned
  <2>2. new \in Session /\ Stays(sessions[i], new)
    BY <2>1, SavedFields DEF Stays, SameTerms
  <2> HIDE DEF new
  <2> QED
    BY <1>0, <2>1, <2>2, SaveMoves DEF Moves
<1>10. CASE Tick \/ UNCHANGED vars
  <2>1. sessions' = sessions
    BY <1>10 DEF Tick, vars
  <2>2. \A h \in Intent : Moves(sessions[h], sessions[h])
    BY DEF Moves, Stays, SameTerms
  <2> QED
    BY <2>1, <2>2 DEF SessionsMove, Exists
<1> QED
    BY <1>1, <1>2, <1>3, <1>4, <1>5, <1>6, <1>7, <1>8, <1>9, <1>10
    DEF Next, Command, Forward, PortfolioCommand

---------------------------------------------------------------------------
\* What the views keep of a request agrees with its session.
ViewTypes == /\ collection \subseteq Intent
             /\ ranked \in [Intent -> SUBSET Offer]
             /\ lapsed \subseteq Intent \X Offer

\* A request that ever had a dispatch approved holds a collection.
Collected == \A i \in Rows : i \notin collection =>
                \A a \in sessions[i].used : grants[a].kind # "PURCHASE_INTENT_DISPATCH"

\* The recommended offers among those ranked.
Marked(i, s) == {o \in ranked[i] : s.offers[o].state = "RECOMMENDED"}

\* Only offers of the session are ranked, and one of them is recommended until
\* it, or another one, is accepted.
RankedWith(i, s) ==
    /\ \A o \in ranked[i] : s.offers[o] # None
    /\ ranked[i] # {} =>
          \E o \in ranked[i] :
             \/ Marked(i, s) = {o}
             \/ Marked(i, s) = {} /\ s.acceptance # None /\ s.acceptance.offer = o

RankedOffers == \A i \in Intent : IF Exists(i) THEN RankedWith(i, sessions[i]) ELSE ranked[i] = {}

\* Nothing lapses but with a request that closed.
LapsedClosed ==
    \A i \in Intent, o \in Offer : <<i, o>> \in lapsed =>
        /\ Exists(i) /\ sessions[i].state \in Closed
        /\ sessions[i].offers[o] # None /\ now >= sessions[i].offers[o].until

ViewInv == ViewTypes /\ Collected /\ RankedOffers /\ LapsedClosed

\* A grant on record stays as it is, and no step takes an approval back.
LEMMA GrantsKept ==
    ASSUME ApprovalInv, [Next]_vars
    PROVE  \A i \in Rows : \A a \in sessions[i].used : grants[a] # None /\ grants'[a] = grants[a]
<1>1. TypeOK
    BY DEF ApprovalInv
<1>2. \A i \in Rows : \A a \in sessions[i].used : a \in Approval /\ grants[a] # None
    BY <1>1 DEF ApprovalInv, Exclusive, Used, Rows, Exists, TypeOK, Session
<1>3. \A a \in Approval : grants[a] # None => grants'[a] = grants[a]
    BY <1>1, KindsOfCommands DEF Spends, Closes, Keeps, TypeOK
<1> QED
    BY <1>2, <1>3

\* How far a live request has come tells whether it has a dispatch approval.
LEMMA DispatchConsented ==
    ASSUME NEW s, NEW gr, Spent(s, gr), s.state \in BuyerState \ Closed
    PROVE  (\E a \in s.used : gr[a].kind = "PURCHASE_INTENT_DISPATCH") <=> s.state \notin Awaiting
<1>1. {gr[a].kind : a \in s.used} = Consents(s.state)
    BY DEF Spent, Kinds
<1>2. "PURCHASE_INTENT_DISPATCH" \in Consents(s.state) <=> s.state \notin Awaiting
    BY ConsentSteps DEF BuyerState, Awaiting, PostDispatch, Closed
<1> QED
    BY <1>1, <1>2

\* The clock of a step.
LEMMA ClockSteps ==
    ASSUME Next
    PROVE  now' \in {now, now + 1}
<1>1. \A i \in Intent, c, e \in Time, p \in Portfolio \cup {None}, body \in Payload :
         Create(i, c, e, p, body) => now' = now
    BY DEF Create
<1>2. \A i \in Intent, a \in Approval : Confirm(i, a) => now' = now
    BY DEF Confirm
<1>3. \A i \in Intent, a \in Approval, valid \in [Offer -> Time \cup {None}], winner \in Offer \cup {None} :
         Dispatch(i, a, valid, winner) => now' = now
    BY DEF Dispatch
<1>4. \A i \in Intent, a \in Approval, o \in Offer : Accept(i, a, o) => now' = now
    BY DEF Accept
<1>5. \A i \in Intent, a \in Approval, k \in Key, e \in Time : Authorize(i, a, k, e) => now' = now
    BY DEF Authorize
<1>6. \A i \in Intent, p \in Portfolio : Cancel(i, p) \/ Delete(i, p) => now' = now
    BY DEF Cancel, Delete
<1>7. \A i, j \in Intent, p \in Portfolio, k \in Key : Replace(i, j, p, k) => now' = now
    BY DEF Replace
<1>8. \A i \in Intent, p \in Portfolio, flag \in BOOLEAN : SetSaved(i, p, flag) => now' = now
    BY DEF SetSaved
<1>9. Tick => now' = now + 1
    BY DEF Tick
<1> QED
    BY <1>1, <1>2, <1>3, <1>4, <1>5, <1>6, <1>7, <1>8, <1>9
    DEF Next, Command, Forward, PortfolioCommand

\* Init establishes what the views keep.
LEMMA InitViews == ViewInit => ViewInv
BY DEF ViewInit, Init, ViewInv, ViewTypes, Collected, RankedOffers, LapsedClosed, Rows, Exists

\* A step keeps the collections with their requests.
LEMMA NextCollected ==
    ASSUME ConsentInv, ConsentInv', Collected, ViewNext, SessionsMove
    PROVE  Collected'
<1> SUFFICES ASSUME NEW i \in Intent, sessions'[i] # None, i \notin collection',
                    NEW a \in sessions'[i].used, grants'[a].kind = "PURCHASE_INTENT_DISPATCH"
             PROVE  FALSE
    BY DEF Collected, Rows, Exists
<1>1. i \notin collection /\ sessions'[i].state # "OFFERS_RANKED"
    BY DEF ViewNext
<1>2. sessions'[i].state \notin Closed => sessions'[i].state \notin Awaiting
  <2>1. Spent(sessions'[i], grants') /\ sessions'[i].state \in BuyerState
    BY DEF ConsentInv, Chains, SessionInv, TypeOK, Session, Rows, Exists
  <2> QED
    BY <2>1, DispatchConsented
<1>3. CASE ~Exists(i)
    BY <1>2, <1>3 DEF SessionsMove, Opens, Awaiting, Closed
<1>4. CASE Exists(i)
  <2>1. Moves(sessions[i], sessions'[i])
    BY <1>4 DEF SessionsMove
  <2>2. sessions[i].state \notin Closed => sessions[i].state \in Awaiting
    <3>1. Spent(sessions[i], grants) /\ sessions[i].state \in BuyerState
      BY <1>4 DEF ConsentInv, Chains, SessionInv, TypeOK, Session, Rows, Exists
    <3>2. \A b \in sessions[i].used : grants[b].kind # "PURCHASE_INTENT_DISPATCH"
      BY <1>1, <1>4 DEF Collected, Rows
    <3> QED
      BY <3>1, <3>2, DispatchConsented
  <2>3. \A b \in sessions[i].used : grants'[b].kind # "PURCHASE_INTENT_DISPATCH"
    BY <1>1, <1>4, GrantsKept DEF ConsentInv, ViewNext, Collected, Rows
  <2>4. sessions'[i].used # sessions[i].used
    BY <2>3
  <2>5. sessions[i].state \in Finished => sessions'[i] = sessions[i]
    BY <1>4, NextSessions DEF ConsentInv, Follows, Rows, ViewNext
  <2>6. ~Ends(sessions[i], sessions'[i]) /\ sessions[i].state \notin Closed
    BY <2>4, <2>5 DEF Ends, Finished
  <2> QED
    BY <1>1, <1>2, <2>1, <2>2, <2>6
    DEF Moves, Stays, Confirms, Dispatches, Accepts, Authorizes, Awaiting, Closed
<1> QED
    BY <1>3, <1>4

\* The rankings of a step: new for the request it dispatches.
LEMMA RankedNext ==
    ASSUME ViewTypes, ViewNext, NEW i \in Intent
    PROVE  /\ ranked' \in [Intent -> SUBSET Offer]
           /\ i \notin Asked => ranked'[i] = ranked[i]
           /\ i \in Asked => ranked'[i] \in Rankings(sessions'[i].offers)
BY DEF ViewTypes, ViewNext, Asked, Rows

\* What a ranking holds.
LEMMA RankingFacts ==
    ASSUME NEW quotes, NEW R \in Rankings(quotes),
           \A o, q \in Offer :
              (/\ quotes[o] # None /\ quotes[o].state = "RECOMMENDED"
               /\ quotes[q] # None /\ quotes[q].state = "RECOMMENDED") => o = q
    PROVE  /\ \A o \in R : o \in Offer /\ quotes[o] # None
           /\ R # {} => \E o \in R : {q \in R : quotes[q].state = "RECOMMENDED"} = {o}
<1> DEFINE mapped == {o \in Offer : quotes[o] # None}
           winner == {o \in mapped : quotes[o].state = "RECOMMENDED"}
<1>1. CASE winner = {}
    BY <1>1 DEF Rankings
<1>2. CASE winner # {}
  <2>1. R \subseteq mapped /\ winner \subseteq R
    BY <1>2 DEF Rankings
  <2>2. PICK o \in winner : TRUE
    BY <1>2
  <2>3. \A q \in R : quotes[q].state = "RECOMMENDED" => q = o
    BY <2>1, <2>2
  <2> QED
    BY <2>1, <2>2, <2>3
<1> QED
    BY <1>1, <1>2

\* A step keeps one recommended offer in every ranking.
LEMMA NextRanked ==
    ASSUME SessionInv, ViewTypes, RankedOffers, ViewNext, SessionsMove
    PROVE  RankedOffers'
<1> SUFFICES ASSUME NEW i \in Intent
             PROVE  IF sessions'[i] # None THEN RankedWith(i, sessions[i])' ELSE ranked'[i] = {}
    BY DEF RankedOffers, Exists
<1>1. CASE ~Exists(i)
  <2>1. ranked'[i] = ranked[i] /\ ranked[i] = {}
    BY <1>1, RankedNext DEF RankedOffers, Asked, Rows
  <2> QED
    BY <2>1 DEF RankedWith
<1>2. CASE Exists(i) /\ sessions'[i] = None
  <2>1. Opens(sessions[i])
    BY <1>2 DEF SessionsMove
  <2>2. i \notin Asked
    BY <2>1 DEF Asked, Opens
  <2>3. ranked[i] = {}
    BY <1>2, <2>1 DEF RankedOffers, RankedWith, Opens, ViewTypes
  <2> QED
    BY <1>2, <2>2, <2>3, RankedNext
<1>3. CASE Exists(i) /\ sessions'[i] # None
  <2> DEFINE s == sessions[i]
             n == sessions'[i]
  <2>0. RankedWith(i, s) /\ Moves(s, n) /\ ranked[i] \subseteq Offer
    BY <1>3 DEF RankedOffers, SessionsMove, ViewTypes
  <2>1. CASE Dispatches(s, n)
    <3>1. i \in Asked
      BY <1>3, <2>1 DEF Dispatches, Asked, Rows
    <3>2. ranked'[i] \in Rankings(n.offers)
      BY <3>1, RankedNext
    <3>3. /\ \A o \in ranked'[i] : o \in Offer /\ n.offers[o] # None
          /\ ranked'[i] # {} =>
                \E o \in ranked'[i] : {q \in ranked'[i] : n.offers[q].state = "RECOMMENDED"} = {o}
      BY <2>1, <3>2, RankingFacts DEF Dispatches
    <3> QED
      BY <1>3, <3>3 DEF RankedWith, Marked
  <2>2. CASE Accepts(s, n)
    <3>1. i \notin Asked
      BY <2>2 DEF Accepts, Asked
    <3>2. ranked'[i] = ranked[i]
      BY <3>1, RankedNext
    <3>3. PICK o \in Offer : /\ s.offers[o] # None /\ n.offers[o] # None
                             /\ n.offers[o].state = "ACCEPTED"
                             /\ \A q \in Offer \ {o} : n.offers[q] = s.offers[q]
                             /\ n.acceptance # None /\ n.acceptance.offer = o
      BY <2>2 DEF Accepts
    <3>4. \A q \in ranked[i] : n.offers[q] # None
      BY <2>0, <3>3 DEF RankedWith
    <3>5. {q \in ranked[i] : n.offers[q].state = "RECOMMENDED"} = Marked(i, s) \ {o}
      BY <2>0, <3>3 DEF Marked
    <3>6. s.acceptance = None
      BY <1>3, <2>2 DEF Accepts, SessionInv, AllSound, Rows, Sound, Agrees
    <3>7. ranked[i] # {} => \E q \in ranked[i] : Marked(i, s) = {q}
      BY <2>0, <3>6 DEF RankedWith
    <3>8. ranked[i] # {} =>
            \E q \in ranked[i] : \/ {r \in ranked[i] : n.offers[r].state = "RECOMMENDED"} = {q}
                                 \/ /\ {r \in ranked[i] : n.offers[r].state = "RECOMMENDED"} = {}
                                    /\ n.acceptance # None /\ n.acceptance.offer = q
      BY <3>3, <3>5, <3>7
    <3> QED
      BY <1>3, <3>2, <3>4, <3>8 DEF RankedWith, Marked
  <2>3. CASE Stays(s, n) \/ Confirms(s, n) \/ Authorizes(s, n) \/ Ends(s, n)
    <3>1. i \notin Asked
      BY <2>3 DEF Stays, Confirms, Authorizes, Ends, Asked
    <3>2. ranked'[i] = ranked[i] /\ SameTerms(s, n)
      BY <2>3, <3>1, RankedNext DEF Stays, Confirms, Authorizes, Ends
    <3> QED
      BY <1>3, <2>0, <3>2 DEF RankedWith, Marked, SameTerms
  <2> QED
    BY <2>0, <2>1, <2>2, <2>3 DEF Moves
<1> QED
    BY <1>1, <1>2, <1>3 DEF RankedOffers, Exists

\* A step lapses offers only of the request it closes.
LEMMA NextLapsed ==
    ASSUME SessionInv, SessionInv', ViewTypes, LapsedClosed, ViewNext, SessionsMove
    PROVE  LapsedClosed'
<1> SUFFICES ASSUME NEW i \in Intent, NEW o \in Offer, <<i, o>> \in lapsed'
             PROVE  /\ sessions'[i] # None /\ sessions'[i].state \in Closed
                    /\ sessions'[i].offers[o] # None /\ now' >= sessions'[i].offers[o].until
    BY DEF LapsedClosed, Exists
<1>0. now' >= now /\ now \in Nat /\ now' \in Nat
    BY ClockSteps, MaxTimeAssumption DEF ViewNext, SessionInv, TypeOK, Time
<1>1. CASE <<i, o>> \in lapsed
  <2>1. /\ Exists(i) /\ sessions[i].state \in Closed
        /\ sessions[i].offers[o] # None /\ now >= sessions[i].offers[o].until
    BY <1>1 DEF LapsedClosed
  <2>2. sessions'[i] = sessions[i]
    BY <2>1, NextSessions DEF Follows, Finished, Rows, ViewNext
  <2>3. sessions[i].offers[o].until \in Nat
    BY <2>1, MaxTimeAssumption DEF SessionInv, TypeOK, Session, Exists, Quote, Time
  <2> QED
    BY <1>0, <2>1, <2>2, <2>3 DEF Exists
<1>2. CASE <<i, o>> \notin lapsed
  <2>1. /\ i \in Moved /\ sessions'[i].offers[o] # None
        /\ now >= sessions'[i].offers[o].until
    BY <1>2 DEF ViewNext
  <2>2. Exists(i) /\ sessions'[i] # None /\ sessions'[i].pi # sessions[i].pi
    BY <2>1 DEF Moved, Rows
  <2>3. Moves(sessions[i], sessions'[i])
    BY <2>2 DEF SessionsMove
  <2>4. sessions'[i].offers[o].until \in Nat
    BY <2>1, <2>2, MaxTimeAssumption DEF SessionInv, TypeOK, Session, Exists, Quote, Time
  <2>5. ~Dispatches(sessions[i], sessions'[i])
    BY <1>0, <2>1, <2>4 DEF Dispatches
  <2>6. ~Confirms(sessions[i], sessions'[i])
    BY <2>1, <2>2 DEF Confirms, SameTerms, SessionInv, AllSound, Rows, Sound, Agrees, Awaiting
  <2>7. sessions'[i].state \in Closed
    BY <2>2, <2>3, <2>5, <2>6 DEF Moves, Stays, Accepts, Authorizes, Ends
  <2> QED
    BY <1>0, <2>1, <2>2, <2>4, <2>7
<1> QED
    BY <1>1, <1>2

\* Every step keeps what the views keep in agreement with the sessions.
LEMMA NextViews == ConsentInv /\ ConsentInv' /\ ViewInv /\ [ViewNext]_viewVars => ViewInv'
<1> SUFFICES ASSUME ConsentInv, ConsentInv', ViewInv, [ViewNext]_viewVars
             PROVE  ViewInv'
    OBVIOUS
<1>1. CASE ViewNext
  <2>1. [Next]_vars /\ SessionInv /\ SessionInv'
    BY <1>1 DEF ViewNext, ConsentInv
  <2>2. SessionsMove
    BY <2>1, NextMoves
  <2>3. ViewTypes'
    <3>1. collection' \subseteq Intent /\ lapsed' \subseteq Intent \X Offer
      BY <1>1 DEF ViewNext, ViewInv, ViewTypes, Moved, Rows
    <3>2. ranked' \in [Intent -> SUBSET Offer]
      BY <1>1 DEF ViewNext, ViewInv, ViewTypes
    <3> QED
      BY <3>1, <3>2 DEF ViewTypes
  <2> QED
    BY <1>1, <2>1, <2>2, <2>3, NextCollected, NextRanked, NextLapsed DEF ViewInv
<1>2. CASE UNCHANGED viewVars
    BY <1>2 DEF viewVars, vars, ViewInv, ViewTypes, Collected, RankedOffers, RankedWith, Marked,
                LapsedClosed, Rows, Exists
<1> QED
    BY <1>1, <1>2

\* The approvals and the sessions always agree.
LEMMA ConsentInvariance == Spec => []ConsentInv
<1>1. Init => Chains
    BY DEF Init, Chains, Rows, Exists
<1>2. ConsentInv /\ [Next]_vars => Chains'
    BY NextChains
<1> QED
    BY SessionInvariance, ApprovalInvariance, <1>1, <1>2, PTL DEF Spec, ConsentInv

---------------------------------------------------------------------------
\* The views of orchestration.py and _snapshot only watch: what they are shown is a
\* behaviour of the facade.
THEOREM ViewsOnlyWatch == ViewSpec => Spec
<1>1. ViewInit => Init
    BY DEF ViewInit
<1>2. [ViewNext]_viewVars => [Next]_vars
    BY DEF ViewNext, viewVars
<1> QED
    BY <1>1, <1>2, PTL DEF ViewSpec, Spec

\* The parts of a session that only views read agree with the rest: a dispatch that was
\* approved left a collection, only offers of the session are ranked and one of them is
\* recommended until one is accepted, and offers lapse with requests that closed
\* (golden_path.py:512-530, 880-917).
THEOREM ViewInvariance == ViewSpec => []ViewInv
<1>1. ViewSpec => []ConsentInv
    BY ViewsOnlyWatch, ConsentInvariance, PTL
<1> QED
    BY <1>1, InitViews, NextViews, PTL DEF ViewSpec

\* What is read from the views of one request, in terms of its session.
LEMMA Readings ==
    ASSUME SessionInv, ViewInv, NEW i \in Rows
    PROVE  /\ ranked[i] \subseteq Offer
           /\ AcceptedOffer(i) =
                 IF sessions[i].acceptance = None THEN {} ELSE {sessions[i].acceptance.offer}
           /\ Selected(i) = AcceptedOffer(i) \cap ranked[i]
           /\ ranked[i] # {} => \E o \in ranked[i] : Recommended(i) = {o}
           /\ ranked[i] = {} => Recommended(i) = {}
           /\ sessions[i].state \in Awaiting => ranked[i] = {}
<1>1. i \in Intent /\ Exists(i) /\ ranked[i] \subseteq Offer /\ RankedWith(i, sessions[i])
    BY DEF Rows, ViewInv, ViewTypes, RankedOffers
<1>2. Recommended(i) = IF Marked(i, sessions[i]) # {} \/ sessions[i].acceptance = None
                       THEN Marked(i, sessions[i])
                       ELSE {sessions[i].acceptance.offer} \cap ranked[i]
    BY DEF Recommended, Marked
<1>3. ranked[i] # {} => \E o \in ranked[i] : Recommended(i) = {o}
  <2> SUFFICES ASSUME ranked[i] # {}
               PROVE  \E o \in ranked[i] : Recommended(i) = {o}
      OBVIOUS
  <2>1. PICK o \in ranked[i] :
           \/ Marked(i, sessions[i]) = {o}
           \/ /\ Marked(i, sessions[i]) = {}
              /\ sessions[i].acceptance # None /\ sessions[i].acceptance.offer = o
      BY <1>1 DEF RankedWith
  <2> QED
      BY <1>2, <2>1
<1>4. ranked[i] = {} => Recommended(i) = {}
    BY <1>2 DEF Marked
<1>5. sessions[i].state \in Awaiting => ranked[i] = {}
    BY <1>1 DEF SessionInv, AllSound, Rows, Sound, Agrees, RankedWith
<1> QED
    BY <1>1, <1>3, <1>4, <1>5 DEF Selected, AcceptedOffer

\* The task of each state.
LEMMA TaskStates ==
    \A s : /\ s.state = "AWAITING_REQUIREMENT_CONFIRMATION" => TaskState(s) = "a1_review"
           /\ s.state = "AWAITING_DISPATCH_APPROVAL" => TaskState(s) = "a2_required"
           /\ s.state = "OFFERS_RANKED" => TaskState(s) = "offers_ready"
           /\ s.state = "ACCEPTANCE_RECORDED" => TaskState(s) = "a4_required"
           /\ s.state = "TRANSACTION_AUTHORIZED_SIMULATED" => TaskState(s) = "authorized_simulated"
           /\ s.state = "CANCELLED" => TaskState(s) = "cancelled"
           /\ s.state = "SUPERSEDED" => TaskState(s) = "superseded"
BY DEF TaskState

\* The parent of one task, by the overlay and the state.
LEMMA Parents ==
    /\ \A present : /\ ProjectIntentState("cancelled", present) = "cancelled"
                    /\ ProjectIntentState("deleted", present) = "deleted"
    /\ \A t \in {"a1_review", "a2_required", "a4_required"} :
          ProjectIntentState("none", {t}) = "attention"
    /\ ProjectIntentState("none", {"offers_ready"}) = "offers_ready"
    /\ ProjectIntentState("none", {"authorized_simulated"}) = "completed_simulated"
<1>1. \A present : /\ ProjectIntentState("cancelled", present) = "cancelled"
                   /\ ProjectIntentState("deleted", present) = "deleted"
    BY DEF ProjectIntentState
<1>2. \A t, X : {t} # {} /\ ({t} \subseteq X <=> t \in X) /\ ({t} \cap X # {} <=> t \in X)
    OBVIOUS
<1>3. ASSUME NEW t \in {"a1_review", "a2_required", "a4_required"}
      PROVE  ProjectIntentState("none", {t}) = "attention"
    BY <1>2 DEF ProjectIntentState, LiveCompletion, SimulationTerminal, LiveAuth, Attention
<1>4. ProjectIntentState("none", {"offers_ready"}) = "offers_ready"
    BY <1>2 DEF ProjectIntentState, LiveCompletion, SimulationTerminal, LiveAuth, Attention, OfferReady
<1>5. ProjectIntentState("none", {"authorized_simulated"}) = "completed_simulated"
    BY <1>2 DEF ProjectIntentState, LiveCompletion, SimulationTerminal
<1> QED
    BY <1>1, <1>3, <1>4, <1>5

\* The parent is over exactly when the request is finished, and deleted only if
\* it was cancelled without a collection.
LEMMA ParentOf ==
    ASSUME SessionInv, NEW i \in Rows
    PROVE  /\ Parent(i) \in {"deleted", "cancelled", "completed_simulated"}
                 <=> sessions[i].state \in Finished
           /\ Parent(i) = "deleted" => sessions[i].state = "CANCELLED" /\ i \notin collection
<1>1. sessions[i].state \in BuyerState
    BY DEF SessionInv, TypeOK, Rows, Exists, Session
<1>2. CASE sessions[i].state \in Closed
  <2>1. \/ Overlay(i) = "cancelled"
        \/ Overlay(i) = "deleted" /\ sessions[i].state = "CANCELLED" /\ i \notin collection
    BY <1>2 DEF Overlay, Closed, Dispatched
  <2>2. \/ Parent(i) = "cancelled"
        \/ Parent(i) = "deleted" /\ sessions[i].state = "CANCELLED" /\ i \notin collection
    BY <2>1, Parents DEF Parent
  <2> QED
    BY <1>2, <2>2 DEF Finished
<1>3. CASE sessions[i].state \notin Closed
  <2>1. Overlay(i) = "none"
    BY <1>3 DEF Overlay, Closed
  <2>2. Parent(i) = ProjectIntentState("none", {TaskState(sessions[i])})
    BY <2>1 DEF Parent
  <2>3. sessions[i].state = "TRANSACTION_AUTHORIZED_SIMULATED" => Parent(i) = "completed_simulated"
    BY <2>2, TaskStates, Parents
  <2>4. sessions[i].state # "TRANSACTION_AUTHORIZED_SIMULATED" => Parent(i) \in {"attention", "offers_ready"}
    BY <1>1, <1>3, <2>2, TaskStates, Parents DEF BuyerState, Awaiting, PostDispatch
  <2> QED
    BY <1>3, <2>3, <2>4 DEF Finished
<1> QED
    BY <1>2, <1>3

\* The three buckets of the ledger, by the state.
LEMMA LedgerRows ==
    ASSUME NEW i
    PROVE  LET s == sessions[i] IN
           /\ s.state = "TRANSACTION_AUTHORIZED_SIMULATED" =>
                 LedgerRow(i) = Row(IF Selected(i) # {} THEN Selected(i) ELSE Recommended(i), {}, {})
           /\ s.state = "ACCEPTANCE_RECORDED" => LedgerRow(i) = Row({}, Selected(i), {})
           /\ s.state \in Awaiting \cup {"OFFERS_RANKED"} => LedgerRow(i) = Row({}, {}, Recommended(i))
           /\ s.state \in Closed => LedgerRow(i) = Row({}, {}, {})
<1> DEFINE t == TaskState(sessions[i])
<1>1. LedgerRow(i) =
        CASE t = "authorized_simulated" ->
                Row(IF Selected(i) # {} THEN Selected(i) ELSE Recommended(i), {}, {})
          [] t = "a4_required" -> Row({}, Selected(i), {})
          [] t \in {"offers_ready", "a1_review", "a2_required"} -> Row({}, {}, Recommended(i))
          [] OTHER -> Row({}, {}, {})
    BY DEF LedgerRow
<1> HIDE DEF t
<1>2. /\ t = "authorized_simulated" =>
           LedgerRow(i) = Row(IF Selected(i) # {} THEN Selected(i) ELSE Recommended(i), {}, {})
      /\ t = "a4_required" => LedgerRow(i) = Row({}, Selected(i), {})
      /\ t \in {"offers_ready", "a1_review", "a2_required"} => LedgerRow(i) = Row({}, {}, Recommended(i))
      /\ t \in {"cancelled", "superseded"} => LedgerRow(i) = Row({}, {}, {})
    BY <1>1
<1> USE DEF t
<1> QED
    BY <1>2, TaskStates DEF Awaiting, Closed

\* The ledger and the snapshot agree with the session.
LEMMA LedgerAgrees ==
    ASSUME SessionInv, ViewInv
    PROVE  LedgerTruthful
<1> SUFFICES ASSUME NEW i \in Rows
             PROVE  LET s == sessions[i]
                        shown == Snapshot(i)
                        accepted == IF s.acceptance = None THEN {} ELSE {s.acceptance.offer}
                        row == LedgerRow(i) IN
       /\ s.receipt = None => row.authorizedSimulated = {}
       /\ s.receipt # None => row.authorizedSimulated =
             IF accepted \subseteq ranked[i] THEN accepted ELSE shown.recommended
       /\ row.selectedNotAuthorized =
             IF s.receipt = None /\ s.state \notin Closed THEN accepted \cap ranked[i] ELSE {}
       /\ row.estimated # {} => s.state = "OFFERS_RANKED"
       /\ {o \in ranked[i] : shown.offers[o].result = "authorized_simulated"} =
             IF s.receipt # None THEN accepted \cap ranked[i] ELSE {}
       /\ shown.transaction => shown.acceptance # {} /\ shown.acceptance = accepted
       /\ ranked[i] # {} => \E o \in ranked[i] : shown.recommended = {o}
       /\ \A o \in ranked[i] : shown.offers[o].validity = "expired" =>
             /\ s.state \in Closed
             /\ now >= s.offers[o].until
    BY DEF LedgerTruthful
<1> DEFINE s == sessions[i]
           accepted == IF s.acceptance = None THEN {} ELSE {s.acceptance.offer}
           row == LedgerRow(i)
<1>1. i \in Intent /\ Exists(i) /\ Agrees(s) /\ s.state \in BuyerState
    BY DEF Rows, Exists, SessionInv, AllSound, Sound, TypeOK, Session
<1>2. /\ ranked[i] \subseteq Offer
      /\ AcceptedOffer(i) = accepted
      /\ Selected(i) = accepted \cap ranked[i]
      /\ ranked[i] # {} => \E o \in ranked[i] : Recommended(i) = {o}
      /\ s.state \in Awaiting => Recommended(i) = {}
    BY Readings
<1>3. /\ Snapshot(i).transaction <=> s.receipt # None
      /\ Snapshot(i).acceptance = accepted
      /\ Snapshot(i).recommended = Recommended(i)
    BY <1>2 DEF Snapshot
<1>4. s.receipt = None => row.authorizedSimulated = {}
    BY <1>1, LedgerRows DEF Agrees, Row, BuyerState, Awaiting, PostDispatch, Closed
<1>5. s.receipt # None => accepted # {} /\ s.state = "TRANSACTION_AUTHORIZED_SIMULATED"
    BY <1>1 DEF Agrees
<1>6. s.receipt # None => row.authorizedSimulated =
             IF accepted \subseteq ranked[i] THEN accepted ELSE Recommended(i)
  <2> SUFFICES ASSUME s.receipt # None
               PROVE  row.authorizedSimulated =
                         IF accepted \subseteq ranked[i] THEN accepted ELSE Recommended(i)
      OBVIOUS
  <2>1. row.authorizedSimulated = IF Selected(i) # {} THEN Selected(i) ELSE Recommended(i)
    BY <1>5, LedgerRows DEF Row
  <2>2. PICK o : accepted = {o}
    BY <1>5
  <2> HIDE DEF s, accepted, row
  <2>3. CASE o \in ranked[i]
    <3>1. accepted \subseteq ranked[i] /\ accepted \cap ranked[i] = accepted /\ accepted # {}
      BY <2>2, <2>3
    <3> QED
      BY <1>2, <2>1, <3>1
  <2>4. CASE o \notin ranked[i]
    <3>1. ~(accepted \subseteq ranked[i]) /\ accepted \cap ranked[i] = {}
      BY <2>2, <2>4
    <3> QED
      BY <1>2, <2>1, <3>1
  <2> QED
    BY <2>3, <2>4
<1>7. row.selectedNotAuthorized =
             IF s.receipt = None /\ s.state \notin Closed THEN accepted \cap ranked[i] ELSE {}
  <2>1. row.selectedNotAuthorized =
           IF s.state = "ACCEPTANCE_RECORDED" THEN accepted \cap ranked[i] ELSE {}
    <3>1. CASE s.state = "ACCEPTANCE_RECORDED"
      BY <1>2, <3>1, LedgerRows DEF Row
    <3>2. CASE s.state # "ACCEPTANCE_RECORDED"
      BY <1>1, <3>2, LedgerRows DEF Row, BuyerState, PostDispatch
    <3> QED
      BY <3>1, <3>2
  <2>2. s.receipt = None /\ s.state \notin Closed /\ s.state # "ACCEPTANCE_RECORDED" => accepted = {}
    BY <1>1 DEF Agrees, BuyerState, PostDispatch
  <2>3. s.state = "ACCEPTANCE_RECORDED" => s.receipt = None /\ s.state \notin Closed
    BY <1>1 DEF Agrees, Closed
  <2> HIDE DEF s, accepted, row
  <2> QED
    BY <2>1, <2>2, <2>3
<1>8. row.estimated # {} => s.state = "OFFERS_RANKED"
    BY <1>1, <1>2, LedgerRows DEF Row, BuyerState, Awaiting, PostDispatch, Closed
<1>9. \A o \in ranked[i] :
         /\ Snapshot(i).offers[o].result = TransactionResult(i, o)
         /\ Snapshot(i).offers[o].validity = Validity(i, o)
    BY DEF Snapshot, BuyerOffer
<1>10. {o \in ranked[i] : Snapshot(i).offers[o].result = "authorized_simulated"} =
             IF s.receipt # None THEN accepted \cap ranked[i] ELSE {}
  <2>1. \A o \in ranked[i] : Snapshot(i).offers[o].result = "authorized_simulated"
                                <=> s.receipt # None /\ o \in accepted
    BY <1>1, <1>2, <1>9 DEF TransactionResult, Agrees
  <2> HIDE DEF s, accepted
  <2> QED
    BY <2>1
<1>11. \A o \in ranked[i] : Snapshot(i).offers[o].validity = "expired" =>
             s.state \in Closed /\ now >= s.offers[o].until
    BY <1>1, <1>2, <1>9 DEF Validity, ViewInv, LapsedClosed
<1> HIDE DEF s, accepted, row
<1>12. /\ s.receipt # None => row.authorizedSimulated =
             IF accepted \subseteq ranked[i] THEN accepted ELSE Snapshot(i).recommended
       /\ Snapshot(i).transaction => Snapshot(i).acceptance # {} /\ Snapshot(i).acceptance = accepted
       /\ ranked[i] # {} => \E o \in ranked[i] : Snapshot(i).recommended = {o}
    BY <1>2, <1>3, <1>5, <1>6
<1> USE DEF s, accepted, row
<1> QED
    BY <1>4, <1>7, <1>8, <1>10, <1>11, <1>12

\* No buyer is told that a request is gone, or what it has cost, other than it
\* is, for any number of requests, offers and approvals and any clock
\* (orchestration.py:163-225, golden_path.py:880-917).
THEOREM ViewsTruthful == ViewSpec => []ShownTruthfully
<1>1. ConsentInv /\ ViewInv => DeletedUndisclosed
    BY ParentOf DEF ConsentInv, ViewInv, Collected, DeletedUndisclosed
<1>2. ConsentInv /\ ViewInv => LedgerTruthful
    BY LedgerAgrees DEF ConsentInv
<1> QED
    BY ViewsOnlyWatch, ConsentInvariance, ViewInvariance, <1>1, <1>2, PTL DEF ShownTruthfully

\* Composing a relation that holds of every pair <<x, x>> loses none of its pairs.
LEMMA TwiceFacts ==
    ASSUME NEW P, NEW S, \A x \in S : <<x, x>> \in P,
           NEW a \in S, NEW b \in S, NEW c \in S
    PROVE  /\ <<a, b>> \in P /\ <<b, c>> \in P => <<a, c>> \in Twice(P)
           /\ <<a, a>> \in Twice(P)
           /\ <<a, b>> \in P => <<a, b>> \in Twice(P)
<1>1. ASSUME NEW x \in S, NEW y \in S, NEW z \in S, <<x, y>> \in P, <<y, z>> \in P
      PROVE  <<x, z>> \in Twice(P)
  <2> DEFINE p == <<x, y>>
             q == <<y, z>>
  <2>1. q \in {r \in P : r[1] = p[2]}
    BY <1>1
  <2>2. <<p[1], q[2]>> \in {<<p[1], h[2]>> : h \in {r \in P : r[1] = p[2]}}
    BY <2>1
  <2> QED
    BY <1>1, <2>2 DEF Twice
<1> QED
    BY <1>1

\* What one transition, or two in a row, reach is reached by a path.
LEMMA PathFacts ==
    ASSUME NEW a \in BookingTask, NEW b \in BookingTask, NEW c \in BookingTask,
           <<a, b>> \in SimulatedStep, <<b, c>> \in SimulatedStep
    PROVE  <<a, c>> \in SimulatedPath
<1> DEFINE two == Twice(SimulatedStep)
           four == Twice(two)
           eight == Twice(four)
           sixteen == Twice(eight)
<1>0. \A s \in BookingTask : <<s, s>> \in SimulatedStep
    BY DEF SimulatedStep
<1>1. <<a, c>> \in two /\ \A s \in BookingTask : <<s, s>> \in two
    BY <1>0, TwiceFacts
<1> HIDE DEF two
<1>2. <<a, c>> \in four /\ \A s \in BookingTask : <<s, s>> \in four
    BY <1>1, TwiceFacts
<1> HIDE DEF four
<1>3. <<a, c>> \in eight /\ \A s \in BookingTask : <<s, s>> \in eight
    BY <1>2, TwiceFacts
<1> HIDE DEF eight
<1>4. <<a, c>> \in sixteen /\ \A s \in BookingTask : <<s, s>> \in sixteen
    BY <1>3, TwiceFacts
<1> HIDE DEF sixteen
<1>5. <<a, c>> \in Twice(sixteen)
    BY <1>4, TwiceFacts
<1> QED
    BY <1>5 DEF SimulatedPath, two, four, eight, sixteen

\* The transitions of the table that a session takes, alone or two at a time.
LEMMA StepsTaken ==
    /\ \A s \in BookingTask : <<s, s>> \in SimulatedStep
    /\ {"proposed", "a1_review", "a2_required", "researching", "offers_ready", "a3_review",
        "a4_required", "authorized_simulated", "cancelled", "superseded"} \subseteq BookingTask
    /\ {<<"proposed", "a1_review">>, <<"a1_review", "a2_required">>, <<"a1_review", "cancelled">>,
        <<"a2_required", "researching">>, <<"a2_required", "cancelled">>,
        <<"researching", "offers_ready">>, <<"offers_ready", "a3_review">>,
        <<"offers_ready", "cancelled">>, <<"offers_ready", "superseded">>,
        <<"a3_review", "a4_required">>, <<"a4_required", "authorized_simulated">>,
        <<"a4_required", "cancelled">>, <<"a4_required", "superseded">>} \subseteq SimulatedStep
<1>1. \A s \in BookingTask : <<s, s>> \in SimulatedStep
    BY DEF SimulatedStep
<1>2. {"proposed", "a1_review", "a2_required", "researching", "offers_ready", "a3_review",
       "a4_required", "authorized_simulated", "cancelled", "superseded"} \subseteq BookingTask
    BY DEF BookingTask, Attention, OfferReady, InProgress, SimulationTerminal
<1>3. \A s, t : t \notin LiveOnly /\ <<s, t>> \in TaskTable => <<s, t>> \in SimulatedStep
    BY DEF SimulatedStep
<1>4. \A s, t, X : t \in X => <<s, t>> \in {s} \X X
    OBVIOUS
<1>5. <<"proposed", "a1_review">> \in TaskTable
    BY <1>4 DEF TaskTable
<1>6. <<"a1_review", "a2_required">> \in TaskTable /\ <<"a1_review", "cancelled">> \in TaskTable
    BY <1>4 DEF TaskTable
<1>7. <<"a2_required", "researching">> \in TaskTable /\ <<"a2_required", "cancelled">> \in TaskTable
    BY <1>4 DEF TaskTable
<1>8. <<"researching", "offers_ready">> \in TaskTable
    BY <1>4 DEF TaskTable
<1>9. /\ <<"offers_ready", "a3_review">> \in TaskTable /\ <<"offers_ready", "cancelled">> \in TaskTable
      /\ <<"offers_ready", "superseded">> \in TaskTable
    BY <1>4 DEF TaskTable
<1>10. <<"a3_review", "a4_required">> \in TaskTable
    BY <1>4 DEF TaskTable
<1>11. /\ <<"a4_required", "authorized_simulated">> \in TaskTable
       /\ <<"a4_required", "cancelled">> \in TaskTable
       /\ <<"a4_required", "superseded">> \in TaskTable
    BY <1>4 DEF TaskTable
<1>12. \A t \in {"a1_review", "a2_required", "researching", "offers_ready", "a3_review",
                 "a4_required", "authorized_simulated", "cancelled", "superseded"} : t \notin LiveOnly
    BY DEF LiveOnly
<1> QED
    BY <1>1, <1>2, <1>3, <1>5, <1>6, <1>7, <1>8, <1>9, <1>10, <1>11, <1>12

\* A session that moves takes its task along the table.
LEMMA MovesTask ==
    ASSUME NEW s, NEW n, s.state \in BuyerState, Moves(s, n), s.state = n.state \/ s.state \notin Finished
    PROVE  <<TaskState(s), TaskState(n)>> \in SimulatedPath
<1>1. CASE s.state = n.state
  <2>1. TaskState(n) = TaskState(s) /\ TaskState(s) \in BookingTask
    BY <1>1, TaskStates, StepsTaken
    DEF BuyerState, Awaiting, PostDispatch, Closed
  <2> QED
    BY <2>1, StepsTaken, PathFacts
<1>2. CASE Confirms(s, n)
  <2>1. TaskState(s) = "a1_review" /\ TaskState(n) = "a2_required"
    BY <1>2, TaskStates DEF Confirms
  <2> QED
    BY <2>1, StepsTaken, PathFacts
<1>3. CASE Dispatches(s, n)
  <2>1. TaskState(s) = "a2_required" /\ TaskState(n) = "offers_ready"
    BY <1>3, TaskStates DEF Dispatches
  <2>2. <<"a2_required", "researching">> \in SimulatedStep /\ <<"researching", "offers_ready">> \in SimulatedStep
    BY StepsTaken
  <2> QED
    BY <2>1, <2>2, StepsTaken, PathFacts
<1>4. CASE Accepts(s, n)
  <2>1. TaskState(s) = "offers_ready" /\ TaskState(n) = "a4_required"
    BY <1>4, TaskStates DEF Accepts
  <2>2. <<"offers_ready", "a3_review">> \in SimulatedStep /\ <<"a3_review", "a4_required">> \in SimulatedStep
    BY StepsTaken
  <2> QED
    BY <2>1, <2>2, StepsTaken, PathFacts
<1>5. CASE Authorizes(s, n)
  <2>1. TaskState(s) = "a4_required" /\ TaskState(n) = "authorized_simulated"
    BY <1>5, TaskStates DEF Authorizes
  <2> QED
    BY <2>1, StepsTaken, PathFacts
<1>6. CASE Ends(s, n)
  <2>1. \/ n.state = "CANCELLED" /\ s.state \in Awaiting \cup PostDispatch
        \/ n.state = "SUPERSEDED" /\ s.state \in PostDispatch
    BY <1>6 DEF Ends, BuyerState, Finished, Closed
  <2>2. /\ TaskState(s) \in {"a1_review", "a2_required", "offers_ready", "a4_required"}
        /\ TaskState(n) \in {"cancelled", "superseded"}
        /\ TaskState(n) = "superseded" => TaskState(s) \in {"offers_ready", "a4_required"}
    BY <2>1, TaskStates DEF Awaiting, PostDispatch
  <2>3. <<TaskState(s), TaskState(n)>> \in SimulatedStep
    BY <2>2, StepsTaken
  <2>4. TaskState(s) \in BookingTask /\ TaskState(n) \in BookingTask
    BY <2>2, StepsTaken
  <2> QED
    BY <2>3, <2>4, StepsTaken, PathFacts
<1> QED
    BY <1>1, <1>2, <1>3, <1>4, <1>5, <1>6 DEF Moves, Stays

\* The task shown for a request moves only as the table of transitions lets a
\* simulation move it, for any number of requests (booking_task_states.py:115).
THEOREM TasksMove == ViewSpec => TaskMoves
<1>1. ASSUME SessionInv, [Next]_vars, NEW i \in Intent, sessions'[i] # None
      PROVE  <<IF sessions[i] = None THEN "proposed" ELSE TaskState(sessions[i]),
               TaskState(sessions'[i])>> \in SimulatedPath
  <2>1. SessionsMove
    BY <1>1, NextMoves
  <2>2. CASE sessions[i] = None
    <3>1. TaskState(sessions'[i]) = "a1_review"
      BY <1>1, <2>1, <2>2, TaskStates DEF SessionsMove, Exists, Opens
    <3> QED
      BY <2>2, <3>1, StepsTaken, PathFacts
  <2>3. CASE sessions[i] # None
    <3>1. Moves(sessions[i], sessions'[i]) /\ sessions[i].state \in BuyerState
      BY <1>1, <2>1, <2>3 DEF SessionsMove, Exists, SessionInv, TypeOK, Session
    <3>2. sessions[i].state \in Finished => sessions'[i] = sessions[i]
      BY <1>1, <2>3, NextSessions DEF Follows, Rows, Exists
    <3> QED
      BY <2>3, <3>1, <3>2, MovesTask
  <2> QED
    BY <2>2, <2>3
<1>2. SessionInv /\ [Next]_vars =>
        [\A i \in Changed :
            sessions'[i] # None =>
               <<IF sessions[i] = None THEN "proposed" ELSE TaskState(sessions[i]),
                 TaskState(sessions'[i])>> \in SimulatedPath]_vars
    BY <1>1 DEF Changed
<1> QED
    BY ViewsOnlyWatch, SessionInvariance, <1>2, PTL DEF Spec, TaskMoves

\* A request that orchestration.py:163 showed as over stays as it was shown.
THEOREM ParentsSettle == ViewSpec => ParentSettled
<1>1. ASSUME SessionInv, [ViewNext]_viewVars, NEW i \in Rows \cap Changed,
             Parent(i) \in {"deleted", "cancelled", "completed_simulated"}
      PROVE  FALSE
  <2>1. sessions[i].state \in Finished
    BY <1>1, ParentOf
  <2>2. [Next]_vars
    BY <1>1 DEF ViewNext, viewVars
  <2>3. sessions'[i] = sessions[i] /\ sessions[i] # None
    BY <1>1, <2>1, <2>2, NextSessions DEF Follows, Rows, Exists
  <2>4. sessions[i].state # "OFFERS_RANKED"
    BY <2>1 DEF Finished, Closed
  <2>5. i \in collection' <=> i \in collection
    BY <1>1, <2>3, <2>4 DEF ViewNext, viewVars, Rows
  <2> QED
    BY <1>1, <2>3, <2>5 DEF Changed
<1>2. SessionInv /\ [ViewNext]_viewVars =>
        [\A i \in Rows \cap Changed :
            Parent(i) \in {"deleted", "cancelled", "completed_simulated"} =>
               sessions'[i] # None /\ Parent(i)' = Parent(i)]_viewVars
    BY <1>1
<1> QED
    BY ViewsOnlyWatch, SessionInvariance, <1>2, PTL DEF ViewSpec, ParentSettled
=================================================================================
