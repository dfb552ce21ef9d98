------------------------------- MODULE GoldenPath -------------------------------
(***************************************************************************)
(* The golden-path facade (itaa_application.golden_path and .portfolio):   *)
(* the buyer's journey from a draft request to a simulated authorization.  *)
(* Every handler of the facade runs inside a unit of work that publishes   *)
(* all its writes or none of them, so each is one action here; module      *)
(* UnitOfWork opens that transaction up.  A refused call, and a call that  *)
(* replays a recorded answer, changes no store and is a stuttering step.   *)
(*                                                                         *)
(* Four explicit approvals, A1 to A4, move a request forward:              *)
(*   confirm (A1), approve_and_dispatch (A2), accept (A3), authorize (A4). *)
(***************************************************************************)
EXTENDS Integers, FiniteSets

CONSTANTS
    Intent,     \* purchase intent ids
    Approval,   \* approval ids; the caller names them in its command
    Offer,      \* supplier slots, one offer each
    Key,        \* idempotency scopes (actor, operation, key)
    Portfolio,  \* portfolio ids; None is a request outside every portfolio
    MaxTime,    \* bound of the clock
    None        \* an absent row, Python's None

ASSUME MaxTimeAssumption == MaxTime \in Nat

VARIABLES
    sessions,     \* InMemorySessionRepository: intent -> session or None
    grants,       \* InMemoryApprovalRepository: approval -> grant or None
    revoked,      \* approvals that a revocation names
    idempotency,  \* InMemoryIdempotencyRepository: scope -> completed record or None
    replaceLog,   \* ReplaceLog: portfolio, key -> replacement record or None
    now           \* the composed clock

vars == <<sessions, grants, revoked, idempotency, replaceLog, now>>

---------------------------------------------------------------------------
Time == 0..MaxTime

Awaiting == {"AWAITING_REQUIREMENT_CONFIRMATION", "AWAITING_DISPATCH_APPROVAL"}
PostDispatch == {"OFFERS_RANKED", "ACCEPTANCE_RECORDED"}
Closed == {"CANCELLED", "SUPERSEDED"}
BuyerState == Awaiting \cup PostDispatch \cup {"TRANSACTION_AUTHORIZED_SIMULATED"} \cup Closed

\* The states of PurchaseIntent a facade call can leave behind.
IntentState == {"DRAFT", "CONFIRMED", "DISPATCHED", "CANCELLED", "CLOSED"}

\* The states of Offer a facade call can leave behind; until is the end of validity.
Quote == [state : {"ELIGIBLE", "RECOMMENDED", "ACCEPTED"}, until : Time]

Acceptance == [offer : Offer, approval : Approval, expires : Time]

\* The authorization receipt.  until is the receipt's expiry; replayUntil that
\* of the idempotency record written with it.
Receipt == [approval : Approval, key : Key, at : Time, until : Time, replayUntil : Time]

\* A "full" payload carries the /disclosure and /solicitation sections, without
\* which no dispatch can be minimized; a "bare" one lacks them.
Payload == {"full", "bare"}

Session == [state : BuyerState, pi : IntentState,
            created : Time, expires : Time, payload : Payload,
            portfolio : Portfolio \cup {None}, saved : BOOLEAN,
            offers : [Offer -> Quote \cup {None}],
            acceptance : Acceptance \cup {None}, receipt : Receipt \cup {None},
            used : SUBSET Approval,
            replaces : Intent \cup {None}, replacedBy : Intent \cup {None}]

Kind == {"REQUIREMENT_CONFIRMATION", "PURCHASE_INTENT_DISPATCH",
         "OFFER_ACCEPTANCE", "TRANSACTION_AUTHORIZATION"}

\* offer is None for the two kinds that bind no offer.
Grant == [kind : Kind, intent : Intent, offer : Offer \cup {None}]

\* A record is COMPLETED as soon as it is published: its reservation and its
\* completion are in one unit of work.  The result reference is minted per
\* authorization and stands here for the intent it answers.
Record == [intent : Intent, expires : Time]

Replacement == [original : Intent, replacement : Intent]

\* None is no row of any store.
ASSUME NoneAssumption ==
    /\ None \notin Intent \cup Approval \cup Offer \cup Key \cup Portfolio
    /\ None \notin Session /\ None \notin Quote /\ None \notin Acceptance
    /\ None \notin Receipt /\ None \notin Grant /\ None \notin Record
    /\ None \notin Replacement

---------------------------------------------------------------------------
Exists(i) == sessions[i] # None
Owned(i, p) == Exists(i) /\ sessions[i].portfolio = p
InState(i, st) == Exists(i) /\ sessions[i].state = st

Draft(c, e, p, original, body) ==
    [state |-> "AWAITING_REQUIREMENT_CONFIRMATION", pi |-> "DRAFT",
     created |-> c, expires |-> e, payload |-> body, portfolio |-> p, saved |-> FALSE,
     offers |-> [o \in Offer |-> None], acceptance |-> None, receipt |-> None,
     used |-> {}, replaces |-> original, replacedBy |-> None]

LivesOrEmpty(c, e) == c <= e   \* mutant of Lives: a zero-length lifetime passes

\* PurchaseIntent refuses an empty lifetime.
Lives(c, e) == c < e

IssuableOverOthers(i, a, g) == a \notin sessions[i].used /\ a \notin revoked   \* mutant of Issuable: a foreign grant is overwritten

\* _issue_and_validate: not used by this session, no different grant under the
\* same id, not revoked.
Issuable(i, a, g) == /\ a \notin sessions[i].used
                     /\ grants[a] \in {None, g}
                     /\ a \notin revoked

Issue(a, g) == grants' = [grants EXCEPT ![a] = g]

Save(i, s) == sessions' = [sessions EXCEPT ![i] = s]

First(x, y) == x   \* mutant of Lesser: the intent's own expiry is forgotten

Lesser(x, y) == IF x < y THEN x ELSE y

ScopeFreeEarly(k) == idempotency[k] # None => now + 1 >= idempotency[k].expires   \* mutant of ScopeFree: off by one

\* A live record occupies its scope until it expires.
ScopeFree(k) == idempotency[k] # None => now >= idempotency[k].expires

RevokeNothing(s) == UNCHANGED revoked   \* mutant of RevokeActive

RevokeActive(s) == revoked' = revoked \cup {a \in s.used : grants[a] # None}

---------------------------------------------------------------------------
Init == /\ sessions = [i \in Intent |-> None]
        /\ grants = [a \in Approval |-> None]
        /\ revoked = {}
        /\ idempotency = [k \in Key |-> None]
        /\ replaceLog = [pk \in Portfolio \X Key |-> None]
        /\ now = 0

\* create_purchase_intent.  The payload is the client's: its creation instant
\* may lie ahead of the clock and its optional sections may be missing.
Create(i, c, e, p, body) ==
    /\ ~Exists(i)
    /\ Lives(c, e)
    /\ Save(i, Draft(c, e, p, None, body))
    /\ UNCHANGED <<grants, revoked, idempotency, replaceLog, now>>

Confirmed(s, a) == [s EXCEPT !.state = "AWAITING_DISPATCH_APPROVAL",
                             !.pi = "CONFIRMED",
                             !.used = @ \cup {a}]

\* confirm_requirement, under approval A1.
Confirm(i, a) ==
    LET s == sessions[i]
        g == [kind |-> "REQUIREMENT_CONFIRMATION", intent |-> i, offer |-> None]
    IN  /\ InState(i, "AWAITING_REQUIREMENT_CONFIRMATION")
        /\ Issuable(i, a, g)
        /\ s.pi = "DRAFT"
        /\ s.created <= now /\ now < s.expires
        /\ Issue(a, g)
        /\ Save(i, Confirmed(s, a))
        /\ UNCHANGED <<revoked, idempotency, replaceLog, now>>

\* The offers the boundary mapped, the ranked winner recommended.
Mapped(valid, winner) ==
    [o \in Offer |-> IF valid[o] = None THEN None
                     ELSE [state |-> IF o = winner THEN "RECOMMENDED" ELSE "ELIGIBLE",
                           until |-> valid[o]]]

Ranked(s, a, quotes) == [s EXCEPT !.state = "OFFERS_RANKED",
                                  !.pi = "DISPATCHED",
                                  !.offers = quotes,
                                  !.used = @ \cup {a}]

\* approve_and_dispatch, under approval A2.  valid[o] is the end of validity of
\* the offer that slot o returned and the boundary took, None if there is none;
\* winner is what ranking recommends among them.
Dispatch(i, a, valid, winner) ==
    LET s == sessions[i]
        g == [kind |-> "PURCHASE_INTENT_DISPATCH", intent |-> i, offer |-> None]
    IN  /\ InState(i, "AWAITING_DISPATCH_APPROVAL")
        /\ s.pi = "CONFIRMED"
        /\ s.payload = "full"
        /\ Issuable(i, a, g)
        /\ now < s.expires
        /\ \A o \in Offer : valid[o] # None => now < valid[o]
        /\ winner # None => valid[winner] # None
        /\ Issue(a, g)
        /\ Save(i, Ranked(s, a, Mapped(valid, winner)))
        /\ UNCHANGED <<revoked, idempotency, replaceLog, now>>

Accepted(s, a, o) ==
    [s EXCEPT !.state = "ACCEPTANCE_RECORDED",
              !.offers = [@ EXCEPT ![o] = [state |-> "ACCEPTED", until |-> s.offers[o].until]],
              !.acceptance = [offer |-> o, approval |-> a,
                              expires |-> Lesser(s.offers[o].until, s.expires)],
              !.used = @ \cup {a}]

\* _select_offer: any offer the boundary mapped, ranked or not.
Selectable(s, o) == /\ s.offers[o] # None
                    /\ s.offers[o].state \in {"ELIGIBLE", "RECOMMENDED"}
                    /\ now < s.offers[o].until

\* accept_recommended_or_selected_offer, under approval A3.  Acceptance.record
\* refuses an acceptance that is already expired, and its expiry is the earlier
\* of the offer's and the intent's.
Accept(i, a, o) ==
    LET s == sessions[i]
        quote == s.offers[o]
        g == [kind |-> "OFFER_ACCEPTANCE", intent |-> i, offer |-> o]
    IN  /\ InState(i, "OFFERS_RANKED")
        /\ Selectable(s, o)
        /\ Issuable(i, a, g)
        /\ now < Lesser(quote.until, s.expires)
        /\ Issue(a, g)
        /\ Save(i, Accepted(s, a, o))
        /\ UNCHANGED <<revoked, idempotency, replaceLog, now>>

Authorized(s, a, r) == [s EXCEPT !.state = "TRANSACTION_AUTHORIZED_SIMULATED",
                                 !.receipt = r,
                                 !.used = @ \cup {a}]

\* _offer_for_acceptance and _assert_authorization_match: a command that names
\* another acceptance, supplier, amount or currency is refused.
AcceptanceBound(s) == s.acceptance # None /\ s.offers[s.acceptance.offer] # None

\* authorize_simulated_transaction, under approval A4 and idempotency scope k;
\* e is the command's expiry.  An authorized session only replays.
Authorize(i, a, k, e) ==
    LET s == sessions[i]
        decision == Lesser(s.acceptance.expires, e)
        g == [kind |-> "TRANSACTION_AUTHORIZATION", intent |-> i,
              offer |-> s.acceptance.offer]
    IN  /\ InState(i, "ACCEPTANCE_RECORDED")
        /\ AcceptanceBound(s)
        /\ Issuable(i, a, g)
        /\ now < e
        /\ ScopeFree(k)
        /\ s.receipt = None
        /\ now < decision
        /\ Issue(a, g)
        /\ idempotency' = [idempotency EXCEPT ![k] = [intent |-> i, expires |-> e]]
        /\ Save(i, Authorized(s, a, [approval |-> a, key |-> k, at |-> now,
                                     until |-> decision, replayUntil |-> e]))
        /\ UNCHANGED <<revoked, replaceLog, now>>

\* mutant of Closable: a request that was already closed is closed again
ClosableTwice(i, p) == /\ Owned(i, p)
                       /\ sessions[i].receipt = None
                       /\ sessions[i].created <= now

\* What cancel and replace refuse.
Closable(i, p) == /\ Owned(i, p)
                  /\ sessions[i].state \notin Closed \cup {"TRANSACTION_AUTHORIZED_SIMULATED"}
                  /\ sessions[i].receipt = None
                  /\ sessions[i].created <= now

Cancelled(s) == [s EXCEPT !.state = "CANCELLED", !.pi = "CANCELLED", !.saved = FALSE]

\* cancel_purchase_intent.
Cancel(i, p) ==
    /\ Closable(i, p)
    /\ RevokeActive(sessions[i])
    /\ Save(i, Cancelled(sessions[i]))
    /\ UNCHANGED <<grants, idempotency, replaceLog, now>>

\* mutant of Superseded: the domain record is closed, the buyer sees a cancellation
SupersededAsCancelled(s, j) ==
    [s EXCEPT !.state = "CANCELLED",
              !.pi = IF s.pi = "DISPATCHED" THEN "CLOSED" ELSE "CANCELLED",
              !.replacedBy = j,
              !.saved = FALSE]

\* The original after a replacement: closed if its suppliers were asked, else
\* cancelled.
Superseded(s, j) ==
    LET asked == s.pi = "DISPATCHED" \/ s.state \in PostDispatch
    IN  [s EXCEPT !.state = IF asked THEN "SUPERSEDED" ELSE "CANCELLED",
                  !.pi = IF asked THEN "CLOSED" ELSE "CANCELLED",
                  !.replacedBy = j,
                  !.saved = FALSE]

\* replace_purchase_intent.  The replacement id j is minted, the draft is
\* rebuilt from the requirement without the two payload sections, and a draft
\* that would already be expired is refused.
Replace(i, j, p, k) ==
    LET s == sessions[i] IN
    /\ Owned(i, p)
    /\ replaceLog[<<p, k>>] = None
    /\ Closable(i, p)
    /\ ~Exists(j)
    /\ Lives(now, s.expires)
    /\ RevokeActive(s)
    /\ sessions' = [sessions EXCEPT ![i] = Superseded(s, j),
                                    ![j] = Draft(now, s.expires, p, i, "bare")]
    /\ replaceLog' = [replaceLog EXCEPT ![<<p, k>>] = [original |-> i, replacement |-> j]]
    /\ UNCHANGED <<grants, idempotency, now>>

\* mutant of Delete: a replacement draft may be deleted too
DeleteAnyDraft(i, p) ==
    /\ Owned(i, p)
    /\ sessions[i].state = "AWAITING_REQUIREMENT_CONFIRMATION"
    /\ sessions[i].used = {}
    /\ Save(i, None)
    /\ UNCHANGED <<grants, revoked, idempotency, replaceLog, now>>

\* delete_undisclosed_draft.
Delete(i, p) ==
    LET s == sessions[i] IN
    /\ Owned(i, p)
    /\ s.state = "AWAITING_REQUIREMENT_CONFIRMATION" /\ s.pi = "DRAFT"
    /\ s.used = {}
    /\ \A o \in Offer : s.offers[o] = None
    /\ s.acceptance = None /\ s.receipt = None
    /\ s.replacedBy = None /\ s.replaces = None
    /\ Save(i, None)
    /\ UNCHANGED <<grants, revoked, idempotency, replaceLog, now>>

\* set_saved.
SetSaved(i, p, flag) ==
    /\ Owned(i, p)
    /\ sessions[i].state \notin Closed \cup {"TRANSACTION_AUTHORIZED_SIMULATED"}
    /\ Save(i, [sessions[i] EXCEPT !.saved = flag])
    /\ UNCHANGED <<grants, revoked, idempotency, replaceLog, now>>

Tick == /\ now < MaxTime
        /\ now' = now + 1
        /\ UNCHANGED <<sessions, grants, revoked, idempotency, replaceLog>>

\* One buyer command on one request.
Forward(i) ==
    \/ \E c, e \in Time, p \in Portfolio \cup {None}, body \in Payload : Create(i, c, e, p, body)
    \/ \E a \in Approval : Confirm(i, a)
    \/ \E a \in Approval, valid \in [Offer -> Time \cup {None}], winner \in Offer \cup {None} :
          Dispatch(i, a, valid, winner)
    \/ \E a \in Approval, o \in Offer : Accept(i, a, o)
    \/ \E a \in Approval, k \in Key, e \in Time : Authorize(i, a, k, e)

PortfolioCommand(i) ==
    \E p \in Portfolio :
        \/ Cancel(i, p)
        \/ \E j \in Intent \ {i}, k \in Key : Replace(i, j, p, k)
        \/ Delete(i, p)
        \/ \E flag \in BOOLEAN : SetSaved(i, p, flag)

Command == \E i \in Intent : Forward(i) \/ PortfolioCommand(i)

Next == Command \/ Tick

Spec == Init /\ [][Next]_vars

---------------------------------------------------------------------------
(***************************************************************************)
(* Properties.                                                             *)
(***************************************************************************)
Rows == {i \in Intent : Exists(i)}

\* Every store holds rows of its own shape, and no request has an empty life.
TypeOK == /\ sessions \in [Intent -> Session \cup {None}]
          /\ grants \in [Approval -> Grant \cup {None}]
          /\ revoked \subseteq Approval
          /\ idempotency \in [Key -> Record \cup {None}]
          /\ replaceLog \in [Portfolio \X Key -> Replacement \cup {None}]
          /\ now \in Time
          /\ \A i \in Rows : sessions[i].created < sessions[i].expires

AcceptedOffers(s) == {o \in Offer : s.offers[o] # None /\ s.offers[o].state = "ACCEPTED"}

Agrees(s) == /\ s.pi = "DRAFT" <=> s.state = "AWAITING_REQUIREMENT_CONFIRMATION"
             /\ s.pi = "CONFIRMED" <=> s.state = "AWAITING_DISPATCH_APPROVAL"
             /\ s.pi = "CANCELLED" <=> s.state = "CANCELLED"
             /\ s.pi = "CLOSED" <=> s.state = "SUPERSEDED"
             /\ s.state \in Awaiting => \A o \in Offer : s.offers[o] = None
             /\ s.state \in Awaiting \cup {"OFFERS_RANKED"} => s.acceptance = None
             /\ s.state = "ACCEPTANCE_RECORDED" => s.acceptance # None
             /\ s.receipt # None <=> s.state = "TRANSACTION_AUTHORIZED_SIMULATED"
             /\ s.receipt # None => s.acceptance # None
             /\ AcceptedOffers(s) = IF s.acceptance = None THEN {} ELSE {s.acceptance.offer}

\* The buyer-facing state, the purchase intent, the offers, the acceptance and
\* the receipt of a session are written by different lines of a handler; they
\* never disagree about how far the request has come.
StatesAgree == \A i \in Rows : Agrees(sessions[i])

\* The kinds of approval a live state has consumed.
Consents(state) ==
    CASE state = "AWAITING_REQUIREMENT_CONFIRMATION" -> {}
      [] state = "AWAITING_DISPATCH_APPROVAL" -> {"REQUIREMENT_CONFIRMATION"}
      [] state = "OFFERS_RANKED" -> {"REQUIREMENT_CONFIRMATION", "PURCHASE_INTENT_DISPATCH"}
      [] state = "ACCEPTANCE_RECORDED" -> Kind \ {"TRANSACTION_AUTHORIZATION"}
      [] OTHER -> Kind

\* Nothing moves without its own approval: the grants a live session used are
\* one of each kind up to its state, all for this request, and the approvals
\* named by the acceptance and the receipt are those for the accepted offer.
ConsentChain ==
    \A i \in Rows : LET s == sessions[i] IN
        /\ \A a \in s.used : grants[a] # None /\ grants[a].intent = i
        /\ \A a, b \in s.used : grants[a].kind = grants[b].kind => a = b
        /\ s.state \notin Closed => {grants[a].kind : a \in s.used} = Consents(s.state)
        /\ s.acceptance # None =>
              /\ s.acceptance.approval \in s.used
              /\ grants[s.acceptance.approval] = [kind |-> "OFFER_ACCEPTANCE", intent |-> i,
                                                  offer |-> s.acceptance.offer]
        /\ s.receipt # None =>
              /\ s.receipt.approval \in s.used
              /\ grants[s.receipt.approval] = [kind |-> "TRANSACTION_AUTHORIZATION", intent |-> i,
                                               offer |-> s.acceptance.offer]

\* An approval is spent once: every grant on record was used by the one session
\* it was issued for, and no refused call leaves a grant behind.
ApprovalExclusive ==
    \A a \in Approval : {i \in Rows : a \in sessions[i].used} =
                           IF grants[a] = None THEN {} ELSE {grants[a].intent}

\* Closing a request revokes all it was granted, and nothing else is revoked.
ClosedRevoked ==
    revoked = UNION {sessions[i].used : i \in {r \in Rows : sessions[r].state \in Closed}}

\* The approvals on record are all accounted for by the requests: who spent
\* them, and what closing took back.
ApprovalsAccounted == ApprovalExclusive /\ ClosedRevoked

\* A buyer who retries an authorization before the expiry it named gets the
\* recorded answer: no other request takes the scope over earlier.  And a record
\* that is kept answers the authorization it was written with, so no scope, even
\* a recycled one, replays another request's result.
RecordedAnswer ==
    /\ \A i \in Rows : LET r == sessions[i].receipt IN
          (r # None /\ now < r.replayUntil) =>
              idempotency[r.key] = [intent |-> i, expires |-> r.replayUntil]
    /\ \A k \in Key : idempotency[k] # None =>
          LET i == idempotency[k].intent IN
          /\ Exists(i) /\ sessions[i].receipt # None
          /\ sessions[i].receipt.key = k
          /\ sessions[i].receipt.replayUntil = idempotency[k].expires

\* A request and its replacement name each other, stay in one portfolio and
\* share an expiry, and a retried replacement always finds both.
ReplaceLinks ==
    /\ \A i \in Rows : LET j == sessions[i].replacedBy IN
          j # None => /\ Exists(j) /\ sessions[j].replaces = i
                      /\ sessions[i].state \in Closed
                      /\ sessions[j].portfolio = sessions[i].portfolio
                      /\ sessions[j].expires = sessions[i].expires
    /\ \A j \in Rows : LET i == sessions[j].replaces IN
          i # None => Exists(i) /\ sessions[i].replacedBy = j
    /\ \A p \in Portfolio, k \in Key : replaceLog[<<p, k>>] # None =>
          LET r == replaceLog[<<p, k>>] IN
          /\ Owned(r.original, p) /\ Owned(r.replacement, p)
          /\ sessions[r.original].replacedBy = r.replacement

\* No call brings a request forward at or after its expiry, or after the expiry
\* of the offer it accepted: an expired request can only be closed or deleted.
ExpiredNeverAdvances ==
    [][\A i \in Rows :
          (Exists(i)' /\ sessions[i]'.state # sessions[i].state
                      /\ sessions[i]'.state \notin Closed) =>
             /\ now < sessions[i].expires
             /\ \A o \in AcceptedOffers(sessions[i])' : now < sessions[i].offers[o].until]_vars

\* An authorized request never changes again; a closed one is never reopened,
\* deleted or linked to a second replacement.
TerminalFrozen ==
    [][\A i \in Rows :
          sessions[i].state \in Closed \cup {"TRANSACTION_AUTHORIZED_SIMULATED"} =>
              sessions[i]' = sessions[i]]_vars

\* IntentWorkspace and LiveParkingWorkspace tell the buyer that a replacement is
\* a new draft "from the same details": one that could be dispatched before can
\* be dispatched again.
ReplacementDispatchable ==
    \A i \in Rows : sessions[i].replacedBy # None =>
        (sessions[i].payload = "full" => sessions[sessions[i].replacedBy].payload = "full")
=============================================================================
