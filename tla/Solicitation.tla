---------------------------- MODULE Solicitation ----------------------------
(***************************************************************************)
(* One dispatch of a request (GoldenPathFacade._solicit_and_rank): the     *)
(* collector asks three suppliers one after the other, closes the box of   *)
(* each, and the offers that pass the boundary are ranked and saved.  The  *)
(* clock is read again at every step and may have moved either way: the    *)
(* composed WallClock is the time of day.  Dispatches of different         *)
(* requests do not overlap, since each holds the publish lock, but they    *)
(* share the suppliers' capacity.                                          *)
(***************************************************************************)
EXTENDS Ranking, Envelopes

CONSTANTS Intent,       \* the requests
          Menu,         \* the terms each supplier may offer
          Validity,     \* how long each supplier's offers are valid
          MinValidity,  \* the shortest validity a supplier offers
          Capacity,     \* the units a supplier has at first
          Need,         \* what the buyer asks for
          Deadline,     \* when answers are due
          Expires,      \* when each request and its envelopes expire
          EnvelopeLife, \* how long before that the envelopes may be opened
          Payload,      \* what the buyer would disclose of a request
          MaxTime
ASSUME DeadlineAssumption == \A i \in Intent : /\ Deadline <= Expires[i]
                                               /\ EnvelopeLife <= Expires[i]

Supplier == 1..3        \* in the order of their tokens
Done == 4               \* the turn after the last supplier's
Time == 0..MaxTime

ASSUME LimitAssumption ==
    /\ MaxTime \in Nat /\ Deadline \in Nat /\ EnvelopeLife \in Nat /\ Capacity \in Nat
    /\ MinValidity \in Nat \ {0} /\ Validity \in [Supplier -> Nat]
    /\ Expires \in [Intent -> Nat] /\ IsFiniteSet(Intent)

\* What a supplier offers, and what the buyer asks for.
Offerable(x) ==
    /\ {x.total, x.shuttle, x.distance} \subseteq Nat
    /\ x.lot \in CoveredLots \cup UncoveredLots
    /\ x.cancellation \in DOMAIN Cancellation
    /\ IsFiniteSet(x.addOns) /\ IsFiniteSet(x.evidence)
    /\ {x.available, x.attested} \subseteq BOOLEAN

ASSUME TermsAssumption ==
    /\ \A s \in Supplier : \A x \in Menu[s] : Offerable(x)
    /\ Need.shuttle \in Nat /\ IsFiniteSet(Need.addOns) /\ Cardinality(Need.addOns) <= Scale
    /\ \A s \in DOMAIN Reliability : Reliability[s] \in 0..Scale

VARIABLES now,       \* the composed clock
          capacity,  \* the units each supplier has left
          session,   \* what each request's session holds once it was dispatched
          told,      \* how each request's progress stream says its attempt ended
          call       \* the dispatch in progress

vars == <<now, capacity, session, told, call>>

Nothing == [s \in Supplier |-> None]

Init == /\ now = 0
        /\ capacity = [s \in Supplier |-> Capacity]
        /\ session = [i \in Intent |-> None]
        /\ told = [i \in Intent |-> None]
        /\ call = None

\* The clock is set, forwards or back.
Clock == /\ now' \in Time \ {now}
         /\ UNCHANGED <<capacity, session, told, call>>

----------------------------------------------------------------------------
(* What is disclosed of a request, to whom, and what the buyer approved.   *)

Buyer == "buyer"
Version == 1

Source(i) == [Payload EXCEPT !["expiresAt"] = Expires[i],
                             !["solicitation/responseDeadline"] = Deadline]

\* SeededRoster.recipients: the scoped names are the same for all requests,
\* and the window of an envelope is counted back from its end.
Recipients(i) ==
    [s \in Supplier |->
        [supplier |-> s, invitation |-> <<"invitation", s>>, intent |-> <<"intent", s>>,
         buyer |-> <<"buyer", s>>, from |-> Expires[i] - EnvelopeLife, until |-> Expires[i],
         capabilities |-> IF s = 1 THEN SupplierCapabilities
                          ELSE {"invitation_read", "offer_write"}]]

Binding == [i \in Intent |-> Bind(Source(i), i, Version, Expires[i], Recipients(i))]

\* The grant of the dispatch: all of it but its life is fixed by the binding,
\* and it ends with the request at the earliest.
Grant(i, issued) ==
    LET r == DispatchRequest(Binding[i], issued, Buyer)
    IN  [kind |-> r.kind, purpose |-> r.purpose, actor |-> r.actor, owner |-> r.owner,
         type |-> r.type, resource |-> r.resource, version |-> r.version,
         payload |-> r.payload, extra |-> r.extra,
         approval |-> <<i, issued>>, issued |-> issued, expires |-> Expires[i]]

Resolution(i, issued) == [grant |-> Grant(i, issued), revoked |-> FALSE]

ASSUME DisclosureAssumption ==
    \A i \in Intent : Bindable(Source(i), Expires[i], Recipients(i))

\* The grants and what they allow are fixed before the dispatch.
ApprovedAt == [i \in Intent |-> [issued \in Time |-> [t \in Time |->
                 Approved(Resolution(i, issued), Binding[i], t, Buyer)]]]

AuthorizedAt == [i \in Intent |-> [issued \in Time |-> [s \in Supplier |-> [t \in Time |->
                   DispatchAuthorized(Resolution(i, issued), Binding[i], s, t, Buyer)]]]]

----------------------------------------------------------------------------
(* The dispatch begins under an approval that allows it.                   *)

Begin(i, issued) ==
    /\ call = None
    /\ session[i] = None
    /\ ValidGrant(Grant(i, issued))
    /\ ApprovedAt[i][issued][now]
    /\ call' = [intent |-> i, issued |-> issued, occurred |-> now, turn |-> 1,
                box |-> Nothing, asked |-> Nothing, open |-> FALSE,
                spent |-> {}, before |-> capacity, mapped |-> {}, ranked |-> None]
    /\ told' = [told EXCEPT ![i] = None]
    /\ UNCHANGED <<now, capacity, session>>

\* DispatchService.authorize: the approval and the envelope of s are both in
\* force.
Authorized(s, t) == AuthorizedAt[call.intent][call.issued][s][t]

Denied(t) == ~ApprovedAt[call.intent][call.issued][t]

Closed(kind) == [kind |-> kind, received |-> now]

\* It is the turn of s, which has not been asked.
Turn(s) == /\ call # None
           /\ call.turn = s
           /\ ~call.open

\* _timeout_remaining: every box without a terminal is closed.
TimeoutRemaining(box) ==
    [s \in Supplier |-> IF box[s] = None THEN Closed("TIMED_OUT") ELSE box[s]]

Timeout(s) ==
    /\ Turn(s)
    /\ now >= Deadline
    /\ call' = [call EXCEPT !.box = TimeoutRemaining(@), !.turn = Done]
    /\ UNCHANGED <<now, capacity, session, told>>

Deny(s) ==
    /\ Turn(s)
    /\ now < Deadline
    /\ Denied(now)
    /\ call' = [call EXCEPT !.box[s] = Closed("DENIED"), !.turn = s + 1]
    /\ UNCHANGED <<now, capacity, session, told>>

AskUnauthorized(s) ==   \* mutant of Ask: the supplier is asked before the approval is in force
    /\ Turn(s)
    /\ now < Deadline
    /\ call' = [call EXCEPT !.asked[s] = now, !.open = TRUE]
    /\ UNCHANGED <<now, capacity, session, told>>

Ask(s) ==
    /\ Turn(s)
    /\ now < Deadline
    /\ Authorized(s, now)
    /\ call' = [call EXCEPT !.asked[s] = now, !.open = TRUE]
    /\ UNCHANGED <<now, capacity, session, told>>

AbandonKeepsUnits ==   \* mutant of Abandon: the units are not given back
    /\ call' = None
    /\ told' = [told EXCEPT ![call.intent] = "unavailable"]
    /\ UNCHANGED <<now, session, capacity>>

\* The dispatch is given up: the unit of work rolls back, the units with it.
Abandon == /\ capacity' = call.before
           /\ call' = None
           /\ told' = [told EXCEPT ![call.intent] = "unavailable"]
           /\ UNCHANGED <<now, session>>

\* An envelope that may not be opened yet is no denial: verify_dispatch raises.
Refuse(s) ==
    /\ Turn(s)
    /\ now < Deadline
    /\ ~Denied(now)
    /\ ~Authorized(s, now)
    /\ Abandon

----------------------------------------------------------------------------
(* A supplier's answer.  It is stamped with the time it was asked and read *)
(* with the clock when it arrives.                                         *)

Least(S) == CHOOSE x \in S : \A y \in S : x <= y

ValidUntil(s) == Least({call.asked[s] + Validity[s], Deadline, Expires[call.intent]})

\* SimulatedSupplier.attempt: an offer takes a unit, before it is returned.
Offer(s, terms) ==
    /\ capacity[s] > 0
    /\ ValidUntil(s) - call.asked[s] >= MinValidity
    /\ terms \in Menu[s]

\* _normalize and _late_or_failed: the terminal of an answer of this kind.
Terminal(s, kind) ==
    IF now >= Deadline THEN "LATE"
    ELSE IF kind \in {"OFFER", "DECLINED"} /\ call.asked[s] > now THEN "INVALID"
    ELSE kind

\* After a late answer the others are not asked.
Received(s, result) ==
    LET box == [call.box EXCEPT ![s] = result]
    IN  IF result.kind = "LATE"
        THEN [call EXCEPT !.box = TimeoutRemaining(box), !.turn = Done, !.open = FALSE]
        ELSE [call EXCEPT !.box = box, !.turn = s + 1, !.open = FALSE]

\* An offer, with its terms; one that is not in time is closed without them.
AnswerOffer(s, terms) ==
    /\ call # None /\ call.open /\ call.turn = s
    /\ Offer(s, terms)
    /\ LET kind == Terminal(s, "OFFER")
           result == IF kind = "OFFER"
                     THEN [kind |-> kind, received |-> now, terms |-> terms,
                           from |-> call.asked[s], until |-> ValidUntil(s)]
                     ELSE Closed(kind)
       IN  call' = [Received(s, result) EXCEPT !.spent = @ \cup {s}]
    /\ capacity' = [capacity EXCEPT ![s] = @ - 1]
    /\ UNCHANGED <<now, session, told>>

\* Any other answer: a refusal, an exception, or one that is malformed or
\* names another channel.
Answer(s, kind) ==
    /\ call # None /\ call.open /\ call.turn = s
    /\ call' = Received(s, Closed(Terminal(s, kind)))
    /\ UNCHANGED <<now, capacity, session, told>>

----------------------------------------------------------------------------
(* The boundary, the ranking and the end of the dispatch.                  *)

InForceIfEarlier(b) ==   \* mutant of InForce: an offer must precede the dispatch
    b.from < call.occurred /\ call.occurred < b.until /\ b.received < Expires[call.intent]

\* _bind: the offer is in force at the time the dispatch began.
InForce(b) ==
    b.from <= call.occurred /\ call.occurred < b.until /\ b.received < Expires[call.intent]

\* _eligibility: its terms are those the buyer's policy table attests.
Attested(b) == /\ b.terms.attested
               /\ b.terms.available
               /\ b.terms.shuttle <= Need.shuttle

\* _map_domain: the offer is submitted and marked eligible as it arrives.
TakenInTime(b) == b.received < b.until

\* accept_offer; an answer it refuses is skipped.
Accepted(b) == b.kind = "OFFER" /\ InForce(b) /\ Attested(b) /\ TakenInTime(b)

Candidate(s) ==
    LET b == call.box[s]
        x == b.terms
    IN  [total |-> x.total, shuttle |-> x.shuttle, distance |-> x.distance, lot |-> x.lot,
         addOns |-> x.addOns, cancellation |-> x.cancellation, refund |-> x.refund,
         evidence |-> x.evidence, available |-> x.available,
         supplier |-> s, from |-> b.from, until |-> b.until]

Mapped == {s \in Supplier : Accepted(call.box[s])}

RankedSuppliers == LET r == Ranked({Candidate(s) : s \in Mapped}, Need, call.occurred)
                   IN  [k \in DOMAIN r |-> r[k].supplier]

\* What the decision says of the offer it recommends.
Drawback(ranked) == Downside([k \in DOMAIN ranked |-> Candidate(ranked[k])], Need)

\* _recommend, at the time the dispatch began: an offer that arrived later
\* refuses to move backwards.
Recommendable(ranked) ==
    ranked # <<>> => call.box[ranked[1]].received <= call.occurred

Collected == /\ call # None
             /\ call.turn = Done
             /\ call.ranked = None

\* The session is staged and the stream says so, inside the unit of work.
Rank == /\ Collected
        /\ LET ranked == RankedSuppliers
           IN  /\ Recommendable(ranked)
               /\ call' = [call EXCEPT !.mapped = Mapped, !.ranked = ranked]
        /\ told' = [told EXCEPT ![call.intent] = "complete"]
        /\ UNCHANGED <<now, capacity, session>>

\* The recommendation raises.
Fail == /\ Collected
        /\ ~Recommendable(RankedSuppliers)
        /\ Abandon

Commit == /\ call # None
          /\ call.ranked # None
          /\ session' = [session EXCEPT ![call.intent] = [sold |-> call.spent,
                                                         mapped |-> call.mapped]]
          /\ call' = None
          /\ UNCHANGED <<now, capacity, told>>

Next == \/ Clock
        \/ \E i \in Intent, issued \in Time : Begin(i, issued)
        \/ \E s \in Supplier : \/ Timeout(s)
                               \/ Deny(s)
                               \/ Ask(s)
                               \/ Refuse(s)
                               \/ \E terms \in Menu[s] : AnswerOffer(s, terms)
                               \/ \E kind \in {"DECLINED", "FAILED", "INVALID"} : Answer(s, kind)
        \/ Rank
        \/ Fail
        \/ Commit

Terminals == {"OFFER", "DECLINED", "INVALID", "FAILED", "LATE", "TIMED_OUT", "DENIED"}

\* What the fields hold; None is no value of any of them.
Closings == [kind : Terminals \ {"OFFER"}, received : Time]
Offered == [kind : {"OFFER"}, received : Time, terms : UNION {Menu[s] : s \in Supplier},
            from : Time, until : 0..Deadline]
Rankings == UNION {[1..n -> Supplier] : n \in 0..3}
Sessions == [sold : SUBSET Supplier, mapped : SUBSET Supplier]
Calls == [intent : Intent, issued : Time, occurred : Time, turn : 1..Done,
          box : [Supplier -> Closings \cup Offered \cup {None}],
          asked : [Supplier -> Time \cup {None}], open : BOOLEAN,
          spent : SUBSET Supplier, before : [Supplier -> Int], mapped : SUBSET Supplier,
          ranked : Rankings \cup {None}]

ASSUME NoneAssumption ==
    /\ None \notin Int /\ None \notin Closings \cup Offered /\ None \notin Rankings
    /\ None \notin Sessions /\ None \notin Calls /\ None # "complete"
    /\ \A i \in Intent, issued \in Time : None # Grant(i, issued)

Spec == Init /\ [][Next]_vars

----------------------------------------------------------------------------

\* Every terminal is what happened to its supplier, whatever the clock did
\* between two readings: only a supplier that was asked has an answer, it was
\* asked while its approval and its envelope were in force and before the
\* deadline, an offer arrived before it too, nobody is asked after an answer
\* was late, and only a clock set back before the approval denies a supplier.
\* (solicitation_service.py:124-187)
TerminalsExplained ==
    call # None =>
    \A s \in Supplier :
      LET b == call.box[s]
          later == (s + 1)..3
      IN  /\ call.asked[s] # None => 
               /\ call.issued <= call.asked[s] /\ call.asked[s] < Deadline
               /\ Expires[call.intent] - EnvelopeLife <= call.asked[s]
          /\ b = None => \A r \in later : call.box[r] = None /\ call.asked[r] = None
          /\ b # None =>
               /\ b.kind \in Terminals
               /\ b.kind \in {"TIMED_OUT", "DENIED"} <=> call.asked[s] = None
               /\ b.kind \in {"TIMED_OUT", "LATE"} =>
                    /\ b.received >= Deadline
                    /\ \A r \in later : call.box[r] # None /\ call.box[r].kind = "TIMED_OUT"
               /\ b.kind = "DENIED" => b.received < call.issued
               /\ b.kind = "OFFER" => /\ b.received \in call.asked[s]..(Deadline - 1)
                                      /\ b.from = call.asked[s]
                                      /\ b.from < b.until /\ b.until <= Deadline

\* A supplier's units are accounted for: one is missing for each offer of a
\* saved session or of the dispatch in progress, those that came too late to
\* be seen included, and none for a dispatch that failed.  A stream that says
\* complete is one whose session is saved, or is about to be.
\* (engine.py:56, local_memory.py:545-559, golden_path.py:532-540)
Accounted ==
    /\ \A s \in Supplier :
         capacity[s] = Capacity
                       - Cardinality({i \in Intent : session[i] # None /\ s \in session[i].sold})
                       - (IF call # None /\ s \in call.spent THEN 1 ELSE 0)
    /\ \A i \in Intent :
         /\ session[i] # None => /\ session[i].mapped \subseteq session[i].sold
                                 /\ told[i] = "complete"
         /\ told[i] = "complete" =>
              \/ session[i] # None
              \/ call # None /\ call.intent = i /\ call.ranked # None

\* The clock read the same at every step of the dispatch.
StoodStill == /\ call.turn # Done => now = call.occurred
              /\ \A s \in Supplier :
                    /\ call.box[s] # None => call.box[s].received = call.occurred
                    /\ call.asked[s] \in {None, call.occurred}

\* The boundary and the recommendation are held against the time the dispatch
\* began, which the collection may have left behind: but nothing else than a
\* clock that moved loses an attested offer or fails a dispatch, once the
\* envelopes may be opened.
\* (golden_path.py:486-511, offer_boundary.py:397-404, composition.py:123)
OnlyTheClockLosesOffers ==
    [][ \A i \in Intent :
          told'[i] # told[i] /\ told'[i] # None /\ StoodStill /\ Expires[i] - EnvelopeLife <= call.occurred =>
            /\ told'[i] = "complete"
            /\ call'.mapped = {s \in Supplier : /\ call.box[s].kind = "OFFER"
                                               /\ Attested(call.box[s])} ]_vars

\* As good as b, to the buyer, in everything the ranking looks at.
AsGood(a, b) == /\ a.total <= b.total /\ a.shuttle <= b.shuttle /\ a.distance <= b.distance
                /\ a.lot \in CoveredLots \/ b.lot \notin CoveredLots
                /\ b.addOns \subseteq a.addOns
                /\ a.refund # "none" \/ b.refund = "none"
                /\ Cancellation[a.cancellation] >= Cancellation[b.cancellation]
                /\ b.supplier \in DOMAIN Reliability =>
                      /\ a.supplier \in DOMAIN Reliability
                      /\ Reliability[a.supplier] >= Reliability[b.supplier]
                /\ EvidenceCoverage(a) >= EvidenceCoverage(b)
                /\ a.until >= b.until

\* The offer that is recommended was answered and is in force, and no other
\* ranked offer is as good in everything and cheaper: the weights, the
\* roundings and the tie-breaks never prefer a dominated offer.  If no drawback
\* is told, the second offer is not better in what the buyer can see of it.
\* (rank.py:289-388, 422-475, 507-579)
WinnerUndominated ==
    call # None /\ call.ranked # None /\ call.ranked # <<>> =>
      LET w == Candidate(call.ranked[1])
      IN  /\ w.from <= call.occurred /\ call.occurred < w.until
          /\ \A k \in 2..Len(call.ranked) :
               LET o == Candidate(call.ranked[k])
               IN  ~(AsGood(o, w) /\ o.total < w.total)
          /\ Drawback(call.ranked) = "none" /\ Len(call.ranked) > 1 =>
               LET o == Candidate(call.ranked[2])
               IN  /\ w.total <= o.total /\ w.shuttle <= o.shuttle
                   /\ w.distance <= o.distance
                   /\ Need.addOns \cap w.addOns \subseteq o.addOns =>
                        Need.addOns \cap o.addOns \subseteq w.addOns
=============================================================================
