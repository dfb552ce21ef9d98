------------------------------ MODULE MCSupply ------------------------------
(***************************************************************************)
(* What the suppliers of Supply and the buyer's table must agree on, over  *)
(* the seeded policies and variants of them.  A factor of 100 stands for   *)
(* the code's 1000000.                                                     *)
(***************************************************************************)
EXTENDS Supply

\* prices up to where the products are no longer exact, roundings both ways, a discount of
\* all, a budget that a long stay uses up, an add-on, and terms that refund nothing
Variants ==
  {[p EXCEPT !.list = price[1], !.floor = price[2], !.demand = demand,
             !.discount = discount, !.maxDiscount = Whole, !.budget = budget,
             !.availability = availability, !.fees = fees]
     : p \in {ParkDirect, TerminalFlex,
              [SkyShield EXCEPT !.cancellation = "non_refundable", !.refund = "none"]},
       price \in {<<1, 1>>, <<3, 0>>, <<7, 5>>, <<2800, 2700>>, <<100000, 1000>>},
       demand \in {1, 50, 100, 1000},
       discount \in {0, 5, 33, 100},
       budget \in {0, 2500, SafeMax},
       availability \in {"confirmed_simulated", "unavailable_simulated"},
       fees \in {800, SafeMax}}

Policies == {Seeded[s] : s \in DOMAIN Seeded} \cup Variants

Stays == {1, Day, Day + 1, 2 * Day, 6 * Day, 11 * Day, 20 * Day}

Asked(seconds, shuttle, deadline) ==
  [category |-> "airport_parking", airport |-> "JFK", vehicle |-> "standard",
   window |-> <<0, seconds>>, shuttle |-> shuttle, at |-> 0, deadline |-> deadline, until |-> 5000]

Asks == {Asked(seconds, shuttle, deadline)
           : seconds \in Stays, shuttle \in {7, 15}, deadline \in {1000, 9000}}

\* The seeded policies, and the others, are ones that can be made, and so are the tables drawn
\* from them and from the fixtures.  (policy.py:77, policy_evaluation.py:105, canonical.py:85)
ASSUME PolicyAssumption ==
  /\ \A p \in Policies : ValidPolicy(p) /\ \A days \in {1, 20} : ValidEvaluation(Evaluation(p, days))
  /\ \A s \in DOMAIN Fixture : ValidEvaluation(CanonicalEvaluation(s))

\* An offer is never dropped for its price, its floor, its validity or its terms: what the
\* supplier's arithmetic lets through, the buyer's, which is written anew, believes, unless the
\* transfer is too long or nothing is available, which the supplier does not look at.
\* (engine.py:77-117, offer_boundary.py:411-480)
ASSUME BelievedAssumption ==
  \A p \in Policies, ask \in Asks :
     Attempt(p, ask, 1) = Agrees =>
       /\ Believes(Evaluation(p, Days(ask)), OfferOf(p, ask), ask) <=> Suits(OfferOf(p, ask), ask)
       /\ OfferOf(p, ask).total \in Money

\* Three reasons to decline are never given, since no such policy can be made; all others are.
\* (engine.py:96, 111, 113)
ASSUME ReasonsAssumption ==
  {Attempt(p, ask, 1) : p \in Policies, ask \in Asks} =
    {Agrees, Raises, "ACQUISITION_CAP", "PRICE_FLOOR", "VALIDITY_WINDOW"}

\* A supplier that finds a stay too dear for its budget finds every longer stay too dear, and a
\* longer stay is never offered for less: the budget is for one offer and not for one day, so
\* ParkDirect sells no stay of eleven days and SkyShield none of seventeen.  (engine.py:98-110)
ASSUME LongerStaysAssumption ==
  /\ \A p \in Policies, days \in 1..19 :
       Exact(p, days + 1) =>
         /\ Exact(p, days)
         /\ Subtotal(p, days) <= Subtotal(p, days + 1)
         /\ Demanded(p, days) - Discounted(p, days) <= Demanded(p, days + 1) - Discounted(p, days + 1)
  /\ \A days \in 1..20 :
       LET Declined(p) == Reason(Earnings(p, days)) = "ACQUISITION_CAP"
       IN  /\ Declined(ParkDirect) <=> days >= 11
           /\ Declined(SkyShield) <=> days >= 17
           /\ ~Declined(TerminalFlex)

\* The table that the composed port draws up for a simulated offer is always for six days: a
\* shorter stay is believed only if it costs as much as the floor of six.  (composition.py:184)
ASSUME SixDaysAssumption ==
  \A p \in Policies, ask \in Asks :
     Attempt(p, ask, 1) = Agrees =>
       (Believes(ComposedEvaluation(p), OfferOf(p, ask), ask) <=>
          Suits(OfferOf(p, ask), ask) /\ Subtotal(p, Days(ask)) >= 6 * p.floor + p.addOnPrice)

\* A supplier of the demonstration is believed whenever its transfer is short enough, at the same
\* price for a stay of any length, and its offer outlives the deadline and the envelope.
\* (canonical.py:301-331)
ASSUME CanonicalAssumption ==
  \A s \in DOMAIN Fixture, ask \in Asks :
     LET o == CanonicalOffer(s, ask)
     IN  CanonicalAnswer(s, ask, 1) = Agrees =>
           /\ Believes(CanonicalEvaluation(s), o, ask) <=> o.shuttle <= ask.shuttle
           /\ o.total = o.subtotal + o.fees + o.tax
           /\ o.until > ask.deadline /\ o.until > ask.until
===============================================================================
