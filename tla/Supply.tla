------------------------------- MODULE Supply -------------------------------
(***************************************************************************)
(* The terms of a supplier's offer, and the buyer's table that attests     *)
(* them.  A supplier (engine.py, canonical.py) decides alone whether and   *)
(* at what price it offers; the buyer's side (policy_evaluation.py, with   *)
(* offer_boundary.py) decides from a table of its own whether to believe   *)
(* the offer, and drops it silently if not.  Pure definitions.             *)
(***************************************************************************)
EXTENDS Integers, Sequences

CONSTANTS SafeMax,   \* the largest amount, 2^53 - 1 in the code
          Whole      \* the factor 1, in the code's millionths
ASSUME AmountAssumption == SafeMax \in Nat /\ Whole \in Nat \ {0}

Money == 0..SafeMax
Day == 86400
Raises == "RAISES"   \* an exception in place of an answer
Agrees == ""         \* no reason to decline

-------------------------------------------------------------------------------
(* Amounts.                                                                *)

\* billable_days
BillableDays(seconds) == (seconds + Day - 1) \div Day

\* scale_amount refuses products that are no longer exact in a double
Scalable(amount, factor) == amount * factor <= SafeMax
Scaled(amount, factor) == (amount * factor + Whole \div 2) \div Whole

\* validity_duration_in_bounds
InBounds(from, until, shortest, longest) ==
  shortest <= until - from /\ until - from <= longest

\* only a term that gives nothing back refunds nothing
RefundFits(cancellation, refund) == cancellation = "non_refundable" <=> refund = "none"

-------------------------------------------------------------------------------
(* A supplier's policy.                                                    *)

\* SimulatedPolicy.__post_init__
ValidPrices(p) ==
  /\ p.list \in Money /\ p.floor \in Money /\ p.floor <= p.list
  /\ p.fees \in Money /\ p.tax \in Money /\ p.budget \in Money
  /\ p.addOnPrice \in Money /\ p.addOnCost \in Money
  /\ IF p.addOns = {} THEN p.addOnPrice = 0 /\ p.addOnCost = 0 ELSE p.addOnPrice > p.addOnCost

ValidFactors(p) ==
  /\ p.demand \in 1..(10 * Whole)
  /\ p.maxDiscount \in 0..Whole /\ p.discount \in 0..p.maxDiscount

ValidTerms(p) ==
  /\ p.minValidity \in Nat \ {0}
  /\ p.validity \in p.minValidity..p.maxValidity
  /\ RefundFits(p.cancellation, p.refund)

ValidPolicy(p) ==
  /\ p.airports # {} /\ p.vehicles # {}
  /\ p.shuttle \in Nat /\ p.shuttle <= 180
  /\ p.distance \in Nat /\ p.distance <= 100000
  /\ p.capacity \in Nat
  /\ ValidPrices(p)
  /\ ValidFactors(p)
  /\ ValidTerms(p)

SimulatedAirports ==
  {"JFK", "LGA", "EWR", "EDI", "MAN", "LHR", "LGW", "STN", "AMS", "CDG", "DUB", "GLA"}

ParkDirect ==
  [airports |-> SimulatedAirports, vehicles |-> {"standard", "compact"},
   lot |-> "uncovered", shuttle |-> 15, distance |-> 2400,
   addOns |-> {}, addOnPrice |-> 0, addOnCost |-> 0,
   list |-> 1900, floor |-> 1700,
   demand |-> Whole, discount |-> Whole \div 10, maxDiscount |-> Whole \div 10,
   budget |-> 2000, fees |-> 800, tax |-> 900, capacity |-> 12,
   validity |-> 1200, minValidity |-> 900, maxValidity |-> 1800,
   cancellation |-> "free_until_24h", refund |-> "original_method",
   availability |-> "confirmed_simulated", version |-> "parkdirect.v1"]

SkyShield ==
  [ParkDirect EXCEPT
     !.vehicles = {"standard", "suv"}, !.lot = "covered", !.shuttle = 8, !.distance = 2900,
     !.addOns = {"ev_charging"}, !.addOnPrice = 1500, !.addOnCost = 800,
     !.list = 3000, !.floor = 2800,
     !.discount = Whole \div 20, !.maxDiscount = (8 * Whole) \div 100,
     !.budget = 2500, !.fees = 1200, !.tax = 1500, !.capacity = 8, !.validity = 1500,
     !.version = "skyshield.v3"]

TerminalFlex ==
  [ParkDirect EXCEPT
     !.vehicles = {"standard"}, !.lot = "garage", !.shuttle = 5, !.distance = 900,
     !.addOns = {"indoor_walkway"}, !.addOnPrice = 2000, !.addOnCost = 500,
     !.list = 2800, !.floor = 2400, !.discount = 0, !.maxDiscount = Whole \div 20,
     !.budget = 1500, !.fees = 1500, !.tax = 1600, !.capacity = 3, !.minValidity = 1200,
     !.maxValidity = 1200, !.cancellation = "free_until_48h",
     !.availability = "limited_simulated", !.version = "terminalflex.v2"]

Seeded == <<ParkDirect, SkyShield, TerminalFlex>>

-------------------------------------------------------------------------------
(* A supplier's answer.  What it is asked: the parts of the envelope that  *)
(* it reads, with the service window as << >> or <<start, end>>, and when  *)
(* it is asked, the deadline, and the end of the envelope.                 *)

\* Checks are pairs of what fails and the reason; the first one that fails gives the reason.
Passed(checks) == \A k \in DOMAIN checks : ~checks[k][1]

Reason(checks) ==
  IF Passed(checks) THEN Agrees
  ELSE checks[CHOOSE k \in DOMAIN checks :
                checks[k][1] /\ \A j \in 1..(k - 1) : ~checks[j][1]][2]

Stay(ask) == IF ask.window = << >> THEN 0 ELSE ask.window[2] - ask.window[1]
Days(ask) == BillableDays(Stay(ask))

\* _decline, as far as both kinds of supplier agree
Service(p, ask, left) ==
  << <<ask.category # "airport_parking", "UNSUPPORTED_CATEGORY">>,
     <<ask.airport \notin p.airports, "UNSUPPORTED_AIRPORT">>,
     <<ask.vehicle \notin p.vehicles, "UNSUPPORTED_VEHICLE">>,
     <<left < 1, "INSUFFICIENT_CAPACITY">>,
     <<ask.at >= ask.deadline, "RESPONSE_DEADLINE">>,
     <<ask.window = << >>, "UNSUPPORTED_SERVICE">> >>

Listed(p, days) == p.list * days
Demanded(p, days) == Scaled(Listed(p, days), p.demand)
Discounted(p, days) == Scaled(Demanded(p, days), Whole - p.discount)
Exact(p, days) ==
  /\ Listed(p, days) <= SafeMax
  /\ Scalable(Listed(p, days), p.demand)
  /\ Scalable(Demanded(p, days), Whole - p.discount)

\* _decline, what the stay would earn
Earnings(p, days) ==
  << <<p.discount > p.maxDiscount, "DISCOUNT_CAP">>,
     <<~Exact(p, days), Raises>>,
     <<Demanded(p, days) - Discounted(p, days) > p.budget, "ACQUISITION_CAP">>,
     <<Discounted(p, days) < p.floor * days, "PRICE_FLOOR">>,
     <<p.addOns # {} /\ p.addOnPrice <= p.addOnCost, "ADD_ON_MARGIN">>,
     <<~RefundFits(p.cancellation, p.refund), "CANCELLATION_PAIR">> >>

\* _effective_until
Earlier(a, b) == IF a <= b THEN a ELSE b
EffectiveUntil(p, ask) == Earlier(ask.at + p.validity, Earlier(ask.deadline, ask.until))

Subtotal(p, days) ==
  (IF Discounted(p, days) >= p.floor * days THEN Discounted(p, days) ELSE p.floor * days)
  + p.addOnPrice
Total(p, days) == Subtotal(p, days) + p.fees + p.tax

\* SimulatedSupplier.attempt: why there is no offer
Attempt(p, ask, left) ==
  IF ~Passed(Service(p, ask, left)) THEN Reason(Service(p, ask, left))
  ELSE IF Stay(ask) <= 0 THEN Raises
  ELSE IF ~Passed(Earnings(p, Days(ask))) THEN Reason(Earnings(p, Days(ask)))
  ELSE IF ~InBounds(ask.at, EffectiveUntil(p, ask), p.minValidity, p.maxValidity)
  THEN "VALIDITY_WINDOW"
  ELSE IF Total(p, Days(ask)) > SafeMax THEN Raises
  ELSE Agrees

\* what tells the terms of one supplier's evidence from another's
SimulatedEvidence(p) ==
  {"supplier_policy", "rate_card", "lot_rules", "availability_snapshot"} \X {p.version}

\* _offer
OfferOf(p, ask) ==
  [subtotal |-> Subtotal(p, Days(ask)), fees |-> p.fees, tax |-> p.tax,
   total |-> Total(p, Days(ask)),
   lot |-> p.lot, shuttle |-> p.shuttle, distance |-> p.distance,
   availability |-> p.availability, addOns |-> p.addOns,
   cancellation |-> p.cancellation, refund |-> p.refund,
   from |-> ask.at, until |-> EffectiveUntil(p, ask), evidence |-> SimulatedEvidence(p)]

-------------------------------------------------------------------------------
(* The suppliers of the local demonstration, which repeat a fixture.       *)

Fixture ==
  LET ParkDirectOffer ==
        [subtotal |-> 9800, fees |-> 1200, tax |-> 900, total |-> 11900,
         lot |-> "uncovered", shuttle |-> 15, distance |-> 2400,
         availability |-> "confirmed_simulated", addOns |-> {},
         cancellation |-> "free_until_24h", refund |-> "original_method",
         evidence |-> {<<"supplier_policy", "parkdirect.v1">>}]
  IN  <<ParkDirectOffer,
        [ParkDirectOffer EXCEPT
           !.subtotal = 11900, !.fees = 1800, !.tax = 1100, !.total = 14800,
           !.lot = "covered", !.shuttle = 8, !.distance = 2900, !.addOns = {"ev_charging"},
           !.evidence = {<<"supplier_policy", "skyshield.v3">>}],
        [ParkDirectOffer EXCEPT
           !.subtotal = 13500, !.fees = 2000, !.tax = 1400, !.total = 16900,
           !.lot = "garage", !.shuttle = 5, !.distance = 900, !.addOns = {"indoor_walkway"},
           !.availability = "limited_simulated", !.cancellation = "free_until_48h",
           !.evidence = {<<"supplier_policy", "terminalflex.v2">>}]>>

\* CanonicalGoldenSupplier.attempt: no price to compute, and a day's validity whatever was asked
CanonicalAnswer(s, ask, left) == Reason(Service(Seeded[s], ask, left))

CanonicalOffer(s, ask) ==
  [field \in DOMAIN Fixture[s] \cup {"from", "until"} |->
     CASE field = "from" -> ask.at
       [] field = "until" -> ask.at + Day
       [] OTHER -> Fixture[s][field]]

-------------------------------------------------------------------------------
(* The buyer's table.                                                      *)

RequiredChecks(addOns) ==
  {"remaining_capacity", "demand_factor", "discount_cap", "acquisition_budget"}
  \cup (IF addOns = {} THEN {} ELSE {"bundle_margin"})

\* TrustedPolicyEvaluation.__post_init__
ValidEvaluation(v) ==
  /\ {} \notin {v.airports, v.vehicles, v.lots, v.availability, v.evidence,
                v.cancellations, v.refunds}
  /\ v.checks = RequiredChecks(v.addOns)
  /\ v.floor \in Money /\ v.fees \in Money /\ v.tax \in Money /\ v.addOnPrice \in Money
  /\ v.days \in Nat \ {0}
  /\ v.maxDiscount \in 0..Whole
  /\ v.minValidity \in Nat \ {0} /\ v.maxValidity \in Nat /\ v.minValidity <= v.maxValidity

\* trusted_evaluation
Evaluation(p, days) ==
  [airports |-> p.airports, vehicles |-> p.vehicles, lots |-> {p.lot}, addOns |-> p.addOns,
   availability |-> {p.availability}, evidence |-> SimulatedEvidence(p),
   floor |-> p.floor, days |-> days, maxDiscount |-> p.maxDiscount,
   cancellations |-> {p.cancellation}, refunds |-> {p.refund},
   minValidity |-> p.minValidity, maxValidity |-> p.maxValidity,
   fees |-> p.fees, tax |-> p.tax, addOnPrice |-> p.addOnPrice,
   checks |-> RequiredChecks(p.addOns)]

\* SimulatorPolicyPort: it looks for the service window in the offer, which has none
ComposedEvaluation(p) == Evaluation(p, 6)

\* _spec_from_fixture and trusted_canonical_evaluation: the subtotal of the fixture is its floor
CanonicalEvaluation(s) ==
  LET o == Fixture[s]
      p == Seeded[s]
  IN  [airports |-> p.airports, vehicles |-> p.vehicles, lots |-> {o.lot}, addOns |-> o.addOns,
       availability |-> {o.availability}, evidence |-> o.evidence,
       floor |-> o.subtotal, days |-> 1, maxDiscount |-> Whole,
       cancellations |-> {o.cancellation}, refunds |-> {o.refund},
       minValidity |-> 900, maxValidity |-> 2 * Day,
       fees |-> o.fees, tax |-> o.tax, addOnPrice |-> 0,
       checks |-> RequiredChecks(o.addOns)]

\* _eligibility: the buyer believes the offer
Believes(v, offer, ask) ==
  /\ ask.airport \in v.airports /\ ask.vehicle \in v.vehicles
  /\ offer.availability # "unavailable_simulated" /\ offer.availability \in v.availability
  /\ offer.shuttle <= ask.shuttle
  /\ offer.lot \in v.lots /\ offer.addOns \subseteq v.addOns
  /\ offer.fees = v.fees /\ offer.tax = v.tax /\ offer.evidence = v.evidence
  /\ v.floor <= SafeMax \div v.days
  /\ offer.subtotal >= v.floor * v.days + (IF offer.addOns # {} THEN v.addOnPrice ELSE 0)
  /\ InBounds(offer.from, offer.until, v.minValidity, v.maxValidity)
  /\ offer.cancellation \in v.cancellations /\ offer.refund \in v.refunds
  /\ RefundFits(offer.cancellation, offer.refund)

\* what is left for a supplier to get wrong: it asks neither how long a transfer the buyer
\* accepts, nor whether it has anything to sell
Suits(offer, ask) ==
  offer.shuttle <= ask.shuttle /\ offer.availability # "unavailable_simulated"
===============================================================================
