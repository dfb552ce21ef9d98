------------------------------ MODULE Ranking ------------------------------
(***************************************************************************)
(* itaa_ranking: the integer score of a set of offers, the order it gives  *)
(* them and the drawback it tells of the first one.  The code scores in    *)
(* millionths; Scale is that unit here, and the weights are its hundredths.*)
(***************************************************************************)
EXTENDS Integers, Sequences, SequencesExt, FiniteSetsExt

CONSTANTS Scale,        \* the score of a perfect offer
          Reliability   \* the suppliers of the registry, each with its score
ASSUME ScaleAssumption == Scale \in Nat \ {0} /\ Scale % 100 = 0

CoveredLots == {"covered", "garage"}
UncoveredLots == {"uncovered", "surface"}
EvidenceClasses == {"supplier_policy", "rate_card", "lot_rules", "availability_snapshot"}

Weights == [price |-> 35, reliability |-> 20, cancellation |-> 15, shuttle |-> 12,
            distance |-> 8, coverage |-> 6, add_on |-> 4]

Cancellation == [free_until_24h |-> Scale, free_until_48h |-> (7 * Scale) \div 10,
                 non_refundable |-> 0]

MissingPenalty == Scale \div 20

----------------------------------------------------------------------------
HalfUp(n, d) == (n + (d \div 2)) \div d

Weighted(score, c) ==
    (score * (Weights[c] * (Scale \div 100)) + (Scale \div 2)) \div Scale

InvertMinMaxDown(v, lo, hi) ==   \* mutant of InvertMinMax: the larger the better
    IF lo = hi THEN Scale ELSE HalfUp((v - lo) * Scale, hi - lo)

\* The smallest value of the cohort scores Scale, the largest 0.
InvertMinMax(v, lo, hi) ==
    IF lo = hi THEN Scale ELSE HalfUp((hi - v) * Scale, hi - lo)

\* _eligibility: what is ranked at time t.
Eligible(o, need, t) ==
    /\ o.available
    /\ o.from <= t
    /\ t < o.until
    /\ need.covered = "required" => o.lot \notin UncoveredLots
    /\ o.shuttle <= need.shuttle

\* The score of each component but an unknown reliability, which has none.
Raw(o, cohort, need) ==
    LET within(v, S) == InvertMinMax(v, Min(S), Max(S))
    IN  [price        |-> within(o.total, {x.total : x \in cohort}),
         shuttle      |-> within(o.shuttle, {x.shuttle : x \in cohort}),
         distance     |-> within(o.distance, {x.distance : x \in cohort}),
         reliability  |-> IF o.supplier \in DOMAIN Reliability THEN Reliability[o.supplier] ELSE 0,
         cancellation |-> IF o.refund = "none" THEN 0 ELSE Cancellation[o.cancellation],
         coverage     |-> IF need.covered = "none" \/ o.lot \in CoveredLots THEN Scale ELSE 0,
         add_on       |-> IF need.addOns = {} THEN Scale
                          ELSE HalfUp(Cardinality(need.addOns \cap o.addOns) * Scale,
                                      Cardinality(need.addOns))]

\* What the components earn, less the penalty of an unknown reliability.
Score(o, cohort, need) ==
    LET raw     == Raw(o, cohort, need)
        earned  == Weighted(raw.price, "price") + Weighted(raw.reliability, "reliability")
                   + Weighted(raw.cancellation, "cancellation") + Weighted(raw.shuttle, "shuttle")
                   + Weighted(raw.distance, "distance") + Weighted(raw.coverage, "coverage")
                   + Weighted(raw.add_on, "add_on")
        penalty == IF o.supplier \in DOMAIN Reliability THEN 0 ELSE MissingPenalty
    IN  Max({0, Min({Scale, earned - penalty})})

EvidenceCoverage(o) ==
    HalfUp(Cardinality(o.evidence \cap EvidenceClasses) * Scale, Cardinality(EvidenceClasses))

\* _tie_key: smaller comes first.  Offer ids are ordered as their suppliers.
TieKey(o, cohort, need, t) ==
    <<-Score(o, cohort, need), -EvidenceCoverage(o), -(o.until - t), o.total, o.supplier>>

Lexicographic(a, b) ==
    \E k \in DOMAIN a : a[k] < b[k] /\ \A j \in 1..(k - 1) : a[j] = b[j]

\* rank_offers: the eligible offers, best first.
Ranked(offers, need, t) ==
    LET cohort == {o \in offers : Eligible(o, need, t)}
        key    == [o \in cohort |-> TieKey(o, cohort, need, t)]
    IN  CHOOSE r \in [1..Cardinality(cohort) -> cohort] :
            \A j, k \in DOMAIN r : j < k => Lexicographic(key[r[j]], key[r[k]])

\* _downside: the first dimension in which the winner is behind the runner-up.
Downside(ranked, need) ==
    LET cohort == {ranked[i] : i \in DOMAIN ranked}
        w == ranked[1]
        c == ranked[2]
        gains(x) == Raw(x, cohort, need)
        behind == <<w.total > c.total, w.shuttle > c.shuttle, w.distance > c.distance,
                    gains(c).coverage > gains(w).coverage, gains(c).add_on > gains(w).add_on,
                    gains(c).cancellation > gains(w).cancellation>>
        dimensions == <<"total_minor", "shuttle_minutes", "distance_metres",
                        "coverage_fit", "add_on_fit", "cancellation">>
        noted == IF Len(ranked) < 2 THEN {} ELSE {d \in DOMAIN behind : behind[d]}
    IN  IF noted = {} THEN "none" ELSE dimensions[Min(noted)]
=============================================================================
