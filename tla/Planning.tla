------------------------------- MODULE Planning -------------------------------
(***************************************************************************)
(* The AWS adapter's plan of a trip: what the projector reads in the       *)
(* buyer's objective and structured answers, what it takes from the        *)
(* language model's turn, and which tasks and questions it shows           *)
(* (projector.py, fake.py), and which tools a turn may call (tools.py).    *)
(* Pure definitions; the turns that run them are in ModelAdapters.         *)
(*                                                                         *)
(* An objective is known by what the projector's patterns find in it.      *)
(***************************************************************************)
EXTENDS TripDates, FiniteSets

Kinds == {"flight", "hotel", "rental", "parking", "experience", "ents"}

-------------------------------------------------------------------------------
(* What is read: the objective, the answers, the model's turn.             *)

\* the patterns of extract_facts and base_tasks: words and phrases, the city and the origin it
\* names, the first known airport code, the airport after "flying from" and before or after
\* "parking", the days it gives and the nights it counts
Words == {"parking", "car", "noCar", "ents", "hotel", "experience", "flight", "booked",
          "landing", "conference", "travel", "nights", "weekday", "route", "train"}
Objective(words, city, origin, airport, from, parkingAt, dates, nights) ==
  [words |-> words, city |-> city, origin |-> origin, airport |-> airport, from |-> from,
   parkingAt |-> parkingAt, dates |-> dates, nights |-> nights]

\* PlanAnswers: the days are ISO days of this century or left out, the dates a text or none
NoText == Expression("blank", NoDate, NoDate)
IsAnswers(a) ==
  /\ a.helpWith \in {"", "stay", "rental", "parking", "flights_sorted", "experience", "unsure"}
  /\ a.carNeed \in {"", "yes", "no", "unsure"} /\ a.airport \in {"", "LHR"}
  /\ \A day \in {a.start, a.end} \ {NoDate} : IsDate(day) /\ day[1] \in 2000..2099

\* the part of a PlanTurn the projection looks at: the model's facts, its suggestions and the
\* kinds its evidence quotes from the objective
Turn(destination, parkingAirport, dates, suggested, quoted, fallback) ==
  [destination |-> destination, parkingAirport |-> parkingAirport, dates |-> dates,
   suggested |-> suggested, quoted |-> quoted, fallback |-> fallback]

\* extract_facts: an airport code makes the objective about parking only when nothing else does
AirportLed(o) ==
  /\ o.airport # "" /\ o.city = ""
  /\ o.words \cap {"travel", "landing", "conference", "car"} = {}

\* extract_facts: where parking is wanted is never taken from the trip's places
ParkingAirport(o) ==
  IF o.parkingAt # "" THEN o.parkingAt ELSE IF AirportLed(o) THEN o.airport ELSE ""

\* extract_facts: the need of a car, the answer before the words
CarNeed(o, a) ==
  IF a.carNeed # "" THEN a.carNeed
  ELSE IF "car" \in o.words THEN IF "noCar" \in o.words THEN "no" ELSE "yes"
  ELSE IF a.helpWith = "rental" THEN "yes" ELSE ""

\* one ISO day on its own has no reader of its own: parse_bare_day_span takes its month and its
\* day for two days of this month
IsoDay(day) == Expression("bare", <<day[1], Omitted, day[2]>>, <<Omitted, Omitted, day[3]>>)

\* _structured_date_overlay: were any dates answered, the text it makes of them, and the days:
\* those read in that text or in the buyer's own, or else those answered, in order or not
DayGiven(a) == a.start # NoDate \/ a.end # NoDate
Given(a) == DayGiven(a) \/ a.dates # NoText
AnswerText(a) ==
  IF a.start # NoDate /\ a.end # NoDate THEN Expression("iso", a.start, a.end)
  ELSE IF DayGiven(a) THEN IsoDay(IF a.start # NoDate THEN a.start ELSE a.end)
  ELSE a.dates
AnsweredDays(a, today) ==
  LET standing == IF a.start = NoDate THEN NoRange
                  ELSE <<a.start, IF a.end = NoDate THEN a.start ELSE a.end>>
  IN  OrElse(OrElse(ExactCalendar(AnswerText(a), today), ExactCalendar(a.dates, today)), standing)

\* extract_facts: the days answered, with an answered end for the day the objective names alone,
\* or else those of the objective, which is read first in any case. The years are rewritten
\* unless the objective, not the answers, has one. (An answered end with no day named alone is
\* kept without a start: no range.)
BuyersDates(o, a, today) ==
  LET e == o.dates
      named == DayAlone(e, today)
      alone == IF a.end # NoDate /\ named \notin {NoRange, Raises} THEN <<a.end, a.end>> ELSE named
  IN  IF ~Given(a) THEN PlanDates(e, NoDate, o.nights, today)
      ELSE IF ExactCalendar(e, today) = Raises THEN Raises
      ELSE Lasting(OrElse(AnsweredDays(a, today), alone), NoDate, o.nights, YearTyped(e), today)

\* extract_facts: parking is wanted; the flights are booked already
Parking(o) == "parking" \in o.words \/ AirportLed(o)
Booked(o, a) == "booked" \in o.words \/ a.helpWith = "flights_sorted"

\* extract_facts: the kinds of task the objective or the answers state
Stated(o, a) ==
  {k \in {"ents", "hotel", "experience"} : k \in o.words}
  \cup (IF Parking(o) \/ a.helpWith = "parking" THEN {"parking"} ELSE {})
  \cup (IF "car" \in o.words \/ a.helpWith = "rental" THEN {"rental"} ELSE {})
  \cup (IF a.helpWith = "stay" THEN {"hotel"} ELSE {})
  \cup (IF a.helpWith = "experience" THEN {"experience"} ELSE {})
  \cup (IF "flight" \in o.words /\ ~Booked(o, a) THEN {"flight"} ELSE {})

\* extract_facts, given the buyer's days; answered dates count as exact, whatever they are
ExtractFacts(o, a, range) ==
  [stated |-> Stated(o, a),
   destination |-> o.city,
   origin |-> o.origin,
   parkingAirport |-> ParkingAirport(o),
   departure |-> IF a.airport # "" THEN a.airport ELSE o.from,
   range |-> range,
   exact |-> Given(a) \/ range # NoRange,
   loose |-> Given(a) \/ range # NoRange \/ o.words \cap {"nights", "weekday"} # {},
   carNeed |-> CarNeed(o, a),
   booked |-> Booked(o, a),
   tripLike |-> \/ o.words \cap {"travel", "landing", "conference", "nights"} # {}
                \/ o.city # "" /\ (~Parking(o) \/ "car" \in o.words)]

-------------------------------------------------------------------------------
(* What is shown: questions and tasks.                                     *)

\* select_clarifications; departureAirport needs "landing", which is a word of the objective
Questions(f, o) ==
  LET dates == IF f.exact THEN {} ELSE {"dates"}
      active == "landing" \in o.words
  IN  IF "parking" \in f.stated THEN dates
      ELSE dates
           \cup (IF /\ f.tripLike /\ f.departure = "" /\ f.origin = ""
                    /\ active \/ "flight" \in f.stated
                 THEN {"departureAirport"} ELSE {})
           \cup (IF /\ f.tripLike /\ f.carNeed = ""
                    /\ active \/ "rental" \in f.stated
                 THEN {"carNeed"} ELSE {})

\* _task
Task(kind, provenance) ==
  [kind |-> kind, provenance |-> provenance, accepted |-> provenance = "explicit"]

\* base_tasks: is a flight worth a task, named or inferred from a route with dates
FlightWanted(f, o) ==
  /\ ~f.booked
  /\ \/ "route" \in o.words
     \/ f.tripLike /\ ("landing" \in o.words \/ "flight" \in f.stated)
     \/ /\ f.origin # "" /\ f.destination # "" /\ f.tripLike
        /\ f.loose
        /\ "train" \notin o.words

\* base_tasks: the provenance of each kind's task, or "" where it has none
Provenance(kind, f, a, o) ==
  LET car == IF a.carNeed # "" THEN a.carNeed ELSE f.carNeed IN
  IF kind \in f.stated /\ kind # "flight" THEN "explicit"
  ELSE IF kind = "parking" /\ "landing" \in o.words THEN "inferred"
  ELSE IF kind = "rental" /\ car = "yes" THEN "inferred"
  ELSE IF kind = "rental" /\ car = "unsure" THEN "proposed"
  ELSE IF kind = "flight" /\ FlightWanted(f, o)
       THEN IF "flight" \in f.stated \/ "route" \in o.words THEN "explicit" ELSE "proposed"
  ELSE IF kind = "hotel" /\ o.words \cap {"conference", "nights"} # {} THEN "proposed"
  ELSE ""

\* base_tasks
BaseTasks(f, a, o) ==
  {Task(k, Provenance(k, f, a, o)) : k \in {k \in Kinds : Provenance(k, f, a, o) # ""}}

\* _overlay_model_trip_facts: a city and dates of the model's only where the buyer gave none
ModelsDays(f, t) ==
  IF f.exact \/ t.dates = NoRange THEN NoRange ELSE Ordered(t.dates[1], t.dates[2])
Overlay(f, t) ==
  LET days == ModelsDays(f, t) IN
  [f EXCEPT !.destination = IF @ = "" THEN t.destination ELSE @,
            !.tripLike = @ \/ (f.destination = "" /\ t.destination # ""),
            !.range = OrElse(days, @),
            !.exact = @ \/ days # NoRange,
            !.loose = @ \/ days # NoRange]

\* mutant of CanonicalizeYears: the year the buyer typed does not count
CanonicalizeYearsAlways(f, o, today) ==
  IF f.range = NoRange THEN f
  ELSE [f EXCEPT !.range = RewriteRange(@, FALSE, today)]

\* _canonicalize_fact_years
CanonicalizeYears(f, o, today) ==
  IF f.range = NoRange THEN f
  ELSE [f EXCEPT !.range = RewriteRange(@, YearTyped(o.dates), today)]

\* _earned_explicit
Earned(f, t, o) ==
  f.stated \cup t.quoted \cup (IF "route" \in o.words THEN {"flight"} ELSE {})

\* _downgrade_unearned_explicit: first what no word earned, then what the model claims without
\* being earned (its last clause meets no task that the first has left explicit)
Downgrade(tasks, f, t, o) ==
  LET earned == Earned(f, t, o)
      first == {IF k.provenance = "explicit" /\ k.kind \notin earned THEN Task(k.kind, "proposed") ELSE k
                 : k \in tasks}
      claimed(k) == k.kind \in DOMAIN t.suggested /\ t.suggested[k.kind] = "explicit"
  IN  {IF claimed(k) /\ k.kind \notin earned
       THEN [k EXCEPT !.provenance = IF k.accepted THEN "inferred" ELSE "proposed"]
       ELSE k : k \in first}

\* project_plan (unless the model's dates raise): from the facts, and from the beginning
Projection(f, o, a, t) ==
  LET tasks == Downgrade(BaseTasks(f, a, o), f, t, o)
      visible == {k \in tasks : k.accepted \/ k.provenance \in {"proposed", "inferred"}}
      questions == Questions(f, o)
  IN  [facts |-> f, questions |-> questions, tasks |-> visible,
       phase |-> IF questions = {} THEN "forming" ELSE "clarify"]

Project(o, a, t, today) ==
  Projection(CanonicalizeYears(Overlay(ExtractFacts(o, a, BuyersDates(o, a, today)), t), o, today),
             o, a, t)

\* _fallback_turn
FallbackTurn(o, a) == Turn(o.city, ParkingAirport(o), NoRange, << >>, {}, TRUE)

\* _generic (fake.py): the deterministic planner suggests what the objective states
FakeTurn(o, a) ==
  Turn(o.city, ParkingAirport(o), NoRange,
       [k \in Stated(o, a) \cap {"parking", "rental", "experience"} |-> "explicit"],
       o.words \cap Kinds, FALSE)

-------------------------------------------------------------------------------
(* Tools.                                                                  *)

PlanTools == {"get_supported_capabilities", "project_plan_from_facts"}
MutatingTools == {"solicit_parking_offers", "accept_offer", "authorize_simulated_transaction",
                  "book_stay_sandbox"}
ExecuteTools ==
  MutatingTools \cup {"prepare_parking_requirement", "search_stay_offers",
                      "search_experience_offers", "search_flight_offers", "get_buyer_snapshot",
                      "explain_ranked_offers"}

\* ClosedTools.call
MayCall(name, turn) ==
  /\ name \in PlanTools \cup ExecuteTools
  /\ turn = "plan" => name \in PlanTools
  /\ turn = "execute" => name \in ExecuteTools

\* _assert_supplier_allowed: the suppliers a tool lets through, given the offers of the snapshot
\* (supplier by offer) and the accepted one
SuppliersAllowed(offers, accepted) ==
  IF accepted = "" THEN {offers[i] : i \in DOMAIN offers}
  ELSE {offers[i] : i \in {i \in DOMAIN offers : i = accepted}}

\* accept_offer and authorize_simulated_transaction, up to the call of the facade
ReachesFacade(name, payload, offers, accepted) ==
  /\ payload.grant
  /\ name = "authorize_simulated_transaction" => payload.mode = "SIMULATED"
  /\ \/ name = "accept_offer" /\ payload.supplier = ""
     \/ payload.supplier \in SuppliersAllowed(offers, accepted)

\* No tool of a planning turn changes anything, and every execute tool that works on a request's
\* offers needs a grant and, once an offer is accepted, its supplier.
ToolAssumption ==
  /\ \A name \in MutatingTools : ~MayCall(name, "plan")
  /\ PlanTools \cap ExecuteTools = {}
  /\ \A name \in {"accept_offer", "authorize_simulated_transaction"} :
     \A payload \in [grant : BOOLEAN, mode : {"SIMULATED", "LIVE"}, supplier : {"", "s1", "s2"}] :
        ReachesFacade(name, payload, [o1 |-> "s1", o2 |-> "s2"], "o1")
          => payload.grant /\ payload.supplier # "s2"
ASSUME ToolAssumption

===============================================================================
