--------------------------- MODULE MCModelAdapters ---------------------------
(***************************************************************************)
(* A small instance of ModelAdapters: two attempts under a deadline of     *)
(* three units, two chats, and a few outputs, readings, objectives and     *)
(* plans, chosen so that every check of the pipelines has one that fails   *)
(* it and one that does not.                                               *)
(***************************************************************************)
EXTENDS ModelAdapters, MCTripDates

\* all outputs that differ in the airport, the end and the accessibility
MCOutputs ==
  {[value |-> [f \in Field |-> IF f = "location.airportCode" THEN airport
                               ELSE IF f = "serviceWindow.end" THEN end
                               ELSE IF f = "constraints.accessibility" THEN access ELSE "good"],
    ordered |-> ordered, missing |-> {}, ambiguous |-> ambiguous, evidence |-> {"serviceWindow.end"}] :
     airport \in {"absent", "good", "bad"}, end \in {"absent", "good"},
     access \in {"absent", "good"}, ordered \in BOOLEAN,
     ambiguous \in {{}, {"requirements.covered"}}}

MCReadings ==
  [stamps : {0, 1, 2, 4}, natural : BOOLEAN, possible : {TRUE}, ordered : BOOLEAN,
   words : {Field \ (Window \cup {"constraints.currency"}), {"location.airportCode"}},
   found : {{"location.airportCode"}}]

\* objectives with days this year's reading of which is over, under way or not at all possible;
\* answers of two days without and with a year in the objective, and of a start alone
NoAnswers ==
  [helpWith |-> "", carNeed |-> "", airport |-> "", start |-> NoDate, end |-> NoDate, dates |-> NoText]
NoDays == Expression("none", NoDate, NoDate)
MCObjectives ==
  {[objective |-> Objective({"flight", "parking"}, "", "", "JFK", "JFK", "JFK",
                            Expression("span", <<0, 0, 30>>, <<0, 12, 31>>), 0),
    answers |-> NoAnswers],
   [objective |-> Objective({"conference", "travel", "car", "landing"}, "Edinburgh", "London",
                            "", "", "",
                            Expression("single", <<0, 10, 9>>, NoDate), 3),
    answers |-> [NoAnswers EXCEPT !.airport = "LHR"]],
   [objective |-> Objective({"booked", "flight", "nights"}, "", "", "", "", "", NoDays, 0),
    answers |-> [NoAnswers EXCEPT !.helpWith = "parking", !.start = <<2027, 10, 9>>,
                                  !.end = <<2027, 10, 12>>]],
   [objective |-> Objective({"experience"}, "", "", "", "", "",
                            Expression("single", <<2028, 1, 2>>, NoDate), 0),
    answers |-> [NoAnswers EXCEPT !.start = <<2027, 11, 20>>, !.end = <<2027, 11, 22>>]],
   [objective |-> Objective({"experience"}, "", "", "", "", "", NoDays, 0),
    answers |-> [NoAnswers EXCEPT !.start = <<2026, 10, 14>>]],
   [objective |-> Objective({"hotel"}, "", "", "", "", "",
                            Expression("single", <<0, 4, 31>>, NoDate), 0),
    answers |-> NoAnswers]}

MCTurns ==
  {Turn("", "", NoRange, << >>, {}, FALSE),
   Turn("Rome", "JFK", <<<<2025, 10, 9>>, <<2025, 10, 12>>>>, [parking |-> "explicit", hotel |-> "explicit"], {"hotel"}, FALSE),
   Turn("Milan", "", <<<<2026, 2, 30>>, <<2026, 3, 2>>>>, [flight |-> "explicit", rental |-> "inferred"], {}, TRUE)}

MCDays == {<<2026, 7, 15>>, <<2026, 10, 10>>}

\* The pipelines over larger sets than the run's: no proposal that is not clean gets past the
\* gates, nor a text that they see to contradict the snapshot (its numbers below 100 are not read).
GatesAssumption ==
  /\ \A r \in [stamps : 0..4, natural : BOOLEAN, possible : BOOLEAN, ordered : BOOLEAN,
               words : SUBSET (Field \ (Window \cup {"constraints.currency"})),
               found : {{}, Field}] :
       LET answer == Validate(FakeMapping(r), {}) IN
       answer.proposal # None => Clean(answer, {}, FakeAnswer(r))
  /\ \A airport, end, access \in {"absent", "good", "bad"}, ordered \in BOOLEAN,
        missing \in {{}, {"serviceWindow.end"}}, text \in Texts :
       LET out == [value |-> [f \in Field |-> IF f = "location.airportCode" THEN airport
                                              ELSE IF f = "serviceWindow.end" THEN end
                                              ELSE IF f = "constraints.accessibility" THEN access
                                              ELSE "good"],
                   ordered |-> ordered, missing |-> missing, ambiguous |-> {}, evidence |-> {}]
           answer == Validate(ExtractMapping(out), text)
       IN  SchemaAccepts(out) /\ answer.proposal # None => Clean(answer, text, out)
  /\ \A e \in Explanations : ~Contradicts(Ground(e))
ASSUME GatesAssumption

AnsweredDates ==
  {[NoAnswers EXCEPT !.start = start, !.end = end, !.dates = dates] :
     start, end \in {NoDate, <<2026, 7, 14>>, <<2026, 10, 9>>, <<2027, 10, 12>>, <<2028, 2, 29>>},
     dates \in {NoText, NoDays, Expression("span", <<0, 0, 9>>, <<0, 10, 12>>)}}
FewTexts ==
  {NoDays, Expression("single", <<0, 10, 9>>, NoDate), Expression("single", <<2028, 1, 2>>, NoDate),
   Expression("leading", <<0, 12, 28>>, <<0, 1, 3>>)}
\* The days over larger sets than the run's: whatever the form they are said in or answered, on
\* days before, within and after them, the buyer's days are kept.
DaysAssumption ==
  \A today \in Todays, nights \in {0, 3} :
    \A named \in ({NoAnswers} \X Expressions) \cup (AnsweredDates \X FewTexts) :
      LET o == Objective({}, "", "", "", "", "", named[2], nights)
          range == BuyersDates(o, named[1], today)
      IN  range # Raises => KeepsDays(range, o, named[1], today)
ASSUME DaysAssumption

===============================================================================
