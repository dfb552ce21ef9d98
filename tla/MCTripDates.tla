----------------------------- MODULE MCTripDates -----------------------------
(***************************************************************************)
(* The readers of TripDates held against what they should find, over days  *)
(* around the turn of a year and around 29 February, months of every       *)
(* length, and ranges that reach over the present day or over a year.      *)
(***************************************************************************)
EXTENDS TripDates, FiniteSets

Todays ==
  {<<2026, 7, 15>>, <<2026, 10, 10>>, <<2027, 2, 28>>, <<2027, 12, 31>>, <<2028, 1, 1>>}
  \cup {<<2028, 2, d>> : d \in {1, 27, 28, 29}} \cup {<<2028, 3, d>> : d \in {1, 2, 31}}

MonthDays == {<<m, d>> : m \in 1..12, d \in 1..31}

\* A month and a day without a year are read as their next occurrence from today on, whether this
\* year, next year or, for 29 February, the next leap year. After 29 February of a leap year that
\* day is not found at all; a day its month never has raises.
NearestAssumption ==
  \A today \in Todays : \A md \in MonthDays :
    LET ahead == {y \in today[1]..(today[1] + 8) :
                    IsDate(<<y, md[1], md[2]>>) /\ ~Before(<<y, md[1], md[2]>>, today)}
        lost == md = <<2, 29>> /\ IsLeap(today[1]) /\ today[1] \notin ahead
    IN  Resolve(md[1], md[2], Omitted, today) =
          IF ahead = {} THEN Raises
          ELSE IF lost THEN NoDate
          ELSE <<CHOOSE y \in ahead : \A z \in ahead : y <= z, md[1], md[2]>>
ASSUME NearestAssumption

Days3 == {1, 9, 15, 28, 29, 30, 31}
Months3 == {2, 4, 7, 10, 12}
Expressions ==
  {Expression("span", <<0, 0, a>>, <<y, m, b>>) : y \in {0, 1999, 2028}, m \in Months3, a, b \in Days3}
  \cup {Expression("monthFirst", <<0, m, a>>, <<y, n, b>>) :
          y \in {0, 2028}, m, n \in Months3, a, b \in {1, 15, 30}}
  \cup {Expression("leading", <<0, m, a>>, <<y, n, b>>) :
          y \in {0, 2028}, m \in Months3, n \in Months3 \cup {0}, a, b \in {1, 15, 30}}
  \cup {Expression("bare", <<0, 0, a>>, <<0, 0, b>>) : a, b \in Days3}
  \cup {Expression("single", <<y, m, a>>, NoDate) : y \in {0, 2028}, m \in Months3, a \in Days3}

InOrder(range) == ~Before(range[2], range[1])
IsRange(range) == range \notin {NoRange, Raises}

\* Whatever form the buyer uses, a range that is found is in order and, without a year, not over
\* yet; and the reader of refinements finds the days that the reader of objectives finds, or none.
ReadersAssumption ==
  \A today \in Todays : \A e \in Expressions :
    LET range == ExactCalendar(e, today)
        refined == TripDates(e, today)
    IN  /\ IsRange(range) => InOrder(range) /\ (YearTyped(e) \/ ~Before(range[1], today))
        /\ IsRange(refined) => refined = range
ASSUME ReadersAssumption

\* today's day and month, in one of the years around, falls behind the first day of a range and
\* not behind its last
AnniversaryInside(range, today) ==
  \E y \in (range[1][1] - 1)..(range[2][1] + 1) :
    Before(range[1], <<y, today[2], today[3]>>) /\ ~Before(range[2], <<y, today[2], today[3]>>)

\* Both ends of a held range are moved to their next occurrence by themselves. A range shorter
\* than a year stays in order exactly when no anniversary of today falls inside it: a trip that
\* has begun, or one that reaches over a year from today, is turned around.
RewriteAssumption ==
  \A today \in Todays \ {<<2028, 2, 29>>} : \A y \in {today[1] - 1, today[1], today[1] + 1} :
    \A md \in {<<1, 1>>, <<2, 1>>, <<2, 27>>, <<3, 1>>, <<7, 14>>, <<7, 15>>, <<10, 9>>, <<12, 30>>} :
      \A length \in {0, 1, 3, 20} :
        LET start == <<y, md[1], md[2]>>
            range == <<start, Plus(start, length)>>
            rewritten == RewriteRange(range, FALSE, today)
        IN  \/ range[2][2] = 2 /\ range[2][3] = 29
            \/ InOrder(rewritten) <=> ~AnniversaryInside(range, today)
ASSUME RewriteAssumption

\* A plan's range is in order unless, as the buyer's words gave it, an anniversary of today falls
\* inside it (a stay that has begun, nights counted over a year from today) or it begins on a 29
\* February of a later year: the last step rewrites a range that the readers had put in order.
PlanAssumption ==
  \A today \in Todays : \A e \in {x \in Expressions : x.form \in {"single", "bare"}} :
    \A nights \in {0, 3} :
      LET plan == PlanDates(e, NoDate, nights, today)
          counted == ApplyNights(ExactCalendar(e, today), nights)
      IN  IsRange(plan) => \/ InOrder(plan)
                           \/ AnniversaryInside(counted, today)
                           \/ counted[1][2] = 2 /\ counted[1][3] = 29
ASSUME PlanAssumption

\* A parking window in one month is in order unless today is inside it; an end that belongs to
\* the following month is never read so, when the month is left out.
WindowAssumption ==
  \A today \in Todays : \A m \in Months3 : \A a, b \in {1, 9, 15, 28} :
    LET window == ParkingWindow(<<0, m, a>>, <<0, 0, b>>, Omitted, today)
        year == today[1]
        inside == Before(<<year, m, a>>, today) /\ ~Before(<<year, m, b>>, today)
    IN  /\ a <= b => (InOrder(window) <=> ~inside)
        /\ window[2][2] = m
ASSUME WindowAssumption

\* Every minute of the day has exactly one name on a twelve-hour clock.
ClockAssumption ==
  LET names == {<<h, x>> : h \in 1..12, x \in {"am", "pm"}} IN
  /\ {Minutes(n[1], 0, n[2]) : n \in names} = {60 * h : h \in 0..23}
  /\ Minutes(12, 0, "am") = 0 /\ Minutes(12, 0, "pm") = 720
ASSUME ClockAssumption

===============================================================================
