------------------------------ MODULE TripDates ------------------------------
(***************************************************************************)
(* The calendar of the booking chat: which days the buyer's words name,    *)
(* read on a given day (calendar_resolve.py, and the readers of the        *)
(* projector, the refinements and the session).  Pure definitions over the *)
(* expressions the patterns extract; a day is <<year, month, day>>.        *)
(***************************************************************************)
EXTENDS Naturals, Sequences

NoDate == << >>
NoRange == << >>
Raises == <<0>>      \* an uncaught ValueError, of a day or of a range

\* a month, day or year an expression may leave out
Omitted == 0

-------------------------------------------------------------------------------
(* Days.                                                                   *)

\* _is_leap
IsLeap(year) == year % 4 = 0 /\ (year % 100 # 0 \/ year % 400 = 0)

DaysIn(year, month) ==
  IF month = 2 THEN IF IsLeap(year) THEN 29 ELSE 28
  ELSE IF month \in {4, 6, 9, 11} THEN 30 ELSE 31

\* date, _parse_iso, _valid_iso: the arguments that make a day
IsDate(date) ==
  /\ Len(date) = 3 /\ date[2] \in 1..12
  /\ 1 <= date[3] /\ date[3] <= DaysIn(date[1], date[2])

\* the comparison of ISO strings, also of those that are no day
Rank(date) == 10000 * date[1] + 100 * date[2] + date[3]
Before(a, b) == Rank(a) < Rank(b)

Tomorrow(date) ==
  IF date[3] < DaysIn(date[1], date[2]) THEN <<date[1], date[2], date[3] + 1>>
  ELSE IF date[2] < 12 THEN <<date[1], date[2] + 1, 1>> ELSE <<date[1] + 1, 1, 1>>

\* date + timedelta
Plus(date, days) ==
  LET after[n \in 0..days] == IF n = 0 THEN date ELSE Tomorrow(after[n - 1])
  IN  after[days]

-------------------------------------------------------------------------------
(* A month and a day without a year.                                       *)

\* the first leap year from a year on
LeapFrom(year) == CHOOSE y \in year..(year + 8) : IsLeap(y) /\ \A z \in year..(y - 1) : ~IsLeap(z)

\* nearest_future_year, or 0 for its ValueError; the branch for 29 February is only reached in a
\* year that is not leap, where it starts from the next
NearestFutureYear(month, day, today) ==
  LET year == today[1] IN
  IF IsDate(<<year, month, day>>)
  THEN IF Before(<<year, month, day>>, today) THEN year + 1 ELSE year
  ELSE IF month = 2 /\ day = 29 THEN LeapFrom(year + 1)
  ELSE 0

\* the day in the year that was typed or resolved
InYear(year, month, day) ==
  IF year = 0 THEN Raises
  ELSE IF IsDate(<<year, month, day>>) THEN <<year, month, day>> ELSE NoDate

\* resolve_ymd: a year other than 20xx counts as left out
Resolve(month, day, year, today) ==
  IF day \notin 1..31 THEN NoDate
  ELSE InYear(IF year \in 2000..2099 THEN year ELSE NearestFutureYear(month, day, today),
              month, day)

\* what is found, a day or a range, or else what is found next
OrElse(found, next) == IF found = NoDate THEN next ELSE found

\* rewrite_past_iso_if_year_omitted
Rewrite(date, yearTyped, today) ==
  IF yearTyped THEN date ELSE OrElse(Resolve(date[2], date[3], Omitted, today), date)

-------------------------------------------------------------------------------
(* What the buyer wrote.  "span": 14 to 16 [October [2027]], with the      *)
(* month behind the second day; "monthFirst": October 14 - November 3;     *)
(* "leading": 28 December to 3 [January]; "single": on 17 October; "iso":  *)
(* two dates in full; "bare": 14 to 16; "none": no days; "blank": no text. *)

Forms == {"span", "monthFirst", "leading", "single", "iso", "bare", "none", "blank"}
\* parts are <<year, month, day>> with what is left out Omitted
Expression(form, start, end) == [form |-> form, start |-> start, end |-> end]

\* user_typed_year
YearTyped(e) == \E part \in {e.start, e.end} : part # NoDate /\ part[1] \in 2000..2099

\* _ordered_range, _ordered
Ordered(start, end) == IF Before(end, start) THEN NoRange ELSE <<start, end>>

\* two resolved days as a range, or what comes of the patterns tried next
RangeOr(start, end, next) ==
  IF Raises \in {start, end} THEN Raises
  ELSE IF NoDate \in {start, end} THEN next
  ELSE Ordered(start, end)

\* two resolved days, or the second in the year of the first when it would come before it
SameYear(start, end) ==
  IF Raises \in {start, end} THEN Raises
  ELSE IF NoDate \in {start, end} THEN NoRange
  ELSE IF Before(end, start) THEN Ordered(start, <<start[1], end[2], end[3]>>)
  ELSE <<start, end>>

\* parse_bare_day_span: the days of today's month, each resolved on its own
BareSpan(first, last, today) ==
  SameYear(Resolve(today[2], first, Omitted, today), Resolve(today[2], last, Omitted, today))

OneDay(date) == IF date \in {NoDate, Raises} THEN date ELSE <<date, date>>

\* parse_anchor_date: the first day with its month behind it
Anchor(e, today) ==
  CASE e.form \in {"single", "leading"} -> Resolve(e.start[2], e.start[3], e.start[1], today)
    [] e.form = "span" -> Resolve(e.end[2], e.end[3], e.end[1], today)
    [] OTHER -> NoDate

\* what the year of one part is when only the other has one
YearOf(part, other) == IF part[1] # Omitted THEN part[1] ELSE other[1]
MonthOf(part, other) == IF part[2] # Omitted THEN part[2] ELSE other[2]

\* parse_exact_calendar
ExactCalendar(e, today) ==
  LET s == e.start
      f == e.end
      bare == OrElse(BareSpan(s[3], f[3], today), OneDay(Anchor(e, today)))
  IN  CASE e.form = "iso" -> Ordered(s, f)
        [] e.form = "span" ->
             RangeOr(Resolve(f[2], s[3], f[1], today), Resolve(f[2], f[3], f[1], today), bare)
        [] e.form = "monthFirst" ->
             RangeOr(Resolve(s[2], s[3], YearOf(s, f), today),
                     Resolve(f[2], f[3], YearOf(f, s), today), NoRange)
        [] e.form = "leading" ->
             RangeOr(Resolve(s[2], s[3], s[1], today),
                     Resolve(MonthOf(f, s), f[3], YearOf(f, s), today),
                     OneDay(Anchor(e, today)))
        [] e.form = "bare" -> BareSpan(s[3], f[3], today)
        [] e.form = "single" -> OneDay(Anchor(e, today))
        [] e.form \in {"none", "blank"} -> NoRange

\* parse_trip_dates, the chat's own reader, knows fewer forms and no single days
TripDates(e, today) ==
  LET s == e.start
      f == e.end
  IN  CASE e.form = "iso" -> Ordered(s, f)
        [] e.form = "span" ->
             RangeOr(Resolve(f[2], s[3], f[1], today), Resolve(f[2], f[3], f[1], today), NoRange)
        [] e.form = "leading" ->
             RangeOr(Resolve(s[2], s[3], s[1], today),
                     Resolve(MonthOf(f, s), f[3], YearOf(f, s), today), NoRange)
        [] OTHER -> NoRange

-------------------------------------------------------------------------------
(* The dates of a plan.                                                    *)

\* _overlay_checkout: the new end is taken as it stands, a day or not
OverlayCheckout(range, checkout) ==
  LET end == <<YearOf(checkout, range[2]), MonthOf(checkout, range[2]), checkout[3]>> IN
  IF range = NoRange \/ checkout = NoDate \/ Before(end, range[1]) THEN range
  ELSE <<range[1], end>>

\* apply_stay_duration, for a stay that has only its first day
ApplyNights(range, nights) ==
  IF nights > 0 /\ range # NoRange /\ IsDate(range[1]) /\ range[1] = range[2]
  THEN <<range[1], Plus(range[1], nights)>> ELSE range

\* the rewriting of both ends, each on its own (_canonicalize_fact_years,
\* _canonicalize_session_dates)
RewriteRange(range, yearTyped, today) ==
  LET Both(start, end) == IF Raises \in {start, end} THEN Raises ELSE <<start, end>>
  IN  Both(Rewrite(range[1], yearTyped, today), Rewrite(range[2], yearTyped, today))

\* extract_facts: the start and the end of the trip, from the days that were found
Lasting(range, checkout, nights, yearTyped, today) ==
  IF range \in {Raises, NoRange} THEN range
  ELSE RewriteRange(ApplyNights(OverlayCheckout(range, checkout), nights), yearTyped, today)

\* extract_facts: the day that is named on its own
DayAlone(e, today) == IF e.form = "leading" THEN NoRange ELSE OneDay(Anchor(e, today))

\* extract_facts: the days found in the text, or else the day that is named on its own
PlanDates(e, checkout, nights, today) ==
  Lasting(OrElse(ExactCalendar(e, today), DayAlone(e, today)), checkout, nights,
          YearTyped(e) \/ (checkout # NoDate /\ checkout[1] # Omitted), today)

-------------------------------------------------------------------------------
(* Parking windows, which carry clock times.                               *)

\* _clock_to_hhmm: 12am is midnight; the hour is not bounded
Minutes(hour, minute, meridiem) ==
  LET h == IF meridiem = "pm" /\ hour < 12 THEN hour + 12
           ELSE IF meridiem = "am" /\ hour = 12 THEN 0 ELSE hour
  IN  60 * h + minute

\* parse_parking_clock_window: a month left out is the one the text names first, then the start's
ParkingWindow(start, end, context, today) ==
  LET first == IF start[2] # Omitted THEN start[2] ELSE context
      from == Resolve(first, start[3], Omitted, today)
      until == Resolve(IF end[2] # Omitted THEN end[2] ELSE first, end[3], Omitted, today)
  IN  IF first = Omitted THEN NoRange
      ELSE IF Raises \in {from, until} THEN Raises
      ELSE IF NoDate \in {from, until} THEN NoRange
      ELSE <<from, until>>

===============================================================================
