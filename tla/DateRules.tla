------------------------------ MODULE DateRules ------------------------------
(***************************************************************************)
(* The calendar Simplify computes with when it folds dates (date_arith.go, *)
(* date_trunc.go), without the trees the dates are in. An instant is a     *)
(* number, the first of year 0 being 0; a day, a week, a month, a quarter  *)
(* and a year are as long as the constants say. What is particular about a *)
(* calendar stays: months of different lengths, weeks that no month is     *)
(* made of, and a clock inside the day.                                    *)
(***************************************************************************)
EXTENDS Integers, Sequences, FiniteSets, ComparisonRules

CONSTANTS
  HoursADay,      \* the instants of a day
  WeekDays,       \* the days of a week (7)
  weekOffset,     \* what the dialect's week starts after, or before, the first
  MonthStarts,    \* the days of a year that stand before each of its months
  YearDays,       \* the days of a year
  QuarterMonths,  \* the months of a quarter (3)
  LastDate,       \* the last instant a literal may be folded to (year 9999)
  DurationSpan    \* how far a time.Duration reaches either way before it wraps
                  \* (2^63 nanoseconds, 292 years)

ASSUME CalendarAssumption ==
  /\ {HoursADay, WeekDays, YearDays, QuarterMonths} \subseteq Nat \ {0}
  /\ weekOffset \in Int /\ LastDate \in Nat
  /\ DurationSpan \in Nat /\ WeekDays * HoursADay < DurationSpan
  /\ MonthStarts \in Seq(Nat) /\ MonthStarts # <<>> /\ MonthStarts[1] = 0
  /\ Len(MonthStarts) % QuarterMonths = 0
  /\ \A m \in DOMAIN MonthStarts :
       MonthStarts[m] < IF m = Len(MonthStarts) THEN YearDays ELSE MonthStarts[m + 1]

Months == Len(MonthStarts)

\* How many months, or how many instants, a unit is.
monthUnits == [YEAR |-> Months, QUARTER |-> QuarterMonths, MONTH |-> 1]
durationUnits == [WEEK |-> WeekDays * HoursADay, DAY |-> HoursADay, HOUR |-> 1]
truncUnits == {"YEAR", "QUARTER", "MONTH", "WEEK", "DAY"}

\* Months are numbered through the years.
FirstDay(month) == ((month \div Months) * YearDays) + MonthStarts[(month % Months) + 1]
daysInMonth(month) == FirstDay(month + 1) - FirstDay(month)
Day(t) == t \div HoursADay
Month(t) ==
  ((Day(t) \div YearDays) * Months)
    + Cardinality({m \in 1..Months : MonthStarts[m] <= Day(t) % YearDays}) - 1

dayOnly(t) == Day(t) * HoursADay

\* The same day of the month n months on, or the last that month has.
addMonthsClamped(t, n) ==
  LET to == Month(t) + n
      day == Day(t) - FirstDay(Month(t))
      last == daysInMonth(to) - 1
  IN  ((FirstDay(to) + (IF day > last THEN last ELSE day)) * HoursADay) + (t % HoursADay)

\* What is left of so many instants in a time.Duration, an int64 that wraps.
Duration(d) == ((d + DurationSpan) % (2 * DurationSpan)) - DurationSpan

addCalendarInterval(t, unit, n) ==
  IF unit \in DOMAIN monthUnits THEN addMonthsClamped(t, n * monthUnits[unit])
                                ELSE t + Duration(n * durationUnits[unit])

\* What SQL means by it: no duration wraps.
MovedBy(t, unit, n) ==
  IF unit \in DOMAIN monthUnits THEN addMonthsClamped(t, n * monthUnits[unit])
                                ELSE t + (n * durationUnits[unit])

dateTruncFloor(t, unit) ==
  IF unit \in DOMAIN monthUnits
  THEN FirstDay(Month(t) - (Month(t) % monthUnits[unit])) * HoursADay
  ELSE IF unit = "WEEK" THEN (Day(t) - ((Day(t) - weekOffset) % WeekDays)) * HoursADay
  ELSE dayOnly(t)

dateTruncNextFloor(t, unit) == addCalendarInterval(dateTruncFloor(t, unit), unit, 1)

\* What a truncated date is compared with, given the floor of the constant d
\* and the floor after it: the comparison that the date itself then satisfies.
truncComparison == [LT |-> "LT", GT |-> "GTE", LTE |-> "LT", GTE |-> "GTE"]
truncBound(class, floor, next, d) ==
  IF class \in {"LT", "GTE"} /\ floor = d THEN d ELSE next

\* x + n units is the instant d exactly where x is d - n units: no other day
\* of a longer month is clamped to d.
isExactIntervalMove(unit, n, d) ==
  unit \in DOMAIN monthUnits =>
    LET moved == addCalendarInterval(d, unit, -n)
    IN  /\ addCalendarInterval(moved, unit, n) = d
        /\ addCalendarInterval(moved + HoursADay, unit, n) # d

\* The spans of some floors, those that touch merged into one: where each
\* begins, and where it ends.
mergedLows(floors, unit) == {f \in floors : \A g \in floors : dateTruncNextFloor(g, unit) # f}
mergedHigh(low, floors, unit) ==
  LET ends == {dateTruncNextFloor(g, unit) : g \in {g \in floors : g >= low}} \ floors
  IN  CHOOSE e \in ends : \A f \in ends : e <= f

=============================================================================
