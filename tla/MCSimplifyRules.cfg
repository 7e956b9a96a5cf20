SPECIFICATION Spec
\* A run of the loop ends when Simplify returns.
CHECK_DEADLOCK FALSE
CONSTANTS
  Inputs <- Trees
  Rows <- MCRows
  HoursADay = 2
  WeekDays = 3
  weekOffset <- BeforeTheFirst
  MonthStarts <- MCMonthStarts
  YearDays = 11
  QuarterMonths = 2
  LastDate = 40
  DurationSpan = 64
  MaxPasses = 32
  ExactIntegers = 16
INVARIANTS
  TypeOK
  SameAnswer
  ReadsBack
  SettlesBeforeTheBound
