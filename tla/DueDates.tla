-------------------------------- MODULE DueDates --------------------------------
(***************************************************************************)
(* What _normalize_due_date makes of the due date of a decision            *)
(* (phantom_runtime.py), as a function of today.  A date is a year, a      *)
(* month and a day; a day is also its ordinal, 1 being the first day of    *)
(* year 1, a Monday.  What the patterns found is a record: its form, and a *)
(* year, month, day or weekday where the form has one, 0 where it is left  *)
(* out (weekday 7).  0 is no date.                                         *)
(***************************************************************************)
EXTENDS Integers

\* External: datetime.date.

Leap(y) == y % 4 = 0 /\ (y % 100 # 0 \/ y % 400 = 0)
MonthLength(y, m) ==
  CASE m = 2 /\ Leap(y) -> 29 [] m = 2 /\ ~Leap(y) -> 28 [] m \in {4, 6, 9, 11} -> 30 [] OTHER -> 31

DaysBefore(y, m) ==
  LET before[k \in 1..m] == IF k = 1 THEN 0 ELSE before[k - 1] + MonthLength(y, k - 1)
  IN before[m]

\* The ordinal of a date, 0 when there is no such day (ValueError).
Date(y, m, d) ==
  IF m \in 1..12 /\ d \in 1..MonthLength(y, m)
    THEN 365 * (y - 1) + (y - 1) \div 4 - (y - 1) \div 100 + (y - 1) \div 400 + DaysBefore(y, m) + d
    ELSE 0

Weekday(n) == (n + 6) % 7    \* Monday is 0

-----------------------------------------------------------------------------
Ordinal(today) == Date(today.y, today.m, today.d)
LastDay(y, m) == Date(y, m, MonthLength(y, m))

\* Days to the next day that falls on wd, today excluded: (wd - today) % 7 or 7.
DaysTo(wd, n) == LET k == (wd - Weekday(n)) % 7 IN IF k = 0 THEN 7 ELSE k
NextMonday(n) == n + DaysTo(0, n)

\* Mutated form: a date that is today's has passed.
YearOfPassed(e, today) ==
  IF e.m > today.m \/ (e.m = today.m /\ e.d > today.d) THEN today.y ELSE today.y + 1

\* A month and a day without a year: next year's, once it has passed.
YearOf(e, today) ==
  IF e.m > today.m \/ (e.m = today.m /\ e.d >= today.d) THEN today.y ELSE today.y + 1
MonthDay(e, today) == Date(IF e.y # 0 THEN e.y ELSE YearOf(e, today), e.m, e.d)

Absolute(e, today) == IF e.form = "iso" THEN Date(e.y, e.m, e.d) ELSE MonthDay(e, today)

NextMonth(e, today) ==
  LET y == IF today.m = 12 THEN today.y + 1 ELSE today.y
      m == IF today.m = 12 THEN 1 ELSE today.m + 1
  IN IF e.d # 0 /\ Date(y, m, e.d) # 0 THEN Date(y, m, e.d) ELSE LastDay(y, m)

\* Fridays stand for weeks; a week-end is its Sunday.
Relative(e, today) ==
  LET n == Ordinal(today)
  IN CASE e.form = "tomorrow" -> n + 1
       [] e.form = "in two days" -> n + 2
       [] e.form = "today" -> n
       [] e.form = "this week" -> n + ((4 - Weekday(n)) % 7)
       [] e.form = "this week-end" -> n + DaysTo(6, n)
       [] e.form = "this month" -> LastDay(today.y, today.m)
       [] e.form = "next week" -> NextMonday(n) + (IF e.wd = 7 THEN 4 ELSE e.wd)
       [] e.form = "next week-end" -> NextMonday(n) + 6
       [] e.form = "next month" -> NextMonth(e, today)
       [] e.form = "by weekday" -> n + DaysTo(e.wd, n)
       [] e.form = "due on" -> Date(e.y, e.m, e.d)
       [] e.form = "before" -> MonthDay(e, today)

\* _normalize_due_date
NormalizeDueDate(e, today) ==
  CASE e.form \in {"none", "unresolved"} -> 0
    [] e.form \in {"iso", "month day"} -> Absolute(e, today)
    [] OTHER -> Relative(e, today)
=============================================================================
