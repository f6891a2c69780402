--------------------------- MODULE BillingCalendar ---------------------------
(***************************************************************************)
(* addPeriod of subscriptions.service.ts on dates in UTC.  A date is a     *)
(* month, counted from January 2000, and a day of it; the time of day      *)
(* is kept by every operation of the code and left out.                    *)
(***************************************************************************)
EXTENDS Integers

Units == {"DAY", "WEEK", "MONTH", "YEAR"}

\* Date.UTC(year, month + 1, 0): the last day of a month.
DaysIn(month) ==
  LET year == 2000 + month \div 12
      leap == (year % 4 = 0 /\ year % 100 # 0) \/ year % 400 = 0
  IN CASE month % 12 = 1 -> IF leap THEN 29 ELSE 28
       [] month % 12 \in {3, 5, 8, 10} -> 30
       [] OTHER -> 31

Date == {d \in [month : Nat, day : 1..31] : d.day <= DaysIn(d.month)}

Before(d, e) == d.month < e.month \/ (d.month = e.month /\ d.day < e.day)

\* What setUTCDate is given: a day that may lie beyond the end of the month.
Daylike == [month : Nat, day : Nat]

\* setUTCDate with such a day: on into later months.
Roll[d \in Daylike] ==
  IF d.day <= DaysIn(d.month) THEN d
  ELSE Roll[[month |-> d.month + 1, day |-> d.day - DaysIn(d.month)]]

AddDays(from, days) == Roll[[from EXCEPT !.day = @ + days]]

\* Mutant of AddMonths: a bare setUTCMonth, which overflows.
AddMonthsBare(from, months) == Roll[[from EXCEPT !.month = @ + months]]

\* The same day of the target month, or its last day if it is shorter.
AddMonths(from, months) ==
  LET last == DaysIn(from.month + months)
  IN [month |-> from.month + months, day |-> IF from.day < last THEN from.day ELSE last]

\* terms: the period's duration and unit.
AddPeriod(from, terms) ==
  CASE terms.unit = "DAY"  -> AddDays(from, terms.duration)
    [] terms.unit = "WEEK" -> AddDays(from, 7 * terms.duration)
    [] terms.unit = "YEAR" -> AddMonths(from, 12 * terms.duration)
    [] OTHER               -> AddMonths(from, terms.duration)
=============================================================================
