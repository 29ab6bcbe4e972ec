--------------------------- MODULE DigestCalendar ---------------------------
(***************************************************************************)
(* The calendar the sweep runs on: add_months and its clamp, the advance   *)
(* of each cadence, the login window of the slowdown ladder and the life   *)
(* of a mailed link, followed day by day over a digest that is sent when   *)
(* due or a few days late.  Dates are civil dates; a sweep is taken to run *)
(* at the same hour every day.                                             *)
(***************************************************************************)
EXTENDS Integers

CONSTANTS
  Starts,      \* first dates
  Horizon,     \* BOUND: days followed from each of them
  MaxDelay     \* BOUND: days a send may be late

ASSUME CalendarNat == Horizon \in Nat /\ MaxDelay \in Nat

VARIABLES
  start,     \* the date this run began
  today,
  cadence,   \* digest_digests.periodicity
  due,       \* digest_digests.next_run_date
  mailed     \* the date of the latest mail, and of the links in it

calendarVars == <<start, today, cadence, due, mailed>>

Periodicities == {"daily", "weekly", "monthly", "quarterly"}

-----------------------------------------------------------------------------
(* Civil dates, as chrono has them *)

IsLeap(y)         == y % 4 = 0 /\ (y % 100 # 0 \/ y % 400 = 0)
MonthLength(y, m) == CASE m \in {4, 6, 9, 11} -> 30
                       [] m = 2               -> IF IsLeap(y) THEN 29 ELSE 28
                       [] OTHER               -> 31
Date(y, m, d)     == [y |-> y, m |-> m, d |-> d]
Valid(a)          == a.m \in 1 .. 12 /\ a.d \in 1 .. MonthLength(a.y, a.m)
Civil(a)          == a \in [y : Int, m : 1 .. 12, d : 1 .. 31] /\ Valid(a)
MonthIndex(a)     == 12 * a.y + (a.m - 1)

ASSUME StartsAreDates == \A a \in Starts : Civil(a)

\* Days before the month, in a year that is not a leap year.
DaysBefore == <<0, 31, 59, 90, 120, 151, 181, 212, 243, 273, 304, 334>>

\* Days since the beginning of year 0.
Ordinal(a) ==
  365 * a.y + (a.y + 3) \div 4 - (a.y + 99) \div 100 + (a.y + 399) \div 400
    + DaysBefore[a.m] + (IF a.m > 2 /\ IsLeap(a.y) THEN 1 ELSE 0) + a.d

FirstOfNext(a)   == IF a.m = 12 THEN Date(a.y + 1, 1, 1) ELSE Date(a.y, a.m + 1, 1)
LastOfPrevious(a) == IF a.m = 1 THEN Date(a.y - 1, 12, 31)
                                ELSE Date(a.y, a.m - 1, MonthLength(a.y, a.m - 1))

\* For at most four weeks either way: the month changes once at most.
PlusDays(a, n) ==
  LET d == a.d + n
  IN  IF d > MonthLength(a.y, a.m) THEN [FirstOfNext(a) EXCEPT !.d = d - MonthLength(a.y, a.m)]
      ELSE IF d < 1                THEN [LastOfPrevious(a) EXCEPT !.d = @ + d]
      ELSE [a EXCEPT !.d = d]

-----------------------------------------------------------------------------
(* The code's own arithmetic *)

\* The day before the first of the next month.
days_in_month(y, m) ==
  PlusDays(IF m = 12 THEN Date(y + 1, 1, 1) ELSE Date(y, m + 1, 1), -1).d

\* Variant: the day is not clamped.
AddMonthsUnclamped(from, months) ==
  LET total == from.y * 12 + (from.m - 1) + months
  IN  Date(total \div 12, (total % 12) + 1, from.d)

add_months(from, months) ==
  LET total == from.y * 12 + (from.m - 1) + months
      year  == total \div 12
      month == (total % 12) + 1
      dim   == days_in_month(year, month)
  IN  Date(year, month, IF from.d < dim THEN from.d ELSE dim)

\* Variant: a daily digest is due again the same day.
AdvanceDailyStays(p, from) ==
  CASE p = "daily"   -> from
    [] p = "weekly"  -> PlusDays(from, 7)
    [] p = "monthly" -> add_months(from, 1)
    [] OTHER         -> add_months(from, 3)

advance(p, from) ==
  CASE p = "daily"   -> PlusDays(from, 1)
    [] p = "weekly"  -> PlusDays(from, 7)
    [] p = "monthly" -> add_months(from, 1)
    [] OTHER         -> add_months(from, 3)

\* Variant: a month is four weeks.
WindowInWeeks(p, now) ==
  CASE p = "daily"   -> PlusDays(now, -2)
    [] p = "weekly"  -> PlusDays(now, -7)
    [] p = "monthly" -> PlusDays(now, -28)
    [] OTHER         -> add_months(now, -3)

login_window_since(p, now) ==
  CASE p = "daily"   -> PlusDays(now, -2)
    [] p = "weekly"  -> PlusDays(now, -7)
    [] p = "monthly" -> add_months(now, -1)
    [] OTHER         -> add_months(now, -3)

next_rung(p) == CASE p = "daily"  -> "weekly"
                  [] p = "weekly" -> "monthly"
                  [] OTHER        -> "quarterly"

\* Variant: the TTL of one quarter, counted as three months of 30 days.
QuarterTTL == 90

TOKEN_TTL_DAYS == 180

-----------------------------------------------------------------------------
(* A digest over the days *)

NextDay ==
  /\ Ordinal(today) < Ordinal(start) + Horizon
  /\ Ordinal(today) < Ordinal(due) + MaxDelay
  /\ today' = PlusDays(today, 1)
  /\ UNCHANGED <<start, cadence, due, mailed>>

\* A sweep that finds the digest due mails it and advances it, holding the
\* cadence or slowing it one rung; the advance is from today.
Send(target) ==
  /\ Ordinal(due) <= Ordinal(today)
  /\ target \in {cadence, next_rung(cadence)}
  /\ cadence' = target
  /\ due' = advance(target, today)
  /\ mailed' = today
  /\ UNCHANGED <<start, today>>

CalendarInit ==
  /\ start \in Starts
  /\ today = start
  /\ cadence \in Periodicities
  /\ due = advance(cadence, start)
  /\ mailed = start

CalendarNext == NextDay \/ \E target \in Periodicities : Send(target)

CalendarSpec == CalendarInit /\ [][CalendarNext]_calendarVars

-----------------------------------------------------------------------------
(* Properties *)

\* An advance is a day of the calendar, always later than the one it starts
\* from, and a slower rung is never sooner: what DigestSweep and DigestSchedule
\* assume of Advance.
AdvanceIsLater == \A p \in Periodicities :
  /\ Valid(advance(p, today))
  /\ Ordinal(advance(p, today)) > Ordinal(today)
  /\ Ordinal(advance(p, today)) <= Ordinal(advance(next_rung(p), today))

\* add_months lands in the month counted to, on the same day of it or, where
\* the month is too short, on its last: forwards, backwards and over the year.
ClampsToMonthEnd == \A n \in {-3, -1, 1, 3} :
  LET b == add_months(today, n)
  IN  /\ Valid(b)
      /\ MonthIndex(b) = MonthIndex(today) + n
      /\ b.d # today.d => b.d < today.d /\ ~Valid([b EXCEPT !.d = @ + 1])

\* Whoever logged in on a day after the latest mail counts when the digest next
\* falls due: the login window reaches back over the whole interval.
LoginSinceMailCounts ==
  today = due => Ordinal(login_window_since(cadence, today)) <= Ordinal(mailed)

\* The link in the latest mail outlives the wait for the next one, MaxDelay
\* days late included, at every cadence.
LinkOutlivesWait == Ordinal(today) <= Ordinal(mailed) + TOKEN_TTL_DAYS
=============================================================================
