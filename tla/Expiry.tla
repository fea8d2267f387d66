------------------------------- MODULE Expiry -------------------------------
(***************************************************************************)
(* How long a plan authorizes: the calendar arithmetic of                  *)
(* harness-runtime/src/expiry.rs against a calendar that counts days, and  *)
(* the window of a plan from its making to its refusal.  An instant is a   *)
(* pair <<day since 1970-01-01, second of the day>>; milliseconds, which   *)
(* the code drops, and the digits of the text are left out.                *)
(***************************************************************************)
EXTENDS Integers

CONSTANTS FirstYear, LastYear, \* the reference calendar is walked between these
          Window,      \* PLAN_WINDOW_SECONDS
          Moments,     \* seconds of the day at which the clock is read
          IssueDates,  \* <<month, day>> on which plans are made
          NoPlan

SecondsInDay == 86400

ExpiryAssumption ==
  /\ FirstYear \in Nat /\ LastYear \in Nat /\ FirstYear < 1970 /\ 1970 < LastYear
  /\ Window \in 1 .. SecondsInDay /\ Moments \subseteq 0 .. SecondsInDay - 1

VARIABLES date,     \* the reference: <<year, month, day>>, moved a day at a time
          number,   \* days since 1970-01-01, counted along
          second,   \* the clock within the day
          issued    \* the instant the current plan was made at, and its deadline

expiryVars == <<date, number, second, issued>>

-----------------------------------------------------------------------------
\* mutant: the century rule is forgotten
IsLeapEveryFour(year) == year % 4 = 0

IsLeap(year) == (year % 4 = 0 /\ year % 100 # 0) \/ year % 400 = 0

DaysInMonth(year, month) ==
  CASE month \in {1, 3, 5, 7, 8, 10, 12} -> 31
    [] month \in {4, 6, 9, 11} -> 30
    [] month = 2 -> IF IsLeap(year) THEN 29 ELSE 28
    [] OTHER -> 0

\* Hinnant's algorithms.  `/` truncates and both shift negative eras first,
\* which is the division of TLA+.
CivilFromDays(days) ==
  LET shifted == days + 719468
      era == shifted \div 146097
      dayOfEra == shifted - era * 146097
      yearOfEra == (dayOfEra - dayOfEra \div 1460 + dayOfEra \div 36524
                             - dayOfEra \div 146096) \div 365
      dayOfYear == dayOfEra - (365 * yearOfEra + yearOfEra \div 4 - yearOfEra \div 100)
      shiftedMonth == (5 * dayOfYear + 2) \div 153
      month == IF shiftedMonth < 10 THEN shiftedMonth + 3 ELSE shiftedMonth - 9
  IN <<yearOfEra + era * 400 + (IF month <= 2 THEN 1 ELSE 0), month,
       dayOfYear - (153 * shiftedMonth + 2) \div 5 + 1>>

\* mutant: the year is not shifted to start in March
DaysUnshifted(year, month, day) ==
  LET era == year \div 400
      yearOfEra == year - era * 400
      monthShift == IF month > 2 THEN month - 3 ELSE month + 9
      dayOfYear == (153 * monthShift + 2) \div 5 + day - 1
  IN era * 146097 + yearOfEra * 365 + yearOfEra \div 4 - yearOfEra \div 100
     + dayOfYear - 719468

DaysFromCivil(year, month, day) ==
  LET shifted == IF month <= 2 THEN year - 1 ELSE year
      era == shifted \div 400
      yearOfEra == shifted - era * 400
      monthShift == IF month > 2 THEN month - 3 ELSE month + 9
      dayOfYear == (153 * monthShift + 2) \div 5 + day - 1
      dayOfEra == yearOfEra * 365 + yearOfEra \div 4 - yearOfEra \div 100 + dayOfYear
  IN era * 146097 + dayOfEra - 719468

\* `parse_utc_seconds`: the fields of the text, or NoPlan when they name no
\* instant.  A leap second is accepted and counts as the next second.
ParseUtcSeconds(f) ==
  IF /\ f.month \in 1 .. 12 /\ f.day \in 1 .. 31
     /\ f.hour <= 23 /\ f.minute <= 59 /\ f.second <= 60
     /\ f.day <= DaysInMonth(f.year, f.month)
  THEN LET of == f.hour * 3600 + f.minute * 60 + f.second
       IN <<DaysFromCivil(f.year, f.month, f.day) + of \div SecondsInDay, of % SecondsInDay>>
  ELSE NoPlan

FormatUtc(instant) ==
  LET civil == CivilFromDays(instant[1])
  IN [year |-> civil[1], month |-> civil[2], day |-> civil[3],
      hour |-> instant[2] \div 3600, minute |-> (instant[2] % 3600) \div 60,
      second |-> instant[2] % 60]

\* mutant: the deadline stays on the day it was asked for
DeadlineSameDay(seconds, now) ==
  FormatUtc(<<now[1], (now[2] + seconds) % SecondsInDay>>)

DeadlineIn(seconds, now) ==
  FormatUtc(<<now[1] + (now[2] + seconds) \div SecondsInDay, (now[2] + seconds) % SecondsInDay>>)

Later(a, b) == a[1] > b[1] \/ (a[1] = b[1] /\ a[2] > b[2])

\* mutant: the deadline itself is refused
ExpiredAtDeadline(text, now) ==
  ParseUtcSeconds(text) = NoPlan \/ ~Later(ParseUtcSeconds(text), now)

\* A clock before 1970 cannot be compared: everything has expired.
HasExpired(text, now) ==
  \/ ParseUtcSeconds(text) = NoPlan
  \/ now[1] < 0
  \/ Later(now, ParseUtcSeconds(text))

\* `validate_expiry`, the first thing an application asks of its plan.
ValidateExpiry(text, now) == ParseUtcSeconds(text) # NoPlan /\ ~HasExpired(text, now)

-----------------------------------------------------------------------------
ExpiryInit ==
  /\ date = <<1970, 1, 1>> /\ number = 0 /\ second = 0
  /\ issued = NoPlan

\* The reference calendar: a table of months, leap years listed by exception.
MonthEnd(year, month) ==
  LET long == year % 4 = 0 /\ year \notin {1700, 1800, 1900, 2100, 2200, 2300}
  IN <<31, IF long THEN 29 ELSE 28, 31, 30, 31, 30, 31, 31, 30, 31, 30, 31>>[month]

After(d) == IF d[3] < MonthEnd(d[1], d[2]) THEN <<d[1], d[2], d[3] + 1>>
            ELSE IF d[2] = 12 THEN <<d[1] + 1, 1, 1>> ELSE <<d[1], d[2] + 1, 1>>

Before(d) == IF d[3] > 1 THEN <<d[1], d[2], d[3] - 1>>
             ELSE IF d[2] = 1 THEN <<d[1] - 1, 12, 31>>
             ELSE <<d[1], d[2] - 1, MonthEnd(d[1], d[2] - 1)>>

\* The plan of the day before is kept for one more day.
Tomorrow(s) ==
  /\ number >= 0 /\ After(date)[1] <= LastYear
  /\ issued = NoPlan => s = 0
  /\ date' = After(date) /\ number' = number + 1 /\ second' = s
  /\ issued' = IF issued # NoPlan /\ issued.at[1] = number THEN issued ELSE NoPlan

\* The reference walked backwards, for instants before 1970.
Yesterday ==
  /\ number <= 0 /\ issued = NoPlan /\ second = 0
  /\ Before(date)[1] >= FirstYear
  /\ date' = Before(date) /\ number' = number - 1
  /\ UNCHANGED <<second, issued>>

\* `mutate` makes a plan for its own window.
IssuePlan(s) ==
  /\ number >= 0 /\ issued = NoPlan /\ s >= second /\ <<date[2], date[3]>> \in IssueDates
  /\ second' = s
  /\ issued' = [at |-> <<number, s>>, deadline |-> DeadlineIn(Window, <<number, s>>)]
  /\ UNCHANGED <<date, number>>

ClockMoves(s) ==
  /\ issued # NoPlan /\ s > second
  /\ second' = s
  /\ UNCHANGED <<date, number, issued>>

ExpiryNext ==
  \/ \E s \in Moments : Tomorrow(s) \/ IssuePlan(s) \/ ClockMoves(s)
  \/ Yesterday

ExpirySpec == ExpiryInit /\ [][ExpiryNext]_expiryVars

-----------------------------------------------------------------------------
(***************************************************************************)
(* Properties.                                                             *)
(***************************************************************************)

\* Every day of the calendar has the number the code computes for it, and the
\* code names the day of that number: leap years, centuries, both sides of 1970.
CalendarAgrees ==
  /\ DaysFromCivil(date[1], date[2], date[3]) = number
  /\ CivilFromDays(number) = date

\* Exactly the dates that exist parse: the last day of a month does, and the
\* one after it in the same month does not.
OnlyRealDatesParse ==
  LET at(d) == ParseUtcSeconds([year |-> d[1], month |-> d[2], day |-> d[3],
                                hour |-> 0, minute |-> 0, second |-> 0])
  IN /\ at(date) = <<number, 0>>
     /\ date[3] = MonthEnd(date[1], date[2]) => at(<<date[1], date[2], date[3] + 1>>) = NoPlan

\* A plan this build made authorizes through the last second of its window and
\* not one second longer, also across midnight, a month end and a leap day.
WindowIsExact ==
  issued # NoPlan =>
    LET elapsed == (number - issued.at[1]) * SecondsInDay + second - issued.at[2]
    IN ValidateExpiry(issued.deadline, <<number, second>>) <=> elapsed <= Window

=============================================================================
