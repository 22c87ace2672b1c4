----------------------------- MODULE StatPeriods -----------------------------
(***************************************************************************)
(* StatData.update of notify/stat.go: hits by hour of the day, day of the     *)
(* month, month of the year and year, moved up when the next hit comes in     *)
(* another period.                                                            *)
(*                                                                           *)
(* The calendar is a parameter: hours of a day, days of each month, years.    *)
(* Hits come in the order of their times.  Bytes are added like hits; leap     *)
(* years are left out.                                                        *)
(***************************************************************************)
EXTENDS Integers, FiniteSets, FiniteSetsExt

CONSTANTS
  HoursOfDay, MonthsOfYear,  \* their number, 24 and 12
  DaysOf,                    \* the number of days of each month, from 0 on
  Years,                     \* years but 0, which no date has
  MaxHits                    \* bound on hits

Hours  == 0 .. HoursOfDay - 1
Months == 0 .. MonthsOfYear - 1
Days   == 0 .. Max({DaysOf[m] : m \in Months}) - 1
LastMonth == MonthsOfYear - 1

\* statTime.
Dates == {d \in [year : Years, month : Months, day : Days, hour : Hours] : d.day < DaysOf[d.month]}

IsLastDay(d) == d.day + 1 = DaysOf[d.month]

VARIABLES
  date,                          \* of the last hit, Never before the first
  hours, days, months, years,
  prev,                          \* the tables of the day, month and year before
  accesses,                      \* whether any user agent is counted
  log, jumped                    \* history: hits by date; a month has passed without a hit

vars == <<date, hours, days, months, years, prev, accesses, log, jumped>>

Never == [year |-> 0, month |-> 0, day |-> 0, hour |-> 0]

None(S) == [i \in S |-> 0]

Init ==
  /\ date = Never
  /\ hours = None(Hours) /\ days = None(Days) /\ months = None(Months) /\ years = None(Years)
  /\ prev = [hours |-> None(Hours), days |-> None(Days), months |-> None(Months)]
  /\ accesses = FALSE
  /\ log = None(Dates) /\ jumped = FALSE

\* The sum of a table up to and with k, and the table with what comes after k cleared.
SumTo(f, k) == MapThenSumSet(LAMBDA i : f[i], {i \in DOMAIN f : i <= k})
CutAfter(f, k) == [i \in DOMAIN f |-> IF i <= k THEN f[i] ELSE 0]

ClearBetween(f, a, b) == [i \in DOMAIN f |-> IF a < i /\ i < b THEN 0 ELSE f[i]]

-----------------------------------------------------------------------------
(* The tables when the first hit of another period comes at t. *)

Tables == [hours |-> hours, days |-> days, months |-> months, years |-> years, prev |-> prev,
           accesses |-> accesses]

Yesterday(isNext) == IF isNext THEN CutAfter(hours, date.hour) ELSE None(Hours)

AtNewYear(t) ==
  LET next == t.year = date.year + 1
      january == next /\ t.month = 0 /\ date.month = LastMonth
  IN  [hours  |-> IF january THEN None(Hours) ELSE hours,
       days   |-> IF next THEN None(Days) ELSE days,
       months |-> None(Months),
       years  |-> [years EXCEPT ![date.year] =
                     SumTo(months, date.month - 1)
                     + (IF next THEN SumTo(days, date.day) ELSE 0)
                     + (IF january THEN SumTo(hours, date.hour) ELSE 0)],
       prev   |-> [hours  |-> IF january THEN Yesterday(t.day = 0 /\ IsLastDay(date)) ELSE prev.hours,
                   days   |-> IF january THEN CutAfter(days, date.day)
                              ELSE IF next THEN None(Days) ELSE prev.days,
                   months |-> IF next THEN CutAfter(months, date.month) ELSE None(Months)],
       accesses |-> accesses]

AtNewMonth(t) ==
  LET next == t.month = date.month + 1
      whole == SumTo(days, date.day - 1) + IF next THEN SumTo(hours, date.hour) ELSE 0
  IN  [Tables EXCEPT
       !.hours  = IF next THEN None(Hours) ELSE @,
       !.days   = None(Days),
       !.months = ClearBetween([months EXCEPT ![date.month] = whole], date.month, t.month),
       !.prev.hours = IF next THEN Yesterday(t.day = 0 /\ IsLastDay(date)) ELSE @,
       !.prev.days  = IF next THEN CutAfter(days, date.day) ELSE None(Days),
       !.accesses = FALSE]

\* Mutant of AtNewDay: the hours of the last day with hits become those of the day before.
AtNewDayAsYesterday(t) ==
  [Tables EXCEPT
    !.hours = None(Hours),
    !.days  = ClearBetween([days EXCEPT ![date.day] = SumTo(hours, date.hour)], date.day, t.day),
    !.prev.hours = Yesterday(TRUE)]

AtNewDay(t) ==
  [Tables EXCEPT
    !.hours = None(Hours),
    !.days  = ClearBetween([days EXCEPT ![date.day] = SumTo(hours, date.hour)], date.day, t.day),
    !.prev.hours = Yesterday(t.day = date.day + 1)]

Moved(t) ==
  IF date = Never THEN Tables
  ELSE IF date.year # t.year THEN AtNewYear(t)
  ELSE IF date.month # t.month THEN AtNewMonth(t)
  ELSE IF date.day # t.day THEN AtNewDay(t)
  ELSE [Tables EXCEPT !.hours = ClearBetween(@, date.hour, t.hour)]

-----------------------------------------------------------------------------
MonthNo(d) == d.year * MonthsOfYear + d.month
DayNo(d) == d.year * SumTo(DaysOf, LastMonth) + SumTo(DaysOf, d.month - 1) + d.day
NotBefore(t, d) == DayNo(t) > DayNo(d) \/ (DayNo(t) = DayNo(d) /\ t.hour >= d.hour)

Total(D) == MapThenSumSet(LAMBDA d : log[d], D)

Update(t) ==
  LET new == Moved(t)
  IN  /\ NotBefore(t, date) /\ Total(Dates) < MaxHits
      /\ hours' = [new.hours EXCEPT ![t.hour] = @ + 1]
      /\ days' = new.days /\ months' = new.months /\ years' = new.years /\ prev' = new.prev
      /\ accesses' = new.accesses
      /\ date' = t
      /\ log' = [log EXCEPT ![t] = @ + 1]
      /\ jumped' = (jumped \/ (date # Never /\ MonthNo(t) > MonthNo(date) + 1))

\* The ticker of getRecordMiddleWare adds what it has counted since the last.
AddAccesses ==
  /\ date # Never /\ ~accesses /\ accesses' = TRUE
  /\ UNCHANGED <<date, hours, days, months, years, prev, log, jumped>>

Next == AddAccesses \/ \E t \in Dates : Update(t)

Spec == Init /\ [][Next]_vars

-----------------------------------------------------------------------------
(* What the tables should hold, from the log. *)

OnDay(n)   == {d \in Dates : DayNo(d) = n}
InMonth(n) == {d \in Dates : MonthNo(d) = n}
InYear(y)  == {d \in Dates : d.year = y}

\* The month, or day, of the last hit in D.  It is missing from the tables of the period before.
LastDay(D)     == Max({-1} \cup {d.day : d \in {e \in D : log[e] > 0}})
LastMonthIn(D) == Max({-1} \cup {d.month : d \in {e \in D : log[e] > 0}})

HoursExact == \A h \in Hours :
  /\ hours[h] = Total({d \in OnDay(DayNo(date)) : d.hour = h})
  /\ prev.hours[h] = Total({d \in OnDay(DayNo(date) - 1) : d.hour = h})

DaysExact == \A k \in Days :
  LET before == InMonth(MonthNo(date) - 1)
  IN  /\ days[k] = Total({d \in InMonth(MonthNo(date)) : d.day = k /\ k < date.day})
      /\ prev.days[k] = Total({d \in before : d.day = k /\ k # LastDay(before)})

MonthsExact == \A m \in Months :
  LET before == InYear(date.year - 1)
  IN  /\ months[m] = Total({d \in InYear(date.year) : d.month = m /\ m < date.month})
      /\ prev.months[m] = Total({d \in before : d.month = m /\ m # LastMonthIn(before)})

YearsExact == \A y \in Years : years[y] = Total({d \in InYear(y) : y < date.year})

NothingTwice ==
  SumTo(years, date.year - 1) + SumTo(months, date.month - 1) + SumTo(days, date.day - 1)
  + SumTo(hours, date.hour) <= Total(Dates)

\* Until a month goes by without a hit, each table holds exactly the hits of its period,
\* wherever midnight, the end of a month or of a year falls between two hits, and however
\* many hours or days are skipped; those of the periods before lack their last day and their
\* last month.  After it the tables may be wrong, but no hit is counted twice (stat.go:157).
PeriodsExact ==
  date # Never =>
    NothingTwice /\ (~jumped => HoursExact /\ DaysExact /\ MonthsExact /\ YearsExact)

(* Statements the code does not keep; see the README. *)
LastDayIsKept == \A k \in Days :
  date # Never /\ ~jumped => prev.days[k] = Total({d \in InMonth(MonthNo(date) - 1) : d.day = k})
AccessesOfMonth == [][date # Never /\ MonthNo(date') # MonthNo(date) => ~accesses']_vars
=============================================================================
