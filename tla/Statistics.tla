----------------------------- MODULE Statistics ------------------------------
(***************************************************************************)
(* The statistics of the cluster: the totals, their files and their report    *)
(* (HitReport), and the tables of the periods (StatPeriods).                 *)
(*                                                                           *)
(* One hit goes to both, but the report does not look at the tables, which    *)
(* move up in one step, so the two share no variable.                        *)
(***************************************************************************)
EXTENDS HitReport

CONSTANTS HoursOfDay, MonthsOfYear, DaysOf, Years, MaxHits

VARIABLES date, hours, days, months, years, prev, accesses, log, jumped

periodVars == <<date, hours, days, months, years, prev, accesses, log, jumped>>

Periods == INSTANCE StatPeriods

\* Days have hours, years have months and months have days; no date has the year 0.
ASSUME CalendarAssumption ==
  /\ HoursOfDay \in Nat \ {0} /\ MonthsOfYear \in Nat \ {0}
  /\ DaysOf \in [0 .. MonthsOfYear - 1 -> Nat \ {0}]
  /\ IsFiniteSet(Years) /\ Years \subseteq Nat \ {0}

\* The tables hold the hits of their periods.
PeriodsExact == Periods!PeriodsExact
=============================================================================
