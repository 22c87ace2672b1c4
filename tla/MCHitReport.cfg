SPECIFICATION MCSpec
CONSTANTS
  Savers = {j1}
  Main = Main
  Subs = {d1}
  MaxCount = 2
  Requests = {r1}
  HoursOfDay = 2
  MonthsOfYear = 3
  DaysOf <- MCDaysOf
  Years = {1, 2}
  MaxHits = 4
INVARIANTS
  EachHitOnce
  NoMoreThanTotal
  PeriodsExact
PROPERTIES
  TotalsNeverGoBack
