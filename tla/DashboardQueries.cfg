\* Every endpoint once, while two orders are written and midnight passes.
SPECIFICATION Spec
CONSTANTS
  o1 = o1
  o2 = o2
  s1 = s1
  s2 = s2
  r1 = r1
  None = None
  Ids = {o1, o2}
  Shops = {s1, s2}
  Rows <- FewRows
  Queries <- FewQueries
  Requests = {r1}
  DayLen = 2
  WeekDays = 2
  MonthDays = 3
  Start = 4
  MaxNow = 6
  MaxWrites = 2
INVARIANTS
  TypeOK
  StaysInItsDay
  HalvesApart
  QuietAnswersAgree
CHECK_DEADLOCK FALSE
