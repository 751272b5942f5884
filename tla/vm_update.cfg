SPECIFICATION Spec
CONSTANTS
  Polls = {p1, p2}
  Machines = {a, b}
  MaxChildren = 4
INVARIANTS
  TypeOK
  CountIsChildren
  NoStatistics
  OkOnlyAboutStrangers
  FreedOnlyWhere
PROPERTIES
  JoinSpec
  ReportAnswered
CHECK_DEADLOCK FALSE
