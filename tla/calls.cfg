SPECIFICATION Spec
CONSTANTS
  Methods <- Remote
  Later <- LaterMethods
  MaxCalls = 2
  MaxFailures = 1
INVARIANTS
  TypeOK
  LeftoversOnlyOf
  OkMeansChanged
  ErrorMeansUnchanged
  TooManyIsTrue
  CrashesOnlyIn
PROPERTY CallsAnswered
CHECK_DEADLOCK FALSE
