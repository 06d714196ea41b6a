\* Two calls, either backend, every kind of program; one call is cancelled.
CONSTANTS
  c1 = c1
  c2 = c2
  Calls <- TwoCalls
  MaxCancelled = 1
\* Calls end: the system may stop.
CHECK_DEADLOCK FALSE
SPECIFICATION FairSpec
INVARIANTS
  TypeOK
  OkMeansRan
  NothingLeft
PROPERTY
  CallsEnd
