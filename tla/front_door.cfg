\* Two replicas, three requests over two windows, a limit of one per window.
CONSTANTS
  p1 = p1
  p2 = p2
  r1 = r1
  r2 = r2
  r3 = r3
  Replicas <- TwoReplicas
  Requests <- ThreeRequests
  Limit = 1
  Window = 2
  KeyLife = 3
  ProbeLife = 2
  MaxProbe = 1
  NoProbe = NoProbe
  MaxClock = 4
  MaxRestarts = 1
  MaxTurns = 1
\* Requests and time run out: the system may stop.
CHECK_DEADLOCK FALSE
SPECIFICATION Spec
SYMMETRY Symmetry
INVARIANTS
  TypeOK
  LimitKept
  NeverShort
PROPERTY
  FreshAnswer
