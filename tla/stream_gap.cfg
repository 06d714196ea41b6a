\* A worker's events through Redis, which loses one of them.
CONSTANTS
  here = here
  elsewhere = elsewhere
  NoEvent = NoEvent
  Emitters <- Elsewhere
  Local <- Nobody
  Capacity = 5
  ReplayLimit = 2
  MaxEvents = 4
  MaxConnects = 1
\* Emitters finish and clients stop connecting: the system may stop.
CHECK_DEADLOCK FALSE
SPECIFICATION Spec
INVARIANT
  LostIsReplayed
