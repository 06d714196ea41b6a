\* An emitter in the serving process and one elsewhere, whose messages Redis
\* loses and reorders; a queue and a replay that overflow.
CONSTANTS
  here = here
  elsewhere = elsewhere
  NoEvent = NoEvent
  Emitters <- Both
  Local <- Here
  Capacity = 1
  ReplayLimit = 1
  MaxEvents = 3
  MaxConnects = 2
\* Emitters finish and clients stop connecting: the system may stop.
CHECK_DEADLOCK FALSE
SPECIFICATION FairSpec
INVARIANTS
  TypeOK
  SentOnce
  NothingMissed
PROPERTY
  StreamEnds
