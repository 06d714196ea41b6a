\* Reviewers, the janitor, failing memory writes and up to two crashes.
CONSTANTS
  NSteps = 3
  MaxStepRetries = 1
  MaxCrashes = 2
  MemoryCanFail = TRUE
  NoDump = NoDump
SPECIFICATION FairSpec
INVARIANTS
  TypeOK
  OnlyApprovedWork
  SingleWriter
  CallsBounded
  CompletedMeansVerified
  NoWorkAfterOutcome
  ReworkRuns
PROPERTIES
  Settles
  CompletedStays
  OutcomeStays
  OutcomeFollowed
  ImplementsGate
