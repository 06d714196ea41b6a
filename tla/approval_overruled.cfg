\* No crash at all: a reviewer and the runner's deadline.
CONSTANTS
  NSteps = 2
  MaxStepRetries = 0
  MaxCrashes = 0
  MemoryCanFail = FALSE
  NoDump = NoDump
SPECIFICATION Spec
INVARIANT
  ApprovalHonoured
