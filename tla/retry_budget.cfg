\* A crash and the recovery after it.
CONSTANTS
  NSteps = 2
  MaxStepRetries = 1
  MaxCrashes = 1
  MemoryCanFail = FALSE
  NoDump = NoDump
SPECIFICATION Spec
INVARIANT
  BudgetKept
