\* The default threshold; a first and a last attempt.
CONSTANTS
  ApprovalThreshold = 60
  MaxStepRetries = 1
  Plans <- TwoPlans
  Texts <- TwoTexts
  AgentScores <- LimitScores
  NoRisk = NoRisk
\* A run that has ended stays where it is.
CHECK_DEADLOCK FALSE
SPECIFICATION Spec
INVARIANTS
  TypeOK
  FailsVisibly
  DemoServesAll
  NoMixing
  FloorKept
  SignalNeverLowers
PROPERTY
  Ends
