\* The approval may be served by the replica that created the task.
CONSTANTS
  a1 = a1
  a2 = a2
  w1 = w1
  w2 = w2
  NoCopy = NoCopy
  Free = Free
  Api <- TwoReplicas
  Workers <- TwoWorkers
  Creator = a1
  Reviewed <- TwoReplicas
  MaxDecisions = 1
  MaxFaults = 0
SPECIFICATION Spec
INVARIANT
  ApprovedPlanRuns
