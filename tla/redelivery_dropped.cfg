\* One lost worker, whose message is delivered again at once.
CONSTANTS
  a1 = a1
  a2 = a2
  w1 = w1
  w2 = w2
  NoCopy = NoCopy
  Free = Free
  Api <- TwoReplicas
  Workers <- TwoWorkers
  Creator = a1
  Reviewed <- OtherReplica
  MaxDecisions = 0
  MaxFaults = 1
SPECIFICATION FairSpec
PROPERTY
  InterruptedResumes
