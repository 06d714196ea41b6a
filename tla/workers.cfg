\* Created by one replica and approved by either; two decisions, and one lost
\* process, redelivery or lock that expires under a running worker.
CONSTANTS
  a1 = a1
  a2 = a2
  w1 = w1
  w2 = w2
  NoCopy = NoCopy
  Free = Free
  Api <- TwoReplicas
  Workers <- TwoWorkers
  Creator = a1
  Reviewed <- TwoReplicas
  MaxDecisions = 2
  MaxFaults = 1
SPECIFICATION FairSpec
INVARIANTS
  TypeOK
  ExclusiveWorker
  GateKept
  DenialNeedsNo
PROPERTIES
  Drains
  RecordKept
