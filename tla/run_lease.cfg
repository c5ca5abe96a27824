\* The life of automation runs over crashes, expiries, cancellations and recovery.
SPECIFICATION LeaseFairSpec
CONSTANTS
  r1 = r1
  p1 = p1
  p2 = p2
  Runs <- OneRun
  Replicas <- TwoReplicas
  MaxFix = 1
  BatchSize = 1
  MaxOutages = 2
INVARIANTS
  CompleteIsEarned
PROPERTIES
  StaleWorkerStops
  InterruptedRecovers
CHECK_DEADLOCK FALSE
