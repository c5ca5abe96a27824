SPECIFICATION Spec
SYMMETRY MCSymmetry
CONSTANTS
    AutonomousPerHour = 2
    CosignPerHour = 3
    Hour = 1
    ApprovalValidity = 1
    Asset <- MCAsset
    Ticks <- MCTicks
    Replicas = {p1, p2}
    Requests = {r1, r2}
    Sessions = {s1, s2}
    Queries = {q1, q2}
    UnifiedRequests <- MCUnifiedRequests
    Operators = {o1, o2}
    Deployments <- MCDeployments
    ModelActions <- MCModelActions
    DecisionDomains <- MCDecisionDomains
    maxRPM = 1
    Minute = 1
    KeepRecent = 1
    TokenLimit = 3
    MaxTime = 2
    MaxCrashes = 1
    MaxDbFailures = 1
INVARIANTS
    AnswersAreGoverned
    ReleasedOnce
    ExecutedIsRecorded
    AutonomousWithinLimit
    AllowedIsNotRejected
    ExecutedWithinEnvelope
CHECK_DEADLOCK FALSE
