SPECIFICATION Spec
CONSTANTS
    Jobs = {j1}
    Keys = {k1, k2}
    Deployments <- MCDeployments
    Missions <- MCMissions
    Queries <- MCQueries
    PlannerAnswers <- MCPlannerAnswers
    Outcomes <- MCOutcomes
    Usages <- MCUsages
    ApprovalTTL = 1
    MaxClock = 2
    MaxFailures = 2
    MaxCrashes = 1
    MaxLosses = 1
    WINDOW_SIZE = 2
    MIN_SAMPLES = 2
    AutonomousPerHour = 2
    CosignPerHour = 2
    Hour = 1
    ApprovalValidity = 1
INVARIANTS
    ApprovalExecutesOnce
    ConfidentialStaysInside
    SpendIsLedgered
CHECK_DEADLOCK FALSE
