SPECIFICATION Spec
SYMMETRY HandlerSymmetry
CONSTANTS
    trainer = trainer
    clerk = clerk
    sovereign = sovereign
    Handlers = {h1, h2}
    Users = {trainer, clerk, sovereign}
    Allowed = {trainer, clerk, sovereign}
    ApproverIds = {clerk, sovereign}
    TradingApprovers = {clerk, sovereign}
    RoleMap <- MCRoleMap
    RateLimitPerMinute = 2
    ApprovalTtl = 0
    RuntimeTtl = 0
    UploadCaseTtl = 0
    PruneAge = 0
    MaxClock = 2
    MaxApprovals = 2
    MaxUpdates = 3
    MaxFaults = 2
INVARIANTS
    MissionRunsOnce
    ApprovedWasDone
CHECK_DEADLOCK FALSE
