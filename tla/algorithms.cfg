SPECIFICATION AlgorithmsSpec
CONSTANTS
    CHARS_PER_TOKEN = 1
    MinWindow = 3
    MaxTokens = 6
    MaxPlan = 3
    PlanCaps = {2, 3}
    PlannerTasks <- MCTasks
    MaxText = 7
    ChunkOptions <- MCChunkOptions
    cpu = cpu
    gpu = gpu
    Metrics = {cpu, gpu}
    HysteresisBreaches = 2
    CapacityPerSeries = 3
    MaxPolls = 4
    Polls <- MCPolls
INVARIANTS
    ComputedIsExact
    PlanIsExecutable
    ChunksCover
    DegradationIsWarranted
CHECK_DEADLOCK FALSE
