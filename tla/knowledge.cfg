SPECIFICATION KnowledgeSpec
CONSTANTS
    a = a
    b = b
    c = c
    j1 = j1
    j2 = j2
    Jobs = {j1, j2}
    Documents <- MCDocuments
    Batches <- MCBatches
    Queries <- MCQueries
    Environments <- MCEnvironments
    MaxRows = 3
    MaxFaults = 1
    MaxRestarts = 1
SYMMETRY JobSymmetry
INVARIANTS
    AnswersWithinClearance
    AcknowledgedIsHeld
CHECK_DEADLOCK FALSE
