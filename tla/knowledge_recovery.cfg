SPECIFICATION KnowledgeFairSpec
CONSTANTS
    a = a
    b = b
    c = c
    j1 = j1
    j2 = j2
    Jobs = {j1}
    Documents <- MCDocuments
    Batches <- OneBatch
    Queries <- NoQuery
    Environments <- OneEnvironment
    MaxRows = 2
    MaxFaults = 1
    MaxRestarts = 0
PROPERTY LevelRecovers
CHECK_DEADLOCK FALSE
