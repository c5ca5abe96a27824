\* The admission barrier of the development worktree.
SPECIFICATION FairSpec
CONSTANTS
  v1 = v1  v2 = v2  d1 = d1
  Ids = {v1, v2}
  Admissions = {d1}
  Nobody = Nobody
  MaxCrashes = 1
INVARIANT BarrierCoversWork
PROPERTIES VerdictIsFinal WorkspaceComesBack
CHECK_DEADLOCK FALSE
