\* Attempts at one run: crashes, failures, cancellation and resumption.
SPECIFICATION Spec
CONSTANTS
  a = a
  b = b
  x = x
  Assignments = {a, b, x}
  Permitted = {a, b}
  Plans <- SomePlans
  MaxPlan = 2
  MaxCost = 2
  Costs = {0, 2}
  MaxAttempts = 3
  Overlap = FALSE
INVARIANTS
  CostIsAccounted
  OverrunIsOneCall
  CompleteIsVerified
PROPERTIES
  PlanIsKept
CHECK_DEADLOCK FALSE
