\* Concurrent calls, failures and crashes against one model budget.
SPECIFICATION BudgetSpec
CONSTANTS
  c1 = c1
  c2 = c2
  c3 = c3
  Calls <- ThreeCalls
  Amounts = {1, 2, 3}
  Priors = {0, 2}
  Ceiling = 6
  MaxConcurrent = 2
  Overrun = 1
SYMMETRY Symmetric
INVARIANTS
  WithinCeiling
  BillsAreCovered
CHECK_DEADLOCK FALSE
