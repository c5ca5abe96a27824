\* The audit chain and its mirror: late, lost and reordered answers, crashes.
SPECIFICATION Spec
CONSTANTS
  p1 = p1
  p2 = p2
  Replicas = {p1, p2}
  Payloads <- OneDecision
  Polled = {p1}
  MaxLinks = 3
  MaxProbes = 2
INVARIANTS
  ChainVerifies
  NoFalseGreen
PROPERTIES
  GreenIsRecent
  ImplementsLog
CHECK_DEADLOCK FALSE
