\* Two executor processes over one unit.
SPECIFICATION FairSpec
CONSTANTS
  p1 = p1  p2 = p2
  u1 = u1  o1 = o1  o2 = o2  m1 = m1  a1 = a1  a2 = a2  k1 = k1  h1 = h1  h2 = h2
  Requests = {p1, p2}
  Resources = {u1}
  Owners = {o1, o2}
  NoOwner = NoOwner
  Mandates = {m1}
  Keys = {a1, a2, k1}
  Hashes = {h1, h2}
  Scenarios <- Pairs
  Revocable = {a1}
  Lapsing = {a2}
  Overtime = FALSE
INVARIANTS
  KeySingleUse
  DoneIsReal
  InterruptedIsQuiet
  ReplyIsRecorded
  ExclusiveAcrossOwners
PROPERTIES
  EveryProcessEnds
  LeaseIsFreed
CHECK_DEADLOCK FALSE
