SPECIFICATION FairSpec
CONSTANTS
  None = None
  c1 = c1
  c2 = c2
  c3 = c3
  p1 = p1
  p2 = p2
  Callers = {c1, c2, c3}
  Processes = {p1, p2}
  Home <- MCHome
  MaxEntries = 3
  Fragile = {c1}
INVARIANTS
  MutualExclusion
  SlotsAgree
PROPERTIES
  TurnComes
CHECK_DEADLOCK FALSE
