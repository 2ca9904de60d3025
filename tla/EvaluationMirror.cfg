SPECIFICATION Spec
CONSTANTS
  ricky = ricky
  magda = magda
  adriano = adriano
  x1 = x1
  x2 = x2
  p1 = p1
  p2 = p2
  None = None
  Applications = {a1}
  Roster <- Order
  Comments = {t1}
  MaxRequests = 3
  Calls = {k1}
  Modes = {m1}
  DefaultMode = m1
  Tabs = {1}
  NoCall = NoCall
  MaxSteps = 0
  Owners = {o1}
  Texts = {x1}
  Pages = {p1}
  Recommends <- Letters
  MaxSources = 1
  MaxImports = 0
  MaxFaults = 0
CHECK_DEADLOCK FALSE
INVARIANT
  LegacyWritesAreMirrored
