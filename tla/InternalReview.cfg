SPECIFICATION Spec
CONSTANTS
  ricky = ricky
  magda = magda
  adriano = adriano
  x1 = x1
  x2 = x2
  p1 = p1
  p2 = p2
  None = None
  Applications = {a1}
  Roster <- Order
  Comments = {t1}
  MaxRequests = 5
  Calls = {k1, k2}
  Modes = {m1, m2}
  DefaultMode = m1
  Tabs = {1, 2}
  NoCall = NoCall
  MaxSteps = 6
  Owners = {o1, o2}
  Texts = {x1, x2}
  Pages = {p1, p2}
  Recommends <- Letters
  MaxSources = 2
  MaxImports = 2
  MaxFaults = 1
CHECK_DEADLOCK FALSE
INVARIANTS
  SavedWorkIsShown
  EveryBallotHasItsPlace
  PreferenceIsKept
  AppliedArtifactsAreServed
