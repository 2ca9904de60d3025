SPECIFICATION Spec
CONSTANTS
    Slots = {}
    RequiredSlots = {}
    MaxClock = 5
    Sections = {s1}
    Contents = {c1, c2}
    NoContent = NoContent
    Complete = {c1, c2}
    Promotable = {c1, c2}
    Requests = {r1, r2}
    SessionOf <- OwnSessions
SYMMETRY Symmetry
INVARIANTS
    ActiveManifestMatchesDrafts
