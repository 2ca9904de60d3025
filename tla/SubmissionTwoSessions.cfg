SPECIFICATION Spec
CONSTANTS
    Slots = {d1}
    RequiredSlots = {d1}
    MaxClock = 9
    Sections = {s1}
    Contents = {c1, c2}
    NoContent = NoContent
    Complete = {c1, c2}
    Promotable = {c1}
    Requests = {r1, r2}
    SessionOf <- OwnSessions
SYMMETRY RequestSymmetry
INVARIANTS
    RecordsInv
    ActiveVersionWasAccepted
    ReturnedSectionWasChanged
    ReviewStateConsistent
PROPERTIES
    NoLostUpdate
    ApprovalIsFinal
