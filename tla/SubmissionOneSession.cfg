SPECIFICATION Spec
CONSTANTS
    Slots = {d1}
    RequiredSlots = {d1}
    MaxClock = 9
    Sections = {s1}
    Contents = {c1, c2, c3}
    NoContent = NoContent
    Complete = {c1, c2}
    Promotable = {c1, c2, c3}
    Requests = {r1, r2}
    SessionOf <- OneSession
SYMMETRY Symmetry
INVARIANTS
    ActiveManifestMatchesDrafts
    ApprovedContentWasSubmitted
PROPERTIES
    ImplementsLifecycle
