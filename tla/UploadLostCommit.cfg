SPECIFICATION UploadSpec
CONSTANTS
    Slots = {d1, d2}
    RequiredSlots = {d1}
    MaxClock = 4
    Contents = {c1, c2}
    Workers = {w1, w2}
    MaxUploads = 3
    MaxCrashes = 0
SYMMETRY Symmetry
CHECK_DEADLOCK FALSE
INVARIANT
    RegisteredObjectIsStored
