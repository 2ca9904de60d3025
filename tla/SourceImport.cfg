SPECIFICATION ImportSpec
CONSTANTS
    c1 = c1
    c2 = c2
    c3 = c3
    Applicants = {1, 2}
    RowValues = {v1, v2}
    Locators = {1, 2}
    Owner <- Folders
    Contents = {c1, c2, c3}
    TypeOf <- Types
    EmptyFile = EmptyFile
    NonPdf = NonPdf
    Absent = Absent
    MaxRuns = 3
    MaxEdits = 1
    MaxCrashes = 1
    MaxLost = 1
SYMMETRY Symmetry
CHECK_DEADLOCK FALSE
INVARIANTS
    ImportedOnce
    CompletedRunIsWhole
    StoreMatchesVersions
PROPERTY ImplementsLedger
