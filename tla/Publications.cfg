SPECIFICATION Spec
CONSTANTS
    None = None
    Unavailable = Unavailable
    Folders = {"A", "B"}
    Manifests <- MCManifests
    Records <- MCRecords
    Titles <- MCTitles
    MaxRuns = 2
    MaxFiles = 1
INVARIANTS
    ImportNeverClashes
    AppliedManifestIsWhole
    CollectedSnapshotLoads
    CompletedCitationRunIsWhole
PROPERTIES
    ActivatedCutoffIsComplete
CHECK_DEADLOCK FALSE
