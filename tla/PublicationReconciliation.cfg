SPECIFICATION CorpusSpec
CONSTANTS
    None = None
    Folders = {"A", "B"}
    Applicant = "A"
    Entries <- MCEntries
    OwnEntries <- MCEntries
    TerminalEntries = {"full", "dated"}
    Text <- MCText
    Crossref <- MCCrossref
    Bases <- MCBases
    LongTitles = {"T1", "T2", "T3", "T4"}
    PartOf = {}
    CredibleTitles = {"T1", "T2", "T3", "T4"}
    ColumnYear = 2021
    MaxLines = 4
    MaxPages = 2
    MaxTexts = 2
    MaxPasses = 2
INVARIANT CandidatesKeepTheirSection
INVARIANT ReconciliationIsAdditive
INVARIANT AcceptedReviewsStand
PROPERTY FilingIsFinal
CHECK_DEADLOCK FALSE
