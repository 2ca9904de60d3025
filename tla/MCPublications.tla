--------------------------- MODULE MCPublications ---------------------------
(* Two applicants and four manifests that correct each other.              *)
EXTENDS CitationImport

MCMeta(doi, title, journal, year) ==
    [doi |-> doi, title |-> title, journal |-> journal, year |-> year, pages |-> None]

MCWork(id, folder, cite, meta, status, review) ==
    LET o == [id |-> <<id, cite>>, work |-> id, folder |-> folder, cite |-> cite] IN
    [id |-> id, folder |-> folder, meta |-> meta, status |-> status, review |-> review,
     occurrences |-> {o}, rep |-> o]

MCReview(d) == [disposition |-> d, basis |-> <<"reviewer">>]

MCManifest(works) ==
    Finished(works, UNION {w.occurrences : w \in ToSet(works)},
             UNION {CitationStatuses(w.id) : w \in ToSet(works)})

\* A pending work without DOI, a resolved one, and one of another applicant.
MCa == MCWork("a", "A", "c1", MCMeta(None, "T1", "J", 2020), "UNRESOLVED",
              MCReview("PENDING_REVIEW"))
MCb == MCWork("b", "A", "c2", MCMeta("d1", "T2", "J", 2021), "RESOLVED", None)
MCc == MCWork("c", "B", "c3", MCMeta("d9", "T3", "J", 2022), "RESOLVED", None)

\* The first work turns out to be the second; gets a DOI and another title; a
\* DOI without journal, with a copy of the citation listed as a work.
MCManifests == {
    MCManifest(<<MCa, MCb, MCc>>),
    MCManifest(<<MCWork("a", "A", "c1", MCMeta("d1", "T2", "J", 2021), "RESOLVED", None), MCc>>),
    MCManifest(<<MCWork("a", "A", "c1", MCMeta("d3", "T4", "J", 2020), "RESOLVED",
                        MCReview("PUBLISHED")),
                 MCWork("c", "B", "c3", MCMeta("d9", "T5", "J", 2022), "RESOLVED",
                        MCReview("PUBLISHED"))>>),
    MCManifest(<<MCWork("a", "A", "c1", MCMeta("d4", "T1", None, 2020), "RESOLVED", None),
                 MCWork("d", "A", "c1", MCMeta(None, "T1", "J", None), "UNRESOLVED", None)>>)}

MCRecord(doi, title, year, mine) ==
    [doi |-> doi, title |-> title, year |-> year, mine |-> mine, authors |-> TRUE, count |-> 5,
     canonical |-> TRUE, annual |-> "complete", history |-> "complete", journal |-> "complete"]

\* A record under the DOI, one of another edition, one with a namesake's
\* title, one whose title stands in the citation; incomplete ones.
MCRecords == {
    MCRecord("d1", "T2", 2021, TRUE),
    [MCRecord(None, "T1", 2020, TRUE) EXCEPT !.annual = "partial", !.history = "before 1900"],
    MCRecord("d7", "T3", 2022, FALSE),
    [MCRecord("d9", "T3", 2022, TRUE) EXCEPT !.annual = "partial", !.history = "missing"],
    [MCRecord("d8", "T2", 2019, TRUE) EXCEPT !.journal = "incomplete"],
    [MCRecord("d9", "T3", 2022, FALSE) EXCEPT !.authors = FALSE, !.journal = None],
    [MCRecord("d4", "T1", 2020, TRUE) EXCEPT !.count = None]}

MCTitles == [c \in {"c1", "c2", "c3"} |->
    CASE c = "c1" -> {"T1", "T2"} [] c = "c2" -> {"T2"} [] c = "c3" -> {"T3"}]
=============================================================================
