-------------------- MODULE MCPublicationReconciliation --------------------
(* A small corpus: five entries, two folders, base manifests of two works. *)
EXTENDS PublicationReconciliation

MCMeta(doi, title, journal, year) ==
    [doi |-> doi, title |-> title, journal |-> journal, year |-> year, pages |-> None]

MCEntry(doi, title, journal, year, kind, inside) ==
    [doi |-> doi, title |-> title, journal |-> journal, year |-> year, pages |-> None,
     kind |-> kind, inside |-> inside]

MCEntries == {"full", "dated", "garbled", "draft", "thesis"}

\* A full entry; one with a DOI and no year of its own; one whose title the
\* parser misses although it stands in the text; a
\* manuscript in preparation; a thesis.
MCText == [e \in MCEntries |->
    CASE e = "full" -> MCEntry(None, "T1", "J", 2020, "plain", {"T1"})
      [] e = "dated" -> MCEntry("d2", "T2", "J", None, "preprint", {"T2"})
      [] e = "garbled" -> MCEntry(None, None, "J", 2023, "plain", {"T1"})
      [] e = "draft" -> MCEntry(None, "T3", None, None, "preparation", {"T3"})
      [] e = "thesis" -> MCEntry(None, "T4", "J", 2019, "thesis", {"T4"})]

MCCrossref == [e \in MCEntries |->
    IF e = "garbled" THEN MCMeta("d1", "T1", "J", 2023) ELSE None]

MCWork(n, folder, meta, status, review) ==
    LET id == <<"base", n>>
        o == [id |-> <<folder, <<n, n>>, <<"full">>>>, work |-> id, folder |-> folder,
              cite |-> <<"full">>]
    IN  [id |-> id, folder |-> folder, meta |-> meta, status |-> status,
         review |-> review, occurrences |-> {o}, rep |-> o]

MCReview(d) == [disposition |-> d, basis |-> <<"reviewer">>]

MCManifest(works) ==
    Finished(works, UNION {w.occurrences : w \in ToSet(works)},
             UNION {CitationStatuses(w.id) : w \in ToSet(works)})

MCFirst == MCWork(7, "A", MCMeta(None, "T1", "J", 2020), "UNRESOLVED", MCReview("PUBLISHED"))
MCSecond == {
    MCWork(8, "A", MCMeta("d1", "T1", "J", 2020), "RESOLVED", None),
    MCWork(8, "A", MCMeta("d2", "T2", None, None), "RESOLVED", MCReview("PENDING_REVIEW")),
    MCWork(8, "A", MCMeta("d2", None, "J", 2021), "RESOLVED", MCReview("NON_PUBLICATION")),
    MCWork(8, "A", MCMeta(None, None, None, None), "UNRESOLVED", None),
    MCWork(8, "A", MCMeta(None, "T2", "J", 2017), "AMBIGUOUS", MCReview("PENDING_REVIEW")),
    MCWork(8, "B", MCMeta("d1", "T1", "J", 2020), "RESOLVED", None)}

\* Two works of one title that nobody has reviewed.
MCCopies == <<
    MCWork(7, "A", MCMeta(None, "T2", "J", 2020), "UNRESOLVED", None),
    MCWork(8, "A", MCMeta("d2", "T2", "J", 2020), "RESOLVED", None)>>

MCBases == {MCManifest(<<MCFirst, w>>) : w \in MCSecond} \cup {MCManifest(MCCopies)}
=============================================================================
