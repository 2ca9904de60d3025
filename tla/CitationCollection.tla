------------------------- MODULE CitationCollection -------------------------
(***************************************************************************)
(* The citation snapshot: app/importer/open_citation_collector.py asks     *)
(* OpenAlex or Semantic Scholar about every work of a manifest and writes  *)
(* one row per work; the loader of app/importer/open_citations.py accepts  *)
(* the file or refuses it.                                                 *)
(*                                                                         *)
(* A record is what a service holds of a paper: doi, title, year, whether  *)
(* authors are listed and the applicant among them, the citation count,    *)
(* whether the identifier is canonical, the yearly counts (complete or     *)
(* not), the years of the full history and the journal.  A row of the      *)
(* snapshot keeps the record it was matched with.                          *)
(***************************************************************************)
EXTENDS PublicationManifest

CONSTANTS
    Records,        \* records of the services
    Titles,         \* Titles[c]: the long titles that occur in citation c
    Unavailable     \* a request that stays unanswered after all attempts

\* The applicant is among the authors of a record only if it lists authors.
ASSUME RecordsAssumption == \A r \in Records : r.mine => r.authors

VARIABLES
    snapshot        \* the snapshot that is collected, written when it is whole, or None

Sources == {"OPENALEX", "SEMANTIC_SCHOLAR"}

-----------------------------------------------------------------------------
(* The collector.                                                          *)

AnyAuthor(record) == TRUE
NamesApplicant(record) == record.mine

\* _match_method: the DOI with an agreeing title, or the title or its
\* occurrence in the citation with the applicant among the authors.
MatchMethod(work, record) ==
    LET title == work.meta.title IN
    IF work.meta.doi # None /\ record.doi = work.meta.doi
    THEN IF title # None /\ record.title # title THEN None ELSE "DOI_EXACT"
    ELSE IF /\ title # None
            /\ record.title = title
            /\ work.meta.year = None \/ record.year = None \/ work.meta.year = record.year
            /\ NamesApplicant(record)
    THEN "TITLE_EXACT"
    ELSE IF /\ \E o \in work.occurrences : record.title \in Titles[o.cite]
            /\ NamesApplicant(record)
    THEN "RAW_CITATION_EXACT"
    ELSE None

\* match_openalex_candidate, match_semantic_scholar_candidate: a match needs
\* a count and a title; Semantic Scholar's also a list of authors.
Match(source, work, record) ==
    IF /\ record \in Records
       /\ MatchMethod(work, record) # None
       /\ record.count # None
       /\ record.title # None
       /\ source = "SEMANTIC_SCHOLAR" => record.authors
    THEN [method |-> MatchMethod(work, record), record |-> record]
    ELSE None

\* Yearly counts that do not add up are replaced by the full history, which
\* OpenAlex gives to holders of a key, or left out.
AnnualCounts(source, record, key) ==
    IF source = "SEMANTIC_SCHOLAR" THEN "none"
    ELSE IF record.annual = "complete" THEN "complete"
    ELSE IF key THEN record.history ELSE "none"

\* A cited work without a history stops the collection.
HistoryMissing(source, match, key) ==
    /\ source = "OPENALEX"
    /\ match # None
    /\ AnnualCounts(source, match.record, key) = "missing"

\* _row: an observed count or NOT_FOUND, with the journal OpenAlex names.
Row(source, work, match, key) ==
    [work |-> work.id, meta |-> work.meta,
     status |-> IF match = None THEN "NOT_FOUND" ELSE "OBSERVED",
     match |-> match,
     annual |-> IF match = None THEN "none" ELSE AnnualCounts(source, match.record, key),
     journal |-> IF match = None \/ source # "OPENALEX" THEN None ELSE match.record.journal]

\* OpenAlex is asked about DOIs only.  Semantic Scholar is asked about all
\* DOIs at once, and by title where that gives no match.
Asked(source, work, answer) ==
    IF source = "OPENALEX" THEN (IF work.meta.doi = None THEN <<>> ELSE <<answer.doi>>)
    ELSE (IF work.meta.doi = None THEN <<>> ELSE <<answer.doi>>)
         \o (IF Match(source, work, answer.doi) # None /\ work.meta.doi # None
             THEN <<>> ELSE <<answer.title>>)

Collected(source, work, answer, key) ==
    LET asked == Asked(source, work, answer)
        hits == {i \in DOMAIN asked : Match(source, work, asked[i]) # None}
        match == IF hits = {} THEN None
                 ELSE Match(source, work, asked[CHOOSE i \in hits : TRUE])
    IN  IF \/ \E i \in DOMAIN asked : asked[i] = Unavailable
           \/ HistoryMissing(source, match, key)
        THEN None
        ELSE Row(source, work, match, key)

\* The loop over the works.  A request that stays unanswered ends it, and
\* nothing is written: so does a journal whose page cannot be read.
StartCollection(manifest, source, key) ==
    /\ snapshot = None
    /\ Loads(manifest)
    /\ snapshot' = [manifest |-> manifest, source |-> source, key |-> key, rows |-> <<>>]

Whole(file) == file # None /\ Len(file.rows) = Len(file.manifest.works)

CollectWork(answer) ==
    LET work == snapshot.manifest.works[Len(snapshot.rows) + 1]
        row == Collected(snapshot.source, work, answer, snapshot.key)
    IN
    /\ snapshot # None
    /\ ~Whole(snapshot)
    /\ snapshot' = IF row = None THEN None ELSE [snapshot EXCEPT !.rows = Append(@, row)]

-----------------------------------------------------------------------------
(* The loader.                                                             *)

\* _validated_match_evidence.
MatchIsEvidenced(source, work, match) ==
    /\ match.record.canonical
    /\ match.record.title # None
    /\ match.method # "DOI_EXACT" => match.record.authors /\ match.record.mine
    /\ match.method = "DOI_EXACT" => match.record.doi = work.meta.doi
    /\ match.method = "TITLE_EXACT" => match.record.title = work.meta.title
    /\ match.method = "RAW_CITATION_EXACT" =>
          \E o \in work.occurrences : match.record.title \in Titles[o.cite]

\* _journal_evidence: a journal is complete or absent.
JournalIsEvidenced(source, row) ==
    row.journal # None =>
        source = "OPENALEX" /\ row.status = "OBSERVED" /\ row.journal # "incomplete"

RowLoads(source, work, row) ==
    /\ row.meta = work.meta
    /\ (row.status = "OBSERVED") <=> (row.match # None)
    /\ row.match # None => MatchIsEvidenced(source, work, row.match)
    /\ row.annual # "before 1900"
    /\ JournalIsEvidenced(source, row)

SnapshotLoads(file, manifest) ==
    /\ \A i \in DOMAIN file.rows : \E w \in ToSet(manifest.works) :
          w.id = file.rows[i].work /\ RowLoads(file.source, w, file.rows[i])
    /\ {file.rows[i].work : i \in DOMAIN file.rows} = {w.id : w \in ToSet(manifest.works)}

\* Records as the services document them.
WellFormed(record) ==
    record.canonical /\ record.history # "before 1900" /\ record.journal # "incomplete"

\* The two programs agree: what the collector writes from well-formed records
\* the loader accepts with the same manifest, whatever was matched.
CollectedSnapshotLoads ==
    (/\ Whole(snapshot)
     /\ \A i \in DOMAIN snapshot.rows :
           snapshot.rows[i].match # None => WellFormed(snapshot.rows[i].match.record)) =>
    SnapshotLoads(snapshot, snapshot.manifest)

\* The inductive invariant of the collection: the rows follow the works, and
\* each row from a well-formed record loads.
CollectionInv ==
    snapshot # None =>
        LET works == snapshot.manifest.works IN
        /\ DOMAIN snapshot = {"manifest", "source", "key", "rows"}
        /\ IsSeq(works)
        /\ IsSeq(snapshot.rows)
        /\ Len(snapshot.rows) <= Len(works)
        /\ \A i \in DOMAIN snapshot.rows : LET row == snapshot.rows[i] IN
              /\ row.work = works[i].id
              /\ (row.match # None => WellFormed(row.match.record)) =>
                    RowLoads(snapshot.source, works[i], row)
=============================================================================
