--------------------- MODULE PublicationReconciliation ---------------------
(***************************************************************************)
(* app/importer/publication_reconciliation.py: the candidates extracted    *)
(* from an applicant's PDF are matched against the works of the base       *)
(* manifest; matches fill blank fields and pending reviews, the others     *)
(* become works of their own.  The result is loaded again, compared with   *)
(* the base and written beside it.                                         *)
(*                                                                         *)
(* Titles are the normalised ones.  A citation is the sequence of entries  *)
(* the extraction joined: the parser reads its fields from the first, the  *)
(* titles of all of them occur in it.                                      *)
(***************************************************************************)
EXTENDS PublicationExtraction, Integers

CONSTANTS
    Bases,          \* base manifests
    Applicant,      \* the folder whose document is read
    Crossref,       \* Crossref[e]: the record Crossref holds of the entry, or None
    LongTitles,     \* titles of at least 16 characters
    PartOf,         \* <<t, u>>: title t occurs in title u
    CredibleTitles, \* titles the classifier takes for titles
    ColumnYear,     \* the year a year column shows
    MaxPasses

\* A work or an occurrence of a manifest has the fields of one; an identifier
\* of the reconciliation's own making (_occurrence_id) names what it was made of.
IsWork(w) == DOMAIN w = {"id", "folder", "meta", "status", "review", "occurrences", "rep"}
IsOccurrence(o) ==
    /\ o = [id |-> o.id, work |-> o.work, folder |-> o.folder, cite |-> o.cite]
    /\ o.id = <<Applicant, o.id[2], o.id[3]>> => o.folder = Applicant /\ o.cite = o.id[3]

IsManifest(m) ==
    /\ IsSeq(m.works)
    /\ \A i \in DOMAIN m.works : IsWork(m.works[i])
    /\ \A o \in m.occurrences : IsOccurrence(o)

ASSUME BasesAssumption == \A b \in Bases : IsManifest(b)

VARIABLES
    base,           \* the manifest the run starts from, once it is opened
    outcome,        \* what the last pass did
    passes

corpusVars == <<extractionVars, base, outcome, passes>>

-----------------------------------------------------------------------------
(* Parsing and classification of one candidate.                            *)

\* What the citation parser reads, whichever way the citation is punctuated.
FallbackParse(cite) == Text[cite[1]]

\* The status words of a citation are looked for in all of its text; the first
\* of these that any of its entries has decides.
StatusWords(cite) ==
    LET order == <<"thesis", "narrative", "preparation", "preprint", "plain">>
        found == {n \in DOMAIN order : \E i \in DOMAIN cite : Text[cite[i]].kind = order[n]}
    IN  order[CHOOSE n \in found : \A m \in found : n <= m]

\* _parse_candidate: the year is the candidate's.
Parsed(candidate) ==
    LET found == FallbackParse(candidate.cite) IN
    [meta |-> [doi |-> found.doi, title |-> found.title, journal |-> found.journal,
               year |-> candidate.year, pages |-> found.pages],
     kind |-> StatusWords(candidate.cite), source |-> "parser"]

TitlesIn(cite) == UNION {Text[cite[i]].inside : i \in DOMAIN cite}

\* What the record lacks the parser supplies.
Completed(parsed, best) ==
    IF best.doi = None THEN None
    ELSE [parsed EXCEPT !.source = "crossref",
            !.meta = [f \in Fields |-> IF best[f] # None THEN best[f] ELSE @[f]]]

\* CrossrefBibliographicResolver.resolve over the entries Crossref answers
\* for: one title that occurs in the citation, a compatible year and a DOI.
Resolution(candidate, parsed, answered) ==
    LET records == {Crossref[e] : e \in answered \cap ToSet(candidate.cite)} \ {None}
        matches == {r \in records :
            /\ r.title \in LongTitles \cap TitlesIn(candidate.cite)
            /\ \/ parsed.meta.year = None
               \/ parsed.meta.year < 2000
               \/ r.year = None
               \/ r.year - parsed.meta.year \in -2..2}
    IN  IF Cardinality({r.title : r \in matches}) # 1 THEN None
        ELSE Completed(parsed, CHOOSE r \in matches : TRUE)

QualityFailure(parsed) ==
    parsed.kind = "narrative" \/ parsed.meta.title \notin CredibleTitles

\* classify_publication: from the status words of the citation, the section
\* it stands in and the fields the parser found.
Classification(parsed, hint) ==
    CASE parsed.kind = "thesis" -> "NON_PUBLICATION"
      [] /\ parsed.kind # "thesis"
         /\ QualityFailure(parsed) -> "PENDING_REVIEW"
      [] /\ parsed.kind = "preparation"
         /\ ~QualityFailure(parsed) -> "UNDER_PREPARATION"
      [] /\ parsed.kind \in {"preprint", "plain"}
         /\ parsed.kind = "preprint" \/ hint = "ACCEPTED_PREPRINT"
         /\ ~QualityFailure(parsed) -> "ACCEPTED_PREPRINT"
      [] /\ parsed.kind = "plain"
         /\ hint = "UNDER_PREPARATION"
         /\ ~QualityFailure(parsed) -> "UNDER_PREPARATION"
      [] OTHER -> IF Complete(parsed.meta) THEN "PUBLISHED" ELSE "PENDING_REVIEW"

ForMetadata(disposition, meta) ==
    IF disposition = "PUBLISHED" /\ ~Complete(meta) THEN "PENDING_REVIEW" ELSE disposition

ReviewValues(candidate, parsed, disposition) ==
    [disposition |-> disposition, basis |-> <<parsed.source, candidate.page, candidate.cite>>]

OccurrenceOf(candidate, work) ==
    [id |-> <<Applicant, candidate.page, candidate.cite>>, work |-> work,
     folder |-> Applicant, cite |-> candidate.cite]

-----------------------------------------------------------------------------
(* Repairs of the base, before any candidate.                              *)

Quarantined(work, reason) ==
    [work EXCEPT !.review = [disposition |-> "NON_PUBLICATION", basis |-> reason]]

Empty(work) ==
    /\ \A f \in Fields \ {"pages"} : work.meta[f] = None
    /\ Disposition(work) \in {None, "PENDING_REVIEW"}

WithoutEmptyWorks(works) ==
    [i \in DOMAIN works |->
        IF Empty(works[i]) THEN Quarantined(works[i], <<"empty">>) ELSE works[i]]

Rank(work) ==
    LET order == <<"NON_PUBLICATION", "PENDING_REVIEW", "UNDER_PREPARATION",
                   "ACCEPTED_PREPRINT", "PUBLISHED">>
    IN  IF work.review = None THEN 0
        ELSE CHOOSE n \in DOMAIN order : order[n] = Disposition(work)

WeightByDoi(work) ==
    (IF work.meta.doi # None THEN 12 ELSE 0) + (IF work.status = "RESOLVED" THEN 6 ELSE 0)
                                             + Rank(work)
\* max over (review rank, has a DOI, is resolved); the first of equals.
Weight(work) ==
    Rank(work) * 4 + (IF work.meta.doi # None THEN 2 ELSE 0)
                   + (IF work.status = "RESOLVED" THEN 1 ELSE 0)

SameTitle(works, i) ==
    {j \in DOMAIN works : /\ works[i].meta.title \in LongTitles
                          /\ works[j].folder = works[i].folder
                          /\ works[j].meta.title = works[i].meta.title}

Primary(works, group) ==
    CHOOSE i \in group : \A j \in group :
        \/ Weight(works[i]) > Weight(works[j])
        \/ Weight(works[i]) = Weight(works[j]) /\ i <= j

WithoutTitleCopies(works) ==
    [i \in DOMAIN works |->
        LET group == SameTitle(works, i) IN
        IF Cardinality(group) > 1 /\ i # Primary(works, group)
        THEN Quarantined(works[i], <<"duplicate of", works[Primary(works, group)].id>>)
        ELSE works[i]]

-----------------------------------------------------------------------------
(* Matching.                                                               *)

Nothing == [work |-> 0, action |-> None]

CompatibleYear(year, work) ==
    \/ year = None
    \/ work.meta.year = None
    \/ work.meta.year - year \in {-1, 0, 1}

Matched(found, action) == [work |-> CHOOSE i \in found : TRUE, action |-> action]

\* _match_work: by DOI, then title and year, then a title in the citation;
\* two unrelated titles in the citation are ambiguous.
MatchWork(works, parsed, cite) ==
    LET mine == {i \in DOMAIN works : /\ works[i].folder = Applicant
                                      /\ Disposition(works[i]) # "NON_PUBLICATION"}
        byDoi == {i \in mine : parsed.meta.doi # None /\ works[i].meta.doi = parsed.meta.doi}
        inside == {i \in mine : works[i].meta.title \in LongTitles \cap TitlesIn(cite)}
        titles == {works[i].meta.title : i \in inside}
        maximal == {t \in titles : \A u \in titles \ {t} : <<t, u>> \notin PartOf}
        byTitle == {i \in mine : /\ parsed.meta.title # None
                                 /\ works[i].meta.title = parsed.meta.title
                                 /\ CompatibleYear(parsed.meta.year, works[i])}
        exact == {i \in byTitle : /\ parsed.meta.year # None
                                  /\ works[i].meta.year = parsed.meta.year}
        embedded == {i \in inside : /\ works[i].meta.title \in maximal
                                    /\ CompatibleYear(parsed.meta.year, works[i])}
    IN  IF Cardinality(byDoi) = 1 THEN Matched(byDoi, "MATCHED_DOI")
        ELSE IF Cardinality(maximal) > 1 THEN [work |-> 0, action |-> "AMBIGUOUS_MULTIPLE_TITLES"]
        ELSE IF Cardinality(byTitle) = 1 THEN Matched(byTitle, "MATCHED_TITLE")
        ELSE IF Cardinality(exact) = 1 THEN Matched(exact, "MATCHED_TITLE")
        ELSE IF Cardinality(embedded) = 1 THEN Matched(embedded, "MATCHED_TITLE_IN_CITATION")
        ELSE Nothing

-----------------------------------------------------------------------------
(* One candidate after the other.                                          *)

Audited(doc, candidate, action) ==
    [doc EXCEPT !.audit = Append(@, [cite |-> candidate.cite, page |-> candidate.page,
                                     action |-> action])]

\* _add_occurrence: an occurrence the document knows is not added again.
AddOccurrence(doc, i, candidate, action) ==
    LET o == OccurrenceOf(candidate, doc.works[i].id) IN
    IF \E p \in doc.occurrences : p.id = o.id
    THEN Audited(doc, candidate, "ALREADY_RECONCILED")
    ELSE Audited([doc EXCEPT !.occurrences = @ \cup {o},
                             !.works[i].occurrences = @ \cup {o}], candidate, action)

FinalWorkId(candidate, parsed) ==
    <<"parser", Applicant, parsed.meta.doi, parsed.meta.title, parsed.meta.year, candidate.cite>>

AddWork(doc, candidate, parsed, disposition) ==
    LET id == FinalWorkId(candidate, parsed)
        work == [id |-> id, folder |-> Applicant, meta |-> parsed.meta,
                 status |-> IF parsed.meta.doi # None THEN "RESOLVED" ELSE "UNRESOLVED",
                 review |-> ReviewValues(candidate, parsed,
                                         ForMetadata(disposition, parsed.meta)),
                 occurrences |-> {}, rep |-> OccurrenceOf(candidate, id)]
    IN  AddOccurrence([doc EXCEPT !.works = Append(@, work),
                                  !.statuses = @ \cup CitationStatuses(id)],
                      Len(doc.works) + 1, candidate, "ADDED_WORK")

FilledOver(old, new) == [f \in Fields |-> IF new[f] # None THEN new[f] ELSE old[f]]
Filled(old, new) == [f \in Fields |-> IF old[f] # None THEN old[f] ELSE new[f]]

\* _reconcile_review: an explicit review stands, and so does the tacit one of
\* a resolved work against a pending classification.
ReviewStands(work, disposition) ==
    \/ Disposition(work) \notin {None, "PENDING_REVIEW"}
    \/ /\ Disposition(work) = None
       /\ work.status = "RESOLVED"
       /\ disposition = "PENDING_REVIEW"

FillWork(doc, i, candidate, parsed, disposition, action) ==
    LET old == doc.works[i]
        meta == Filled(old.meta, parsed.meta)
        resolved == [old EXCEPT !.meta = meta,
                        !.status = IF meta.doi # None THEN "RESOLVED" ELSE @]
        reviewed == IF ReviewStands(resolved, disposition) THEN resolved
                    ELSE [resolved EXCEPT !.review =
                            ReviewValues(candidate, parsed, ForMetadata(disposition, meta))]
    IN  AddOccurrence([doc EXCEPT !.works[i] = reviewed], i, candidate, action)

\* A candidate that was matched, or is not to be, by what it was classified as.
Filed(doc, candidate, parsed, match, disposition) ==
    IF match.work # 0
    THEN FillWork(doc, match.work, candidate, parsed, disposition, match.action)
    ELSE IF disposition = "NON_PUBLICATION"
    THEN Audited(doc, candidate, "SKIPPED_NON_PUBLICATION")
    ELSE IF disposition = "PENDING_REVIEW" /\ QualityFailure(parsed)
    THEN Audited(doc, candidate, "SKIPPED_UNPARSABLE_CITATION")
    ELSE AddWork(doc, candidate, parsed, disposition)

\* Crossref is asked when nothing matches what the parser read; its record is
\* matched again.
MatchedOrResolved(doc, candidate, parsed, match, resolved) ==
    IF match.action = "AMBIGUOUS_MULTIPLE_TITLES"
    THEN Audited(doc, candidate, "SKIPPED_AMBIGUOUS_CITATION")
    ELSE IF match.work # 0 \/ resolved = None
    THEN Filed(doc, candidate, parsed, match, Classification(parsed, candidate.hint))
    ELSE Filed(doc, candidate, resolved, MatchWork(doc.works, resolved, candidate.cite),
               Classification(resolved, candidate.hint))

SettleParsed(doc, candidate, parsed, answered) ==
    MatchedOrResolved(doc, candidate, parsed, MatchWork(doc.works, parsed, candidate.cite),
                      Resolution(candidate, parsed, answered))

Settle(doc, candidate, answered) == SettleParsed(doc, candidate, Parsed(candidate), answered)

Repaired(manifest) ==
    [works |-> WithoutTitleCopies(WithoutEmptyWorks(manifest.works)),
     occurrences |-> manifest.occurrences, statuses |-> manifest.statuses, audit |-> <<>>]

\* reconcile_publication_manifest: after[n] is what the first n candidates, in
\* the order the reconciliation sorts them, have made of the manifest.
Reconciliations(manifest, answered) ==
    LET after[n \in 0 .. Len(candidates)] ==
            IF n = 0 THEN Repaired(manifest) ELSE Settle(after[n - 1], candidates[n], answered)
    IN  after

Reconcile(manifest, answered) == Reconciliations(manifest, answered)[Len(candidates)]

AcceptedDispositions == {"PUBLISHED", "ACCEPTED_PREPRINT", "UNDER_PREPARATION"}

\* _accepted_counts.
Accepted(work) ==
    \/ Disposition(work) \in AcceptedDispositions
    \/ work.review = None /\ work.status = "RESOLVED"

AcceptedCount(works, folder) ==
    CountOf(works, LAMBDA w : w.folder = folder /\ Accepted(w))

-----------------------------------------------------------------------------
(* The run.                                                                *)

Idle == [kind |-> "idle"]

CorpusInit ==
    /\ ExtractionInit
    /\ base = None
    /\ outcome = Idle
    /\ passes = 0

Reading == passes = 0 /\ outcome = Idle

ReadNext ==
    /\ Reading
    /\ \/ \E prefix \in Entries \cup {None} : InlineStop(prefix)
       \/ \E prefix, suffix \in Entries \cup {None}, hint \in Hints :
              InlineSection(prefix, hint, suffix)
       \/ \E hint \in Hints : Heading(hint)
       \/ StopHeading
       \/ IgnoredLine
       \/ BlankLine
       \/ \E e \in Entries, mark \in Marks : TextLine(e, mark, ColumnYear)
       \/ NextPage
    /\ UNCHANGED <<base, outcome, passes>>

\* The end of the document flushes the buffer.
EndDocument ==
    /\ Reading
    /\ candidates' = Flushed(reader)
    /\ reader' = Closed
    /\ position' = Start
    /\ outcome' = [kind |-> "extracted"]
    /\ UNCHANGED <<base, passes>>

\* The base manifest, which the run loads before it reads the documents; the
\* place of the lines is of no use from here on.
OpenBase ==
    /\ outcome.kind = "extracted"
    /\ base' \in {b \in Bases : Loads(b)}
    /\ candidates' = [i \in DOMAIN candidates |-> [candidates[i] EXCEPT !.lines = <<>>]]
    /\ outcome' = Idle
    /\ passes' = 1
    /\ UNCHANGED <<reader, position>>

\* A run that writes whatever it made, if no count went down.
VerdictUnloaded(result) ==
    IF \E f \in Folders : AcceptedCount(result.works, f) < AcceptedCount(base.works, f)
    THEN "decreased" ELSE "written"

\* Nothing is written when the result does not load or an applicant has fewer
\* accepted publications than before.
Verdict(result) ==
    IF ~Loads(result) THEN "unloadable"
    ELSE IF \E f \in Folders : AcceptedCount(result.works, f) < AcceptedCount(base.works, f)
    THEN "decreased" ELSE "written"

Conclude(result, kind, audit) ==
    /\ outcome' = [kind |-> kind, before |-> base, after |-> result, audit |-> audit]
    /\ base' = IF kind = "written" THEN result ELSE base

\* run_corpus_reconciliation.
RunCorpusReconciliation(answered) ==
    /\ passes \in 1..MaxPasses
    /\ passes' = passes + 1
    /\ \E doc \in {Reconcile(base, answered)} :
          \E result \in {Finished(doc.works, doc.occurrences, doc.statuses)} :
              Conclude(result, Verdict(result), doc.audit)
    /\ UNCHANGED extractionVars

CorpusNext ==
    \/ ReadNext
    \/ EndDocument
    \/ OpenBase
    \/ \E answered \in SUBSET {e \in Entries : Crossref[e] # None} : RunCorpusReconciliation(answered)

CorpusSpec == CorpusInit /\ [][CorpusNext]_corpusVars

-----------------------------------------------------------------------------
(* Properties.                                                             *)

\* However headings, inline headings, blank lines and page breaks fall, a
\* candidate holds lines of one section, in reading order, with the status of
\* that section, and no line belongs to two candidates.
CandidatesKeepTheirSection ==
    /\ \A i \in DOMAIN candidates : \A j, k \in DOMAIN candidates[i].lines :
          LET lines == candidates[i].lines IN
          /\ lines[j].section = lines[k].section
          /\ lines[j].section[2] = candidates[i].hint
          /\ j < k => lines[j].number < lines[k].number
    /\ \A i, j \in DOMAIN candidates : (i < j /\ passes = 0) =>
          Last(candidates[i].lines).number <= candidates[j].lines[1].number

\* The works that list the candidate.
FiledUnder(candidate, works) ==
    {i \in DOMAIN works : OccurrenceOf(candidate, works[i].id) \in works[i].occurrences}

\* The written manifest keeps every work of the base at its place with its
\* identifier, its evidence and every value it had, and files every candidate
\* that was not skipped under exactly one work.
ReconciliationIsAdditive ==
    outcome.kind = "written" =>
        /\ \A i \in DOMAIN outcome.before.works :
              LET old == outcome.before.works[i]  new == outcome.after.works[i] IN
              /\ new.id = old.id
              /\ old.occurrences \subseteq new.occurrences
              /\ \A f \in Fields : old.meta[f] # None => new.meta[f] = old.meta[f]
        /\ \A i \in DOMAIN candidates :
              outcome.audit[i].action \notin {"SKIPPED_AMBIGUOUS_CITATION",
                  "SKIPPED_NON_PUBLICATION", "SKIPPED_UNPARSABLE_CITATION"} =>
              Cardinality(FiledUnder(candidates[i], outcome.after.works)) = 1

\* A pass never moves a publication: a candidate that a work of the base lists
\* stays with that work alone, however often the document is reconciled and
\* whatever Crossref answers, and every work the pass adds lists a candidate
\* that no work of the base did (_add_occurrence knows the occurrence again, and
\* the loader refuses a work that lists nothing).
FilingIsFinal ==
    [][passes # 0 =>
        /\ \A i \in DOMAIN candidates :
              FiledUnder(candidates[i], base.works) # {} =>
                  FiledUnder(candidates[i], base'.works) = FiledUnder(candidates[i], base.works)
        /\ \A j \in DOMAIN base'.works \ DOMAIN base.works : \E i \in DOMAIN candidates :
              /\ j \in FiledUnder(candidates[i], base'.works)
              /\ FiledUnder(candidates[i], base.works) = {}]_corpusVars

\* An accepting review of the base is never lost: it stands in the written
\* manifest, or the work is a copy of a title whose review in the same folder
\* ranks at least as high and stands.
AcceptedReviewsStand ==
    outcome.kind = "written" =>
        \A i \in DOMAIN outcome.before.works :
            LET old == outcome.before.works
                new == outcome.after.works
            IN  Disposition(old[i]) \in AcceptedDispositions =>
                \E j \in DOMAIN old :
                    /\ j = i \/ /\ old[j].folder = old[i].folder
                                /\ old[j].meta.title = old[i].meta.title
                    /\ Rank(old[j]) >= Rank(old[i])
                    /\ new[j].review = old[j].review

-----------------------------------------------------------------------------
(* What makes the properties inductive.                                    *)

\* Lines of one section, in reading order.
AreLines(lines, section) ==
    /\ IsSeq(lines)
    /\ \A i \in DOMAIN lines : lines[i].section = section /\ lines[i].number \in Nat
    /\ \A i, j \in DOMAIN lines : i < j => lines[i].number < lines[j].number

\* Candidates in reading order, each of one section whose status it has.
AreCandidates(cs) ==
    /\ IsSeq(cs)
    /\ \A i \in DOMAIN cs : /\ DOMAIN cs[i] = {"cite", "page", "lines", "hint", "year"}
                            /\ cs[i].lines # <<>>
                            /\ AreLines(cs[i].lines, <<cs[i].lines[1].section[1], cs[i].hint>>)
    /\ \A i, j \in DOMAIN cs : i < j =>
          Last(cs[i].lines).number <= cs[j].lines[1].number

\* The buffer holds lines of the section being read, after those of the
\* candidates.
Follows(cs, r, top) ==
    /\ AreCandidates(cs)
    /\ AreLines(r.buffer, <<r.section, r.hint>>)
    /\ \A i \in DOMAIN cs : Last(cs[i].lines).number <= top
    /\ \A k \in DOMAIN r.buffer : r.buffer[k].number <= top
    /\ \A i \in DOMAIN cs, k \in DOMAIN r.buffer :
          Last(cs[i].lines).number <= r.buffer[k].number

IsReader(r) == DOMAIN r = {"active", "hint", "section", "columnYear", "buffer"}

BufferFollowsCandidates ==
    Reading => /\ IsReader(reader)
               /\ DOMAIN position = {"page", "lines", "texts"}
               /\ position.lines \in Nat
               /\ Follows(candidates, reader, position.lines)

CandidatesStayInOrder ==
    IF passes = 0 THEN AreCandidates(candidates)
    ELSE IsSeq(candidates) /\ \A i \in DOMAIN candidates : candidates[i].lines = <<>>

\* A run has a manifest to work on that loads, opened once.
BaseIsManifest ==
    passes # 0 => IsManifest(base) /\ Loads(base) /\ outcome.kind # "extracted"

CorpusInv ==
    /\ passes \in Nat
    /\ BufferFollowsCandidates
    /\ CandidatesStayInOrder
    /\ BaseIsManifest
    /\ ReconciliationIsAdditive
    /\ AcceptedReviewsStand
=============================================================================
