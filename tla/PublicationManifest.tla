------------------------ MODULE PublicationManifest ------------------------
(***************************************************************************)
(* The publication import manifest: the file that the corpus               *)
(* reconciliation writes and that the publication, Scholar and citation    *)
(* imports read (load_publication_manifest of app/importer/publications.py *)
(* and the helpers that give a work its identity).                         *)
(*                                                                         *)
(* Of the bibliographic fields, journal stands for authors and journal,    *)
(* pages for volume and pages; the DOI link follows the DOI.  An applicant *)
(* folder stands for the applicant the manifest maps it to.  The self-hash *)
(* is the hashed content itself.                                           *)
(***************************************************************************)
EXTENDS Naturals, FiniteSets, SequencesExt

CONSTANTS
    None,           \* a field, a review or a match that is absent
    Folders         \* applicant folders

Fields == {"doi", "title", "journal", "year", "pages"}
Bibliographic == {"title", "journal", "year"}
CitationSources == {"GOOGLE_SCHOLAR", "BIORXIV", "MEDRXIV"}
Dispositions == {"PUBLISHED", "ACCEPTED_PREPRINT", "UNDER_PREPARATION",
                 "NON_PUBLICATION", "PENDING_REVIEW"}

\* A sequence, of whatever it holds.
IsSeq(s) == s \in Seq(ToSet(s))

ASSUME NoneIsNoDisposition == None \notin Dispositions

Complete(meta) == \A f \in Bibliographic : meta[f] # None

Disposition(work) == IF work.review = None THEN None ELSE work.review.disposition

\* publication_identity: the DOI, or else the representative citation.
Identity(work) ==
    IF work.meta.doi # None THEN <<"doi", work.meta.doi>>
    ELSE <<"citation", work.rep.cite>>

-----------------------------------------------------------------------------
(* What the loader accepts.                                                *)

\* The parts of a work that stand alone.
WorkIsValid(work) ==
    /\ (work.status = "RESOLVED") <=> (work.meta.doi # None)
    /\ work.review # None => Disposition(work) \in Dispositions
    /\ Disposition(work) = "PUBLISHED" => Complete(work.meta)
    /\ work.folder \in Folders
    /\ work.rep \in work.occurrences

\* An occurrence names the work and the folder that list it.
ProvenanceIsExact(m) ==
    /\ UNION {w.occurrences : w \in ToSet(m.works)} = m.occurrences
    /\ \A w \in ToSet(m.works) : \A o \in w.occurrences :
          o.work = w.id /\ o.folder = w.folder
    /\ \A o, p \in m.occurrences : o.id = p.id => o = p

WorksAreDistinct(m) ==
    \A i, j \in DOMAIN m.works : i # j =>
        /\ m.works[i].id # m.works[j].id
        /\ ~ /\ m.works[i].folder = m.works[j].folder
             /\ m.works[i].meta.doi # None
             /\ m.works[i].meta.doi = m.works[j].meta.doi

AmbiguousWorksAreSingle(m) ==
    \A w \in ToSet(m.works) : w.status = "AMBIGUOUS" =>
        Cardinality({o.cite : o \in w.occurrences}) = 1

CountOf(works, P(_)) == Cardinality({i \in DOMAIN works : P(works[i])})

\* What a manifest declares of itself.
Summary(works, occurrences) ==
    [occurrences |-> Cardinality(occurrences),
     works |-> [f \in Folders |-> CountOf(works, LAMBDA w : w.folder = f)],
     statuses |-> [s \in {"RESOLVED", "AMBIGUOUS", "UNRESOLVED"} |->
                      CountOf(works, LAMBDA w : w.status = s)]]

InitialStatus(source) ==
    IF source = "GOOGLE_SCHOLAR" THEN {"MANUAL_REQUIRED"}
    ELSE {"NOT_AVAILABLE_FROM_SOURCE", "NOT_FOUND", "NOT_APPLICABLE"}

StatusesAreWhole(m) ==
    /\ \A s \in m.statuses : s.status \in InitialStatus(s.source)
    /\ \A w \in ToSet(m.works), c \in CitationSources :
          Cardinality({s \in m.statuses : s.work = w.id /\ s.source = c}) = 1

SelfHash(m) == <<m.works, m.occurrences, m.statuses, m.summary>>

Loads(m) ==
    /\ m.hash = SelfHash(m)
    /\ m.summary = Summary(m.works, m.occurrences)
    /\ \A w \in ToSet(m.works) : WorkIsValid(w)
    /\ ProvenanceIsExact(m)
    /\ WorksAreDistinct(m)
    /\ AmbiguousWorksAreSingle(m)
    /\ StatusesAreWhole(m)

\* The statuses a new work starts with.
CitationStatuses(id) ==
    {[work |-> id, source |-> c,
      status |-> IF c = "GOOGLE_SCHOLAR" THEN "MANUAL_REQUIRED"
                 ELSE "NOT_AVAILABLE_FROM_SOURCE"] : c \in CitationSources}

\* _finish: the summary is counted again and the content hashed.
Finished(works, occurrences, statuses) ==
    LET open == [works |-> works, occurrences |-> occurrences, statuses |-> statuses,
                 summary |-> Summary(works, occurrences)]
    IN  [works |-> works, occurrences |-> occurrences, statuses |-> statuses,
         summary |-> open.summary, hash |-> SelfHash(open)]
=============================================================================
