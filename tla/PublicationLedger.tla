------------------------- MODULE PublicationLedger -------------------------
(***************************************************************************)
(* The publication import (SqlPublicationRepository of                     *)
(* app/importer/publications.py) and the tables it writes.  A manifest is  *)
(* applied one applicant per transaction; reviewers decide on pending      *)
(* publications meanwhile.  The import may fail or be killed at any        *)
(* commit and is then started again by the operator.                       *)
(*                                                                         *)
(* Reviews are append-only and every reader takes the latest: a row keeps  *)
(* that one.  A manifest stands for the fingerprint of its bytes.          *)
(***************************************************************************)
EXTENDS PublicationManifest

CONSTANTS
    Manifests,      \* manifests an operator may apply
    MaxRuns         \* bound: import runs of all kinds

\* A manifest lists its works in order; the absent value is no message.
ASSUME LedgerAssumption ==
    /\ \A m \in Manifests : IsSeq(m.works)
    /\ None \notin {"unique index", "DOI replaced"}

VARIABLES
    rows,           \* dbo.ApplicationPublication, with the latest review
    evidence,       \* occurrences, metadata and initial citation statuses
    exceptions,     \* dbo.ImportException
    runs,           \* dbo.ImportRun
    importer        \* the process that applies a manifest

ledgerVars == <<rows, evidence, exceptions, importer>>

IdleImporter(told) ==
    [pc |-> "idle", manifest |-> None, run |-> 0, todo |-> {}, told |-> told]

LedgerInit ==
    /\ rows = <<>>
    /\ evidence = {}
    /\ exceptions = {}
    /\ runs = <<>>
    /\ importer = IdleImporter({})

-----------------------------------------------------------------------------
(* One work of the manifest, within the transaction t.                     *)

LookupKeyFirst(all, work) ==
    LET mine == {i \in DOMAIN all : all[i].folder = work.folder}
        byKey == {i \in mine : all[i].key = work.id}
        byDoi == {i \in mine : work.meta.doi # None /\ all[i].meta.doi = work.meta.doi}
        byIdentity == {i \in mine : all[i].identity = Identity(work)}
    IN  IF byKey # {} THEN byKey ELSE IF byDoi # {} THEN byDoi ELSE byIdentity

\* The DOI, then the key, then the identity find the row of a work.
Lookup(all, work) ==
    LET mine == {i \in DOMAIN all : all[i].folder = work.folder}
        byDoi == {i \in mine : work.meta.doi # None /\ all[i].meta.doi = work.meta.doi}
        byKey == {i \in mine : all[i].key = work.id}
        byIdentity == {i \in mine : all[i].identity = Identity(work)}
    IN  IF byDoi # {} THEN byDoi ELSE IF byKey # {} THEN byKey ELSE byIdentity

ImportedReview(work, disposition) ==
    [disposition |-> disposition, by |-> "publication-importer",
     evidence |-> <<work.id, work.review>>]

\* The explicit review of the work, or the one its resolution stands for.
InitialReview(work) ==
    ImportedReview(work, IF work.review # None THEN Disposition(work)
                         ELSE IF work.status = "RESOLVED" THEN "PUBLISHED"
                         ELSE "PENDING_REVIEW")

NewRow(work) ==
    [folder |-> work.folder, identity |-> Identity(work), key |-> work.id,
     meta |-> work.meta, status |-> work.status, review |-> InitialReview(work)]

Promotable(row, work) ==
    /\ row.status \in {"UNRESOLVED", "AMBIGUOUS"}
    /\ work.status = "RESOLVED"
    /\ work.meta.doi # None
    /\ Complete(work.meta)

Filled(old, new) == [f \in Fields |-> IF old[f] # None THEN old[f] ELSE new[f]]

Conflicts(row, work) ==
    {f \in Fields : row.meta[f] # None /\ work.meta[f] # None /\ row.meta[f] # work.meta[f]}

Promoted(row, work) ==
    [row EXCEPT !.meta = Filled(@, work.meta), !.status = "RESOLVED",
        !.review = ImportedReview(work, IF work.review # None THEN Disposition(work)
                                        ELSE "PUBLISHED")]

\* The review a work that is neither new nor promoted asks for: with
\* conflicts an affirmative one becomes pending.
RequestedReview(row, work) ==
    IF /\ Conflicts(row, work) # {}
       /\ Disposition(work) \notin {"NON_PUBLICATION", "PENDING_REVIEW"}
    THEN [disposition |-> "PENDING_REVIEW", by |-> "publication-importer",
          evidence |-> <<work.id, work.review, Cardinality(Conflicts(row, work))>>]
    ELSE ImportedReview(work, Disposition(work))

Reconciled(row, work) ==
    [row EXCEPT !.meta = Filled(@, work.meta),
        !.review = IF work.review = None THEN @ ELSE RequestedReview(row, work)]

\* Filed once however often it is recorded.
EvidenceOf(manifest, work) ==
    {<<"occurrence", o>> : o \in work.occurrences}
    \cup {<<"metadata", work>>}
    \cup {<<"status", s>> : s \in {s \in manifest.statuses : s.work = work.id}}

Filed(t, i, manifest, work) ==
    [t EXCEPT !.evidence = @ \cup {<<i, e>> : e \in EvidenceOf(manifest, work)}]

\* UX_ApplicationPublication_Doi and UQ_ApplicationPublication_Identity.
Clashes(all) ==
    \E i, j \in DOMAIN all :
        /\ i # j
        /\ all[i].folder = all[j].folder
        /\ \/ all[i].meta.doi # None /\ all[i].meta.doi = all[j].meta.doi
           \/ all[i].identity = all[j].identity

Stored(t, i, row) ==
    LET all == IF i > Len(t.rows) THEN Append(t.rows, row) ELSE [t.rows EXCEPT ![i] = row]
    IN  IF Clashes(all) THEN [t EXCEPT !.error = "unique index"] ELSE [t EXCEPT !.rows = all]

ApplyWork(t, manifest, work) ==
    LET found == Lookup(t.rows, work)
        i == IF found = {} THEN Len(t.rows) + 1 ELSE CHOOSE n \in found : TRUE
        row == t.rows[i]
    IN  IF t.error # None THEN t
        ELSE IF found = {}
        THEN Filed(Stored(t, i, NewRow(work)), i, manifest, work)
        ELSE IF Promotable(row, work)
        THEN IF row.meta.doi \notin {None, work.meta.doi}
             THEN [t EXCEPT !.error = "DOI replaced"]
             ELSE Filed(Stored(t, i, Promoted(row, work)), i, manifest, work)
        ELSE Filed([Stored(t, i, Reconciled(row, work)) EXCEPT
                       !.exceptions = @ \cup {<<work, f>> : f \in Conflicts(row, work)}],
                   i, manifest, work)

-----------------------------------------------------------------------------
(* The run.                                                                *)

NewRun(kind, file) == [kind |-> kind, file |-> file, status |-> "RUNNING", error |-> None]

CompletedRun(kind, file) ==
    {r \in DOMAIN runs : runs[r].kind = kind /\ runs[r].file = file
                         /\ runs[r].status = "COMPLETED"}
AnyRun(kind, file) == {r \in DOMAIN runs : runs[r].kind = kind /\ runs[r].file = file}

\* A manifest whose run is completed is reused; any other starts a new run.
StartedImport(manifest) == AnyRun("publications", manifest)
ReusableImport(manifest) == CompletedRun("publications", manifest)

StartImport(manifest) ==
    /\ importer.pc = "idle"
    /\ Loads(manifest)
    /\ IF ReusableImport(manifest) # {}
       THEN /\ importer' = [importer EXCEPT !.told = @ \cup {manifest}]
            /\ UNCHANGED runs
       ELSE /\ Len(runs) < MaxRuns
            /\ runs' = Append(runs, NewRun("publications", manifest))
            /\ importer' = [importer EXCEPT !.pc = "applying", !.manifest = manifest,
                               !.run = Len(runs) + 1, !.todo = Folders]
    /\ UNCHANGED <<rows, evidence, exceptions>>

Transaction == [rows |-> rows, evidence |-> evidence, exceptions |-> exceptions, error |-> None]

\* The transaction of one applicant: after[n] is what the works of the
\* applicant among the first n have made of the tables.
Transactions(manifest, folder) ==
    LET after[n \in 0 .. Len(manifest.works)] ==
            IF n = 0 THEN Transaction
            ELSE IF manifest.works[n].folder # folder THEN after[n - 1]
            ELSE ApplyWork(after[n - 1], manifest, manifest.works[n])
    IN  after

ApplicantTransaction(manifest, folder) ==
    Transactions(manifest, folder)[Len(manifest.works)]

EndImport(status, error) ==
    /\ runs' = [runs EXCEPT ![importer.run].status = status, ![importer.run].error = error]
    /\ importer' = IdleImporter(IF status = "COMPLETED"
                                THEN importer.told \cup {importer.manifest}
                                ELSE importer.told)

ApplyApplicant(folder) ==
    LET t == ApplicantTransaction(importer.manifest, folder) IN
    /\ importer.pc = "applying"
    /\ folder \in importer.todo
    /\ IF t.error = None
       THEN /\ rows' = t.rows
            /\ evidence' = t.evidence
            /\ exceptions' = t.exceptions
            /\ importer' = [importer EXCEPT !.todo = @ \ {folder}]
            /\ UNCHANGED runs
       ELSE /\ EndImport("FAILED", t.error)
            /\ UNCHANGED <<rows, evidence, exceptions>>

CompleteImport ==
    /\ importer.pc = "applying"
    /\ importer.todo = {}
    /\ EndImport("COMPLETED", None)
    /\ UNCHANGED <<rows, evidence, exceptions>>

\* Any statement may fail: the transaction is rolled back.
ImportFails ==
    /\ importer.pc = "applying"
    /\ EndImport("FAILED", "fault")
    /\ UNCHANGED <<rows, evidence, exceptions>>

\* The process is killed and its run stays RUNNING.
ImportKilled ==
    /\ importer.pc = "applying"
    /\ importer' = IdleImporter(importer.told)
    /\ UNCHANGED <<rows, evidence, exceptions, runs>>

\* dbo.RecordPendingPublicationReview.
RecordPendingReview(i, disposition) ==
    /\ i \in DOMAIN rows
    /\ rows[i].review.disposition = "PENDING_REVIEW"
    /\ rows' = [rows EXCEPT ![i].review =
                   [disposition |-> disposition, by |-> "reviewer", evidence |-> <<>>]]
    /\ UNCHANGED <<evidence, exceptions, runs, importer>>

LedgerNext ==
    \/ \E m \in Manifests : StartImport(m)
    \/ \E f \in Folders : ApplyApplicant(f)
    \/ CompleteImport
    \/ ImportFails
    \/ ImportKilled
    \/ \E i \in DOMAIN rows, d \in {"PUBLISHED", "ACCEPTED_PREPRINT", "NON_PUBLICATION"} :
           RecordPendingReview(i, d)

-----------------------------------------------------------------------------
(* Properties.                                                             *)

\* However corrected manifests follow each other, with runs killed between
\* two applicants and reviewers at work, the lookup finds the row of a work
\* before an insert or a filled DOI can meet a unique index.
ImportNeverClashes == \A r \in DOMAIN runs : runs[r].error # "unique index"

\* Some row holds all the evidence of a work and a value for every field the
\* work states.
IsApplied(all, filed, manifest, work) ==
    \E i \in DOMAIN all :
        /\ {<<i, e>> : e \in EvidenceOf(manifest, work)} \subseteq filed
        /\ \A f \in Fields : work.meta[f] # None => all[i].meta[f] # None

\* When an operator is told that a manifest is applied, even by a reused run
\* after failed and killed ones, each of its works has a publication with all
\* of its evidence and a value for every field the work states.
AppliedManifestIsWhole ==
    \A m \in importer.told : \A w \in ToSet(m.works) : IsApplied(rows, evidence, m, w)

-----------------------------------------------------------------------------
(* The inductive invariant of the import.                                  *)

IsRow(r) == DOMAIN r = {"folder", "identity", "key", "meta", "status", "review"}
IsRun(r) == DOMAIN r = {"kind", "file", "status", "error"}
IsRunning(r, kind, file) ==
    r \in DOMAIN runs /\ runs[r].kind = kind /\ runs[r].file = file /\ runs[r].status = "RUNNING"

TablesTypeOK ==
    /\ IsSeq(rows)
    /\ \A i \in DOMAIN rows : IsRow(rows[i])
    /\ IsSeq(runs)
    /\ \A r \in DOMAIN runs : IsRun(runs[r]) /\ runs[r].kind \in {"publications", "citations"}

\* An import at work has its own run, of a manifest that loads.
ImporterTypeOK ==
    /\ DOMAIN importer = {"pc", "manifest", "run", "todo", "told"}
    /\ importer.pc \in {"idle", "applying"}
    /\ importer.told \subseteq Manifests
    /\ importer.pc = "applying" =>
          /\ importer.manifest \in Manifests
          /\ Loads(importer.manifest)
          /\ importer.todo \subseteq Folders
          /\ IsRunning(importer.run, "publications", importer.manifest)

\* The works of the applicants an import has committed are applied.
CommittedIsApplied ==
    importer.pc = "applying" =>
        \A w \in ToSet(importer.manifest.works) :
            w.folder \notin importer.todo => IsApplied(rows, evidence, importer.manifest, w)

\* The works of a completed run are applied, whatever followed it.
CompletedIsApplied ==
    \A r \in DOMAIN runs :
        runs[r].kind = "publications" /\ runs[r].status = "COMPLETED" =>
            /\ runs[r].file \in Manifests
            /\ \A w \in ToSet(runs[r].file.works) : IsApplied(rows, evidence, runs[r].file, w)

LedgerInv ==
    /\ TablesTypeOK
    /\ ImporterTypeOK
    /\ ~Clashes(rows)
    /\ ImportNeverClashes
    /\ CommittedIsApplied
    /\ CompletedIsApplied
    /\ AppliedManifestIsWhole
=============================================================================
