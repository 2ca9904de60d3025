# Verification of the EHF applications portal

TLA+ models of the portal of the Ernst Hadorn Foundation: the web application
under `src/app`, the stored procedures and constraints of
`src/database/migrations` it runs on, the importers and collectors that fill
it, and the installer and scripts that deploy it. The models are checked with
TLC on small instances; every safety and action property of a passing run is
also proved with TLAPS, for all instances.

## 1. The system

The portal is a FastAPI application behind nginx (`infra/ehf.service`: uvicorn
with two worker processes), SQL Server as the only shared state, and an
encrypted object store on disk. Nearly all rules live in stored procedures; the
Python services open one connection and one transaction per call.
Consequently the concurrency of the system is that of its transactions:
requests of any worker interleave between two calls, and inside a procedure
between two statements when no lock is held. Importers, collectors and the
installer are command-line programs that an operator starts beside the running
service.

### Inventory

| Component | State | Operations | Interacts with | What makes it correct |
|---|---|---|---|---|
| Submission workflow (`applicant/sql_pilot.py`, migrations 012, 013, 016, 017, 019) | `ApplicantSectionDraft`, `ApplicantSectionConfirmation`, `ApplicantFinalConfirmation`, `ApplicantFinalReviewDecision`, `ApplicantReopenScope`, `Application.ApplicationStatus`, `ApplicationSectionVersion` | load, save, confirm, submit; approve, return one section | slots; sessions; promotion into the record | what is submitted is what is stored, reviewed and promoted; returns reopen one section and demand a change; stale forms are refused |
| Document slots (migrations 015, 016) | `DocumentSlot`, `ApplicantDocumentSubmission` | register an upload, accept or reject it | workflow (completion issues, manifest), uploads | one pending upload per slot; only an accepted version becomes active |
| Upload and object store (`documents/store.py`, `SqlApplicantDocumentService.upload`) | quarantine, temporary and object files; per-process set of plaintext hashes; `StoredObject` | quarantine, validate, scan, encrypt and rename, register, compensate | slots; malware scanner; file system | an answered upload stays readable; only crashes leave files behind |
| Source import (`importer/run.py`) | `ImportRun`, `ImportRow`, `SourceOccurrence`, applications, versions, objects | plan, start run, import one applicant per transaction, complete or fail | object store; source folders; register | repeatable; all or nothing per applicant; a completed run is whole |
| Release installer (`infra/install-ehf.py`, `infra/bootstrap-ehf-database.py`, `app/migrations.py`) | release directories, virtual environments, current link, managed files, service, `SchemaMigration` | deploy, roll back, restore | systemd, Nginx, SQL Server | a failed operation puts everything back; every deployed release fits the schema; the service comes back |
| SQL principals (`infra/sql-principal.py`, two scripts) | login, database user, password file, disposable test targets | inspect, create, map, authenticate; create, probe and clean up targets | installer | the application's user is bound to a fully restricted login only; tests leave nothing behind |
| Access requests, identities, sessions (`applicant/access.py`, `scripts/*applicant*.py`, migration 016) | access requests, identities, synthetic workspaces, sessions, Entra users | request, review, provision, reconcile, activate, sign in, serve | Entra ID, workflow | users and applications are linked one to one; a page is served to its owner |
| Invitations, codes, rate limits, Turnstile (`auth/`) | invitations, contexts, codes, buckets, remembered responses | enter, request a code, verify, authenticate | mail, Turnstile | attempts bounded, codes used once, responses accepted once |
| Publication corpus (`importer/publication_extraction.py`, `publication_reconciliation.py`, `publications.py`) | the reader's position in a document, candidates, a manifest | read lines, reconcile with a base manifest | Crossref | candidates keep their section; a reconciliation only adds, moves nothing and loses no review |
| Publications (`importer/publications.py`, migrations 021, 025, 039, 043, 047) | publications, occurrences, decisions, runs | apply a manifest applicant by applicant, decide | corpus, citations | rows are never in each other's way; what is reported applied is whole |
| Citations (`importer/open_citation_collector.py`, `open_citations.py`, `scholar_reviews.py`, migrations 023, 031) | queue and snapshot files, observations, cutoff runs | write, fill and apply a queue; collect, load and apply a snapshot; activate a cutoff | publications, OpenAlex, Semantic Scholar | what was collected loads; a completed run and an active cutoff are whole |
| Evaluation (migrations 038–051, `evaluation_groups.py`) | grades in the old and the new table, comments, second stage | grade, comment, advance, lock | internal pages | what was saved is shown; every ballot has one place |
| Review artifacts (`importer/review_artifacts.py`) | extracts of source documents, objects | apply a manifest of extracts | object store, source import | what was reported applied is served (finding 2 excepted) |
| Navigation preference (`main.py`, migration 044) | mode and last call of a user | choose, visit | pages | a lost update brings back only what its page had read |
| Calls, pages, metrics, exports, configuration | one seeded call; nothing else of their own | read, render | all | nothing a model adds to a unit test |

### What is hard here

* **Two sessions of one applicant.** `CreateEntraApplicantSession` revokes no
  earlier session, and the procedures lock the row of *their own* session.
* **Checks and writes in separate statements.** `ConfirmApplicantSection`,
  `SubmitApplicantFinalConfirmation` and the trigger that mirrors grades check
  or update, then insert, under READ COMMITTED.
* **A manifest read query by query** (`_manifest`), compared later with the
  database by row version, while the preview compares contents.
* **Two stores without a common transaction.** Uploads, imports and review
  artifacts write a file, then commit a row, then undo one if the other failed.
  The answer to a commit may be lost and a process may die anywhere.
* **An operation of fifteen commands over a host, a service and a database.**
  Any of them fails; files are restored, migrations are not.
* **Several operators' scripts on one set of links.** Access requests are
  provisioned while `activate` reads, then writes, the same identities.
* **Memory per process.** The duplicate check of the store, the rate limiter
  and the remembered Turnstile responses are Python dictionaries with a limit.
* **Long legal histories.** Submit, return, correct, resubmit; import, change
  the folders, fail, import again; apply a manifest, correct it, apply again.

The hazards, each at its line with the properties aimed at it, are listed in
`PROJECT.json`.

## 2. Modules

| Module | Models | Kind |
|---|---|---|
| `DocumentSlots` | slots and applicant submissions of one application | component, extended by the next two |
| `SubmissionWorkflow` | drafts, confirmations, submission, approval, return; includes the slot actions | composition |
| `SubmissionLifecycle` | drafted, submitted as a whole, approved as submitted or returned for one section | abstract specification |
| `SubmissionWorkflowProofs` | theorems about `SubmissionWorkflow`, with the refinement of `SubmissionLifecycle` | proofs |
| `DocumentUpload` | the upload over the object store, in several worker processes, with the slots as its database side | composition |
| `DocumentUploadProofs` | theorems about `DocumentUpload` | proofs |
| `SourceImport` | runs of the importer over register, source folders, database and object store | component |
| `ImportLedger` | runs that enter an applicant with everything the plan lists of it, or not at all | abstract specification |
| `SourceImportProofs` | theorems about `SourceImport`, with the refinement of `ImportLedger` | proofs |
| `SqlPrincipals` | the principals and the two scripts that drive `sql-principal.py` | component |
| `Deployment` | deploy, rollback and restore; runs the bootstrap and both scripts | composition |
| `DeploymentProofs` | theorems about `Deployment` and `SqlPrincipals` | proofs |
| `RequestGate` | rate limiter and Turnstile verifier | component |
| `ApplicantSignIn` | invitations, one-time codes, sessions | composition over `RequestGate` |
| `ApplicantIdentity` | access requests, identities, rollout scripts, Entra sign-in, served pages | composition over `ApplicantSignIn` |
| `ApplicantIdentityProofs` | theorems about the three | proofs |
| `PublicationManifest` | what a manifest is and when it loads | operators |
| `PublicationExtraction` | the line reader of a publication list | component |
| `PublicationReconciliation` | parsing, classification and merging of candidates into a manifest | composition over the reader |
| `CorpusProofs` | theorems about extraction and reconciliation | proofs |
| `PublicationLedger` | manifests applied to the database, and decisions | component |
| `CitationCollection` | the collector of snapshots and when a snapshot loads | component |
| `CitationImport` | Scholar queues, snapshots and cutoffs applied beside the ledger | composition |
| `PublicationsProofs` | theorems about ledger, collector and citation runs | proofs |
| `CallEvaluation`, `CallNavigation`, `ReviewArtifacts` | one component each | components |
| `InternalReview` | the three together | composition |
| `InternalReviewProofs` | theorems about the three | proofs |
| `MC…` | instances for TLC | |

### SubmissionWorkflow and DocumentSlots

The variables are the tables named above, for one application; rows of the
append-only tables are records in a set. `clock` stands both for SQL Server's
row versions and for `SYSUTCDATETIME()`: each is strictly increasing and the
code compares them only with values of its own kind or through "saved after
the return", so one counter gives every order that can occur. Equal timestamps
(two writes within 100 ns) are not modelled.

A *request* is an HTTP request and the browser form that preceded it. Its
actions, in the order in which the code runs them:

* `Load`, then `Save` (`SaveApplicantSectionDraft`, atomic under its locks:
  52025 and 52027 are `Editable`, 52026 is `FormIsFresh`), or `ConfirmCheck`
  and `ConfirmInsert` (`ConfirmApplicantSection`: its checks, then its
  conditional INSERT). The service's validation and the procedure's checks are
  one step.
* `ReadSection` for every section in any order, `ReadDocuments`, `SubmitCheck`,
  `SubmitInsert` (`_manifest`, then `SubmitApplicantFinalConfirmation` with its
  trigger). The three queries `_manifest` issues for a section are one step.
* `Abandon`: every refusal, time-out, closed browser and worker restart.

The reviewers' `Approve` and `Return` and the document actions
`RegisterApplicantDocumentSubmission` and `ReviewApplicantDocumentSubmission`
are atomic. `SessionRowFree` is the UPDLOCK/HOLDLOCK on the session row.
`RegisterApplicantDocumentSubmission` takes no session lock here, so it may happen in more states than
in the program. `promoted` holds the latest `ApplicationSectionVersion` of each
section.

Contents are opaque. `Complete` are those final validation accepts,
`Promotable` those the promotion accepts; neither contains the other, since the
code's two validations are written independently. The JSON merge in the
migration-017 save is part of "the new content".

### DocumentUpload

`upload[w]` is the program counter of the process's one upload: quarantine,
duplicate check, temporary file, rename, registration, removal of the object if
the registration raised, answer. The route awaits nothing between these, so a
process has one upload at a time. `RemoveObject` and the final unlink of the
quarantine file are one step. `Register` either commits and answers, commits
and loses its answer, or raises. `Crash` empties `hashes[w]` and leaves files.
Encryption, PDF validation and scanning are outcomes (`Refuse`).

### SourceImport

`db` is the committed state and `work` what the importer's connection sees:
a rollback is `work' = db`, a commit `db' = work`. Applicants are imported in
register order and files in inventory order, one `_import_applicant`
transaction each. A path holds a PDF content, an empty PDF, another file, or
nothing. Sources and register change between runs only, as the import plan
requires them read-only. `LoseCommit` is a commit that succeeded while
`_SqlTransaction.__exit__` raised; the importer then discards the objects of
rows that exist. `lost` and `orphans` are history variables. The lost answer of
`complete_run` needs no action: `CK_ImportRun_Completion` refuses to mark the
completed run FAILED. Matching names to folders, the classification of a
document (`TypeOf`), the active version of an imported slot and a failing
`discard` are abstracted away; one importer process runs at a time.

`ImportLedger` has no files, transactions, object keys or crashes. The mapping
reads the committed tables: `imported` is `ImportRow`, `listed` is
`SourceOccurrence`, `holdings` joins the applications with their document
versions. The begin and the files of an applicant are stutters, its commit is
`Enter`, whether or not the answer arrives, and a failed transaction is
`Close` or, when the database is gone, nothing.

### Deployment and SqlPrincipals

`op` is the installer's program counter with the snapshot it took
(`op.saved`, `op.previous`); one command of the installer is one action, whose
first disjunct is success and whose others are the failures, with the part of
the change a failing command leaves behind (`PartlyInstalled` and
`PartlyRestored` after, or in the middle of, each of the replacements). `CutOff`
is what a kill or a restart of the host leaves of the step it interrupts.
`RestoreLink` to `RestoreService` are
`_restore`; a restore step that itself raises ends the operation as "broken"
and counts as a fault, as do a killed installer, a host restart and a crash of
the service. `schema` is the sequence of checksums in `SchemaMigration`,
`deployed` the releases that were switched to by a deploy. Rollback neither
bootstraps nor tests, as in the code. Archive hashing and extraction are
outcomes of `PrepareRelease`.

In `SqlPrincipals` one call of the helper is one action. `CREATE LOGIN` and
its five `DENY`s commit one by one, so that a call may stop with a "bare"
login; likewise a test database before its marker. `foreign`, whether the
login can enter another database, is arbitrary and never changes.

### RequestGate, ApplicantSignIn, ApplicantIdentity

`repository` is chosen initially, as the configuration does: the in-memory
repository serves invitations and codes, the SQL one serves Entra identities
(`supports_invitation_verification`). Time is a counter; over SQL it starts
with the first session, because only sessions expire there. A mailed code is a
number; guessing is presenting another. In `ApplicantIdentity` the rollout
scripts are processes with their files (`candidates`, `record`): `Reconcile`
picks an address by the score of the evidence, `ProvisionRow` invites one user
and adds it to the group, or fails with the row half done, `ActivateRead` and
`ActivateCommit` are the two halves of the activation, between which an
administrator may provision a request. `served` records the last page answered
and to whom. The pilot rows that activation creates first are taken as given.
With the applicant portal enabled the middleware (`main.py:270`) demands a
session also for `/api/applicant/auth/*`.

### PublicationExtraction, PublicationReconciliation

A document is a sequence of kinds of lines: headings of each section, inline
headings with a citation before and after, stop headings, column years, blank
and ignored lines, first, continuation and whole entries, page breaks. The
reader is `reader` (active section, hint, column year, buffer). A text is what
the parsers read of it: title, year, DOI, fragment or not. The reconciliation
takes the candidates of the document, Crossref's answers for any subset of
them, and a base manifest, and is run up to twice, the second time on its own
result. The choice between the texts of a page, furniture and author variants
are abstracted; the parser of GROBID's answers and the folder map are left out.

### PublicationLedger, CitationCollection, CitationImport

`rows` are `ApplicationPublication` in order of insertion. `ApplyApplicant` is
one transaction of the importer; `ImportFails` and `ImportKilled` fall between
two. `Lookup` finds a row by DOI, then by key. The collector takes one answer of
each source per work and writes its file when it is whole; the loader's checks
decide whether the file is usable. Snapshots are collected before the first
import (a sound reduction: collecting reads a manifest and no table). A
snapshot has one row per work and source. The resolution of the call and of the
applications is assumed to succeed.

### CallEvaluation, CallNavigation, ReviewArtifacts

The three share no table, so that `InternalReview` chooses initially which of
them a behaviour is about. `Grade` is the procedure up to the trigger's UPDATE,
`CommitGrade` the INSERT and the commit; `Comment` is the check that the
selection is open, `CommitComment` the transaction that follows it. `advanced`
and `selection` are kept because requests write and read them; no property
rests on them. `EvaluationView` is the overview query
and `group_applicants`. In `CallNavigation` a page reads the whole preference
and writes both fields back; `crossed` holds what other pages under way had read
of a field when it was stored, the values a lost update may bring back: the
two-tab race that the code accepts. In `ReviewArtifacts` an import
prepares all extracts, scans, stores them and commits one transaction; the
bytes of an extract are assumed to depend on the source's bytes and pages only.
`unanswered` are the objects that were registered by a commit whose answer was
lost, and unlinked.

## 3. Runs

| Run | Instance | States | Shows |
|---|---|---|---|
| `submission_one_session` | 1 section, 3 contents, one of them not complete, 1 slot, 2 requests of one session, clock 9 | 715,216 | submitted = stored; approved = submitted; the workflow implements `SubmissionLifecycle` |
| `submission_two_sessions` | as the first, each request its own session, one content not promotable | 1,094,512 | what needs no common session: inductive invariant `RecordsInv`, only accepted versions are active, no lost update, a returned section changed, consistent review tables, approval is final |
| `document_upload` | 2 workers, 2 slots, 2 contents, 3 uploads, 1 crash per worker | 1,213,542 | answered uploads stay readable, only crashes leave files behind |
| `source_import` | 2 applicants, 2 paths, 3 contents of 2 types, 3 runs, 1 change, 1 crash, 1 lost answer | 2,239,496 | one application per applicant, one version per content; completed runs whole; failures discard their own objects and no others; the importer implements `ImportLedger` |
| `deployment` | 3 releases, one of another branch, 3 operations, 1 fault | 2,148,420 | failed operations restore; deployed releases fit the schema; without faults the environment in service is never rebuilt; the login; leftovers of tests; the service comes back |
| `sign_in` | limit 2 per window of 2, memory of 2, 2 responses, 1 invitation, 2 codes, 1 session, time 3; 2 applications, 2 users, 2 access requests, 4 script starts | 1,051,005 | no burst beyond two windows; a response and a code are used once; links one to one; activated users can sign in; pages go to their owner |
| `corpus` | documents of 4 lines, 2 pages and 2 texts over 5 kinds of entry, 7 base manifests, 2 passes | 301,935 | candidates keep their section; reconciliation only adds; accepting reviews stand; filings are final |
| `publications` | 2 applicants, manifests that correct each other, 2 runs, 1 snapshot | 338,769 | imports never clash; reported manifests, runs and cutoffs are whole; what was collected loads |
| `evaluation` | 3 trustees, 1 application, 5 requests; 2 tabs, 2 calls, 2 modes, 6 steps; 2 applications with 2 sources each, 2 imports, 1 fault | 2,276,728 | saved grades and comments are shown; every ballot has one place; preferences are kept up to what open pages had read; applied extracts are served unless the commit that registered them lost its answer |
| `submission_session_race`, `upload_lost_commit`, `evaluation_mirror` | smaller | | the three findings below |

**Why the bounds suffice.** The clock of the workflow starts at 1. A round
(save, confirm, submit, return) takes four ticks; 9 ticks admit a submission, a
return, a corrected resubmission and a second decision, or uploads in between.
One section is enough for TLC because the invariants are proved for any number
of sections. Two requests are enough for every pairwise race, and the proofs
cover any number. Three uploads over two workers give a concurrent pair and a
retry. Three import runs give a completed run, one interrupted after a change
of the sources, and a rerun. Three operations of the installer give a deploy, a
failed or branched one, and a rollback, with the one fault anywhere; the safety
properties are proved for any number. In `sign_in` the limiter and the response
memory are smaller than the number of subjects and responses, so that pruning
happens; two users and two applications give every crossed link. Four lines
give a heading, an entry that continues, and a second heading; two passes show
a run on its own result. Five evaluation requests give two grades and a
comment of one column interleaved with another trustee's and the lock.

Symmetry is used on requests and contents (workers and contents for uploads;
register rows for the import; users and applications for identities) only where no constant distinguishes
them, and only on runs without liveness. The workflow never deadlocks;
everywhere else deadlock checking is off because the bounds on runs,
operations, requests, lines or time end every behaviour.

**Fairness and liveness.** `Deployment!FairSpec` adds `WF_vars(InstallerStep)`:
an installer that is not killed goes on, because it is one sequential program
whose commands end (every `subprocess` it starts is waited for, and the wait
for readiness has a deadline). Nothing is assumed of kills, restarts or which
of a command's outcomes occurs. Under it `ServiceComesBack` holds: a service
active when an operation began is active once the operation is over, unless the
operation was stopped or its restore failed. No other fairness is assumed and
no other liveness claimed: every step of the workflow, the reviews and the
imports waits for a human or an operator, and "a submission is eventually
decided" is not a promise of this code.

## 4. Mutants

A definition that carries a guard, a lock or a cleanup has a weakened twin
directly above it, e.g. `SessionRowUnlocked` above `SessionRowFree`. The
twin is never used by the specification. It is the bug the
definition prevents; with the twin in its place the named property fails:

| Property | Definition | The bug |
|---|---|---|
| `ActiveManifestMatchesDrafts` | `SessionRowFree` | the submission takes no lock on its session row |
| `ApprovedContentWasSubmitted` | `Editable` | drafts stay editable until approval |
| `ImplementsLifecycle` | `SectionsMatch` | a submission accepts any confirmed version, not the stored one |
| `ActiveVersionWasAccepted` | `Reviewable` | an upload can be reviewed twice |
| `NoLostUpdate` | `FormIsFresh` | saves ignore the loaded row version |
| `RecordsInv` | `UploadOpen` | a slot accepts a second upload while one is pending |
| `ReturnedSectionWasChanged` | `ReopenValidation` | the trigger does not compare with earlier confirmations |
| `ReviewStateConsistent` | `ClosedScopes` | a resubmission leaves its scope open |
| `ApprovalIsFinal` | `Decided` | a decided submission can be decided again |
| `AnsweredUploadIsReadable` | `ObjectKey` | object keys derived from the content |
| `LeftoversOnlyAfterCrash` | `WithoutObject` | no compensation after a failed registration |
| `ImportedOnce` | `Found` | applications are looked up by register row only |
| `CompletedRunIsWhole` | `Skippable` | any document that fails is skipped |
| `StoreMatchesVersions` | `Discarded` | a failure discards the application's older objects too |
| `ImplementsLedger` | `AllHandled` | an applicant is committed before its last file |
| `FailedOperationRestores` | `RestoredLink` | the restore does not remove a first link |
| `DeployedReleaseFitsSchema` | `HistoryIsLocalPrefix` | the history check compares version numbers, not checksums |
| `RunningVenvIntact` | `Rebuildable` | a rebuild does not look at the current link |
| `ServiceComesBack` | `RestoreService` | the restore leaves the service stopped |
| `MappedLoginIsRestricted` | `NoEffectiveCrossDatabaseAccess` | the probe reads the credential and opens no other database |
| `LeftoversOnlyAfterInterruption` | `CleanedTargets` | the cleanup drops the databases before it looks for their markers |
| `NoBurstBeyondTwoWindows` | `KeptBuckets` | a full limiter is emptied |
| `ResponseAcceptedOnce` | `Remembered` | a full verifier forgets its responses |
| `CodeOpensOneSession` | `Comparable` | a code is compared after its own expiry |
| `LinksAreOneToOne` | `Provisionable` | provisioning does not look at the request's status again |
| `ActivatedApplicantCanSignIn` | `Invited` | an existing user is taken for a member of the group |
| `PageServedToOwner` | `PrincipalFits` | any applicant may use any applicant's session |
| `CandidatesKeepTheirSection` | `FlushAtHeading` | the buffer is flushed under the new heading |
| `ReconciliationIsAdditive` | `Filled` | new metadata overwrite the old |
| `AcceptedReviewsStand` | `Weight` | the canonical copy of a title is chosen by DOI before review |
| `FilingIsFinal` | `Verdict` | the result is written without loading it again |
| `ImportNeverClashes` | `Lookup` | rows are found by key before DOI |
| `AppliedManifestIsWhole` | `ReusableImport` | a started import is taken for a completed one |
| `CollectedSnapshotLoads` | `NamesApplicant` | a record by another author is accepted |
| `CompletedCitationRunIsWhole` | `RolledBack` | a failing run keeps what it wrote |
| `ActivatedCutoffIsComplete` | `CutoffHolds` | the cutoff is activated without counting |
| `SavedWorkIsShown` | `Mirrored` | the mirror replaces the whole row, its comment too |
| `EveryBallotHasItsPlace` | `Discrepant` | a ballot with both A and C is not seen as discrepant |
| `PreferenceIsKept` | `VisitStored` | a visit writes the default mode |
| `AppliedArtifactsAreServed` | `AlreadyApplied` | an import compares the stored extract, not its provenance |

## 5. Proofs

Everything below is proved for every finite or infinite set of sections, slots,
contents, requests, workers, releases, applicants, trustees, users, tokens, and
every bound on clocks, runs and faults. An inductive invariant is the
conjunction of named parts; the parts that are properties of a run are cited
from it, the others say what makes them inductive. TLC checked each invariant
on its run before it was proved.

### SubmissionWorkflowProofs

* `TypeCorrect`: `Spec => []TypeOK`.
* `VersionsHold`: `Spec => []VersionsInv`, whatever the sessions. Besides types
  it says that everything recorded is at most the clock and that *a row version
  names one content*: forms, confirmations and manifest entries that carry the
  version of the stored draft carry its content. The second part is not
  inductive without the first: a save draws the next tick, and only because
  nothing holds a version from the future can nothing hold the new one.
  `OnePendingUploadPerSlot` is in it because the review of an upload never
  looks at the slot.
* `StaleFormsAreRefused`: `Spec => NoLostUpdate`, an action property, from
  `VersionsInv`: the compare-and-swap compares versions, the property speaks
  of contents.
* `WorkflowHolds`: under `SharedSession`, `Spec => []WorkflowInv`. The
  strengthening `LockInv` adds that a request between its checks and its INSERT
  still holds the stored manifest and documents (`CheckedManifestHolds`), that
  an active submission has settled documents and no open scope
  (`ActiveSubmissionIsLocked`), and that the approved one stays active. The key
  lemma, `SettledDocumentsAreFrozen`, says that with no document issue every
  slot is closed and reviewed, so that no document action is enabled.
* `SubmittedIsStored` and `ApprovedIsSubmitted`: under `SharedSession`, the
  properties of the same runs follow.

`SharedSession` is an assumption on the constants, not a fact of the code: the
first violation run shows the invariant fail without it. The other assumptions
are those declared with the constants (`MaxClockAssumption`,
`ContentsAssumption`, `SectionsAssumption`, and those of `DocumentSlots`).

Of the review cycle, whatever the sessions:

* `BooksHold`: confirmations, submissions, decisions, scopes and slots are
  consistent, from which `BooksAreConsistent` (`ReviewStateConsistent`) and
  `ActiveWasAccepted` (`ActiveVersionWasAccepted`) follow.
* `ApprovedStays`: `Spec => ApprovalIsFinal`, an action property. A request in
  flight when the approval commits fails at the state check of its own INSERT.
* `RecordsHold`: `Spec => []RecordsInv`, and from it `ReturnedIsChanged`.
  A confirmation is inserted once per version, the validation 52144 compares it
  with the confirmation the section was returned for, and the unique key of
  confirmations ties a manifest entry to one content; so a confirmation made
  after the return carries a changed content. A submission in flight over the
  return is *doomed*: it holds a version the trigger no longer accepts.

Under `SharedSession`:

* `LifecycleHolds`: `Spec => []LifecycleInv`, which adds that an active
  resubmission keeps every section that was not returned.
* `WorkflowImplementsLifecycle`: `Spec => Abstract!Spec`. The initial states
  map to initial states, and each action maps to a step or a stutter; a
  submission becomes abstract at its INSERT, a return at its commit.

### DocumentUploadProofs

`StoreHolds`: `Spec => []StoreInv`. An upload's key is fresh, so that its files
and row are its own (`UploadsOwnTheirKeys`), and its step tells which of them
exist (`FilesFollowTheSteps`, `RowsFollowTheSteps`). `AnsweredStaysReadable`:
the only step that unlinks an object runs in the upload that wrote it, and
before its answer. `LeftoversAreInterrupted`: a file without a row
belongs to a running upload or to one that a crash or a lost answer cut off.

### SourceImportProofs

`ImportHolds`: `Spec => []ImportInv`. `RowsAgree` holds of the committed state
and of what the open transaction sees: rows name applications that exist, one
per applicant and one version per content. `TransactionAdds`: the transaction
only adds to what is committed, and remembers the objects it wrote, so that a
discard after a failure takes no other. `RunIsOnTrack`: what of the plan lies
behind the importer's position is accounted for in `work`, which is why
`COMPLETED` means the whole plan. Theorems: `ImportsOnce`,
`CompletedRunsAreWhole`, `VersionsKeepObjects`.

`ImportImplementsLedger`: `ImportSpec => Ledger!Spec`. `ImportInv` bounds what a
transaction adds; the refinement needs what it adds exactly, so that its commit
is one `Enter`. `LedgerInv` says so (`EnteringOne`: the applicant's row and the
files no longer pending, their contents included), says that the running run
is the latest and still RUNNING (`RunIsOpen`), and that between transactions
the run has entered exactly the applicants it is done with (`EnteredSoFar`),
which makes `complete_run` a `Close` of a whole run.

### InternalReviewProofs

`ReviewHolds`: `Spec => []ReviewInv`, the three components' invariants.

* `SavedWorkStaysShown`: a grade between the trigger's UPDATE and its INSERT
  knows whether its row existed (`OpenGradesKnowTheirRow`); whenever that went
  stale, the column is one the property excepts (finding 3).
* `BallotsKeepTheirPlace`: a partial ballot extended by its first grade has
  three grades and none that was not given, so without an A beside a C it is
  one of the seven buckets.
* `PreferenceStays`: a page has read the latest stored fields, or what
  `crossed` noted when another page stored one (`PagesReadTheLatest`), and that
  is all it can write back.
* `AppliedStaysServed`: objects of committed rows stay (`CommittedObjectsStay`),
  and what an open import has prepared, scanned and stored is what its
  manifest asks for (`OpenImportIsSound`). The objects in `unanswered` are
  excepted, here and when a rerun finds their rows and reports the manifest
  applied (finding 2).

### ApplicantIdentityProofs

`IdentityHolds`: `Spec => []IdentityInv`.

* `BurstIsBounded`: two buckets of a subject lie at least a window apart and
  each lets the limit pass (`PassagesAreCounted`), so the passages within one
  window's length come from at most two buckets, however the dictionary was
  pruned.
* `AcceptedOnce`: an accepted response is remembered or too old for siteverify
  (`AcceptedIsKnown`). This is where the assumption
  `TokenLifetime <= ReplayMemory` of `GateAssumption` is used.
* `CodesOpenOnce`: the challenge of a context is its latest code, and a code
  that opened a session is used up (`ChallengeIsTheLatest`, `OpenedIsUsedUp`).
* `LinksStayOneToOne`, `ActivatedCanSignIn`: `ActivateCommit` looks at the
  links again, and a row of the record that is done was put into the group
  before it was written (`RowsDoneAreMembers`).
* `PagesGoToTheirOwner`: a session of a synthetic workspace has a workspace
  row of its administrator (`SyntheticSessionsHaveWorkspaces`).

### PublicationsProofs

`PublicationsHold`: `Spec => []PublicationsInv`. What `Transactions`
computes over the works of an applicant is shown to be well defined and then
followed by induction over the natural numbers (`Counting`, from the
well-founded minimum, since an operator cannot be instantiated): a row that
`Lookup` finds can take the work, one it does not find can be inserted, and
nothing is taken away.

* `ImportsNeverClash`: the unique indexes hold after every work of every
  transaction. A row lacks a DOI only if no other row of the applicant has it,
  because the lookup asks for the DOI first.
* `AppliedManifestsAreWhole`: what was applied stays so, since rows keep their
  keys and fields that were filled (`Keeps`).
* `CollectedSnapshotsLoad`: the rows the collector writes meet each check of
  the loader, given that its records are well formed (`RecordsAssumption`).
* `CitationRunsAreWhole`: the place of a work in the tables does not move, and
  the observations of a run are in bijection with the works of its file.
* `ActivatedCutoffsAreComplete`: an action property; what the activation checks
  within its transaction is what the cutoff claims.

### CorpusProofs

`CorpusHolds`: `CorpusSpec => []CorpusInv`.

* `CandidatesStayInSections`: between two lines the buffer holds lines of the
  section being read, after those of all candidates (`Follows`). An inline
  heading puts two parts of one line into two candidates, which is why the
  order between candidates is not strict.
* `ReconciliationAdds`: by the same induction, over the candidates. Whichever
  way a candidate is settled (`Settles`), works keep their place, identifier,
  evidence and values, and the audit says whether its occurrence is there; that
  it is under exactly one work follows from the loader, which the written
  manifest passed. `BasesAssumption` says that an occurrence identifier of the
  reconciliation's own making names what it was made of, as `_occurrence_id`
  hashes it.
* `AcceptedReviewsAreKept`: the primary of a title carries the heaviest weight
  (`PrimaryIsHeaviest`), and weight orders by review first (`Weights`,
  `Ranks`); so the review that outlives a copy ranks at least as high, and the
  candidates, settled afterwards, replace no accepting review. That a review
  has a rank at all is the loader's check of its disposition, which is why
  `BaseIsManifest` says that the base loads, and `NoneIsNoDisposition` that a
  missing review is none of them.
* `FilingsAreFinal`: an action property. An occurrence the manifest knows is
  not filed again; a work that a run adds for such a candidate therefore lists
  nothing, and a manifest with a work that lists nothing is not written.

### DeploymentProofs

* `DeploymentHolds`: `Spec => []DeploymentInv`, and from it
  `DeployedReleasesFit`. The property alone is not inductive: `SwitchCurrent`
  adds a release to `deployed` three commands after its bootstrap. The
  invariant therefore says that a deploy past its bootstrap finds its
  migrations in the schema, and that an operation has a release at all. The
  argument is `SchemaGrows` (the schema only ever becomes an extension of
  itself, by `Completed` the very migrations of the release) and `Control`
  (which step an operation may come from).
* `FailedOperationsRestore`, with `RestoreInv`: until the link is put back it
  is untouched or remembered in `op.previous`, the snapshot of the files is the
  one taken at the start, the served site changes only with success; then link,
  files and loaded unit are as they were, one restore step after the other.
* `RunningVenvStays`, with `VenvInv`: without faults the process in service
  runs from the current link at every step except between the switch and the
  restart (a fault is anything stopped from outside, and the property says so),
  which is why refusing to rebuild the *current* release is enough.
* `MappedLoginHolds`: inductive as it stands, given what `InspectState` tells
  (`Inspected`) and that only two calls touch the principals.
* `LeftoversExplained`, with `TestInv`: without interruptions the targets on
  the server are exactly the first `made` of the script's list, so that a login
  is there only when both markers its cleanup asks for are.

### Assumptions

Only those declared with the constants: bounds are natural numbers
(`MaxClockAssumption`, `UploadBounds`, `ImportAssumption`, `BoundAssumption`),
lifetimes and limits are positive (`GateAssumption`, `SignInAssumption`), a
release has a sequence of checksums (`MigrationsAssumption`), manifests have
sequences of works, a missing review is no disposition
(`NoneIsNoDisposition`), and records list the applicant only among authors
(`LedgerAssumption`, `RecordsAssumption`, `BasesAssumption`), the roster has
three different trustees (`RosterAssumption`, `GradesAssumption`), and sentinels such as `None` are
no member of the sets they stand beside. `SharedSession` is a hypothesis of the
theorems that need it.

### Only model-checked

`ServiceComesBack`, which is liveness; that and `ENABLED` are out of the
prover's reach.

## 6. Findings

1. **Two sessions break the lock** (`submission_session_race`). A save through
   another session falls between the checks and the INSERT of a submission. The
   stored manifest then lists a row version that is no longer stored.
2. **A lost answer deletes a registered document** (`upload_lost_commit`). The
   store unlinks the object of a version the database has. `SourceImport`
   has the same shape (`LoseCommit`), which is why `StoreMatchesVersions`
   excepts the objects lost that way, and so has `ReviewArtifacts`
   (`unanswered`): `apply` unlinks the extracts (`review_artifacts.py:381-385`)
   and a rerun of the manifest finds payload and provenance equal (315-323),
   stores nothing and reports it applied. Reviewers then get a row without a
   file, which is what `AppliedArtifactsAreServed` excepts.
3. **A grade is not mirrored** (`evaluation_mirror`). When the first comment of
   a column is inserted between the trigger's UPDATE and its INSERT, the grade
   stays out of the evaluation until the trustee grades again.

### Observations

Met while modelling; each is visible in the model but is no property of a run.

* A confirmed section saved again unchanged is stranded: the preview compares
  contents (`confirmations.py:46`), the submission row versions (019:628), and
  a new confirmation is not inserted (`sql_pilot.py:812`).
* The duplicate check of the store is per process (`store.py:106`): two workers
  store the same bytes for one application.
* `CreateFellowshipCall` and its siblings (migration 040) write audit payloads
  whose keys `TR_AuditEvent_RejectSensitivePayload` refuses (51032): over SQL
  the creation of a call always rolls back.
* `evaluation_groups.py:81-83` speaks of the "strongest available grade"; the
  code takes the first completed one in roster order.
* Grades can still change after the selection is LOCKED; of the comments only
  those that were checked before (050:88-91 precedes the transaction).
* The navigation preference is read, changed and written back whole
  (`main.py:624`); a page open meanwhile overwrites the other field with what
  it had read. `PreferenceIsKept` does not exclude that update, it bounds what
  it can bring back.
* A source document may be replaced between the check of a review artifact and
  its commit.
* A work collapsed into another leaves no row with its key, so that applying a
  queue or snapshot that names it ends with "does not resolve to exactly one
  publication"; looking a DOI up first can leave an orphan key row.
* A corrected Scholar queue with an unchanged row always fails on
  `UQ_PublicationCitationObservation_Payload` (021:126); the queue writer keeps
  the review of a work whose DOI or title changed; a title starting with
  `=`, `+`, `-` or `@` makes the queue unloadable.
* Applying a manifest again after a crash, with an explicit PENDING_REVIEW,
  reverts a human decision (`publications.py:877-887`); promotion differs
  between `docs/import-2026.md:93` and `publications.py:992-1000`.
* The collector writes journal rows that the loader refuses (empty type or
  date, non-canonical identifiers, history before 1900).
* Exact-title deduplication overrides explicit reviews that rank below another
  of the same title (`publication_reconciliation.py:509-510` says they are
  preserved); an inline heading does not reset the column year; some results
  are refused by the manifest's own loader (a non-publication that holds a DOI,
  a second citation of an ambiguous work).
* A second reconciliation of an unchanged document may be impossible to write,
  although reruns are meant to be idempotent
  (`2026-09-22-robust-publication-parser-design.md:100`). Matching tells two
  works of one title apart by their years, `_deduplicate_exact_title_works` does
  not: what one run added the next one quarantines, adds again without an
  occurrence, and the loader refuses the result. `FilingIsFinal` says what
  does hold of every manifest that is written.
* A publication can be lost over two runs. `_review_rank` puts a missing review
  below NON_PUBLICATION, although a resolved work without a review counts as
  published (`_accepted_counts`). In the second run the copy the first one set
  aside becomes the canonical work and the accepted one is set aside too; the
  guard on the counts passes if the run also adds a work. `AcceptedReviewsStand`
  says what does hold: no explicit accepting review is lost that way.
* Two installers started at once are excluded by nothing but the operator.
* The upload coroutine validates, scans and writes on the event loop
  (`routes/applicant_documents.py:64`).
* The importer reads a file again at ingestion (`run.py:750`), and a path whose
  content goes back to an earlier version keeps its later one (`run.py:725`).

## 7. Plan

Done: submission workflow with lifecycle and proofs; uploads; source import;
deployment and SQL principals; access, identities and sign-in; corpus,
publications and citations; evaluation, navigation, review artifacts; the
proofs of section 5.

Left:

1. **Models**: the active version of an imported slot; the metrics computed
   from decisions and cutoffs; the call catalogue, once calls can be created.

## 8. Not modelled

Synthetic workspaces beyond their creation (they can neither submit nor be
approved: 52913, 52912), `ReopenApplicantScope` (denied to the runtime
principal, no caller), the in-memory twins of the SQL services used by tests,
recommendation letters (filtered from every applicant-visible procedure), the
call catalogue (see Observations), rendering, exports and metrics pages,
configuration and headers, and the conversion of PDFs to text. `PROJECT.json`
says for each component what of it is left out.

## 9. Running

```
tlc -workers 2 -config SubmissionOneSession.cfg MCSubmissionWorkflow
tlc -workers 2 -config Deployment.cfg MCDeployment
tlapm SubmissionWorkflowProofs.tla
tlapm ApplicantIdentityProofs.tla
```

The other configurations are run the same way with the module `PROJECT.json`
names, the other proof modules with `tlapm`. A passing run takes between 20
seconds and four minutes with two workers; a proof module between one and ten
minutes, later calls only what changed.
