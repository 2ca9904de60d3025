------------------------- MODULE SubmissionWorkflow -------------------------
(***************************************************************************)
(* The submission workflow of ONE application, as deployed: the services   *)
(* of app/applicant/sql_pilot.py over the stored procedures of the         *)
(* migrations.  Applicants edit section drafts, confirm them and submit a  *)
(* manifest of all of them; internal reviewers approve the submission or   *)
(* return one section of it.                                               *)
(*                                                                         *)
(* A `request' is one HTTP request in a worker thread together with the    *)
(* browser form behind it.  A request is a sequence of database            *)
(* transactions, and steps of other requests fall between them:            *)
(*   - the form loads a section (editing) and saves or confirms the row    *)
(*     version it loaded, however old that is by then;                     *)
(*   - ConfirmApplicantSection runs its checks and its INSERT as separate  *)
(*     READ COMMITTED statements without a transaction of its own;         *)
(*   - final submission reads the sections and documents one query at a    *)
(*     time (_manifest), then calls SubmitApplicantFinalConfirmation,      *)
(*     whose checks and whose INSERT are again separate statements: the    *)
(*     only lock it holds between them is on its OWN session row.          *)
(* SaveApplicantSectionDraft, ApproveApplicantSubmission and               *)
(* ReturnApplicantSubmissionForCorrection lock the rows they decide on and *)
(* are atomic.  A session that expired or was revoked takes no more steps. *)
(*                                                                         *)
(* A definition with a weakened twin just above it (ReopenUnvalidated above*)
(* ReopenValidation) is one whose guard some property depends on: with the *)
(* twin in its place TLC finds that property violated (README, Mutants).   *)
(***************************************************************************)
EXTENDS DocumentSlots

CONSTANTS
    Sections,       \* the applicant sections, all required
    Contents,       \* what a section's draft may contain
    NoContent,      \* the section has no draft row
    Complete,       \* contents that validate_section(final=True) accepts
    Promotable,     \* contents PromoteApprovedApplicantDrafts accepts
    Requests,       \* concurrent requests of this application's applicant
    SessionOf       \* SessionOf[r]: the session cookie the request carries

ASSUME ContentsAssumption ==
    /\ NoContent \notin Contents
    /\ Complete \subseteq Contents
    /\ Promotable \subseteq Contents
ASSUME SectionsAssumption == Sections # {}

\* The applicant has one session at a time; nothing in the code enforces it.
SharedSession == \A q, r \in Requests : SessionOf[q] = SessionOf[r]

VARIABLES
    draft,          \* ApplicantSectionDraft, one row per section
    confirmations,  \* ApplicantSectionConfirmation, append-only
    finals,         \* ApplicantFinalConfirmation, append-only
    superseded,     \* finals with SupersededAtUtc set, by their time
    decisions,      \* ApplicantFinalReviewDecision, append-only
    scopes,         \* ApplicantReopenScope, ScopeType SECTION
    status,         \* Application.ApplicationStatus
    promoted,       \* latest ApplicationSectionVersion of each section
    pc,             \* pc[r]: what the request is in the middle of
    item,           \* item[r]: the section row the request holds
    manifest,       \* manifest[r]: the section entries it has read
    documents       \* documents[r]: the document entries it has read

sectionVars == <<draft, confirmations>>
reviewVars == <<finals, superseded, decisions, scopes, status, promoted>>
requestVars == <<pc, item, manifest, documents>>
vars == <<clock, slotVars, sectionVars, reviewVars, requestVars>>

NoRow == [rv |-> 0, content |-> NoContent]
NoItem == [section |-> CHOOSE s \in Sections : TRUE, rv |-> 0, content |-> NoContent]
NoManifest == [s \in Sections |-> NoRow]
NoDocuments == [d \in Slots |-> NoVersion]

Time == 0..MaxClock
Rows == [rv : Time, content : Contents \cup {NoContent}]
Items == [section : Sections, rv : Time, content : Contents \cup {NoContent}]
Confirmations ==
    [section : Sections, content : Contents \cup {NoContent}, rv : Time, at : Time]
Finals == [at : Time, manifest : [Sections -> Rows], documents : [Slots -> Time]]
Decisions == [final : Time, decision : {"APPROVED", "REJECTED"}, at : Time]
Scopes == [section : Sections, at : Time, open : BOOLEAN]
Steps == {"idle", "editing", "confirming", "reading", "submitting", "inserting"}

TypeOK ==
    /\ clock \in Time
    /\ SlotsTypeOK
    /\ draft \in [Sections -> Rows]
    /\ confirmations \subseteq Confirmations
    /\ finals \subseteq Finals
    /\ superseded \subseteq Time
    /\ decisions \subseteq Decisions
    /\ scopes \subseteq Scopes
    /\ status \in {"IMPORTED", "IN_REVIEW", "CONFIRMED"}
    /\ promoted \in [Sections -> Contents \cup {NoContent}]
    /\ pc \in [Requests -> Steps]
    /\ item \in [Requests -> Items]
    /\ manifest \in [Requests -> [Sections -> Rows]]
    /\ documents \in [Requests -> [Slots -> Time]]

Init ==
    /\ clock = ImportedVersion
    /\ SlotsInit
    /\ draft = [s \in Sections |-> NoRow]
    /\ confirmations = {}
    /\ finals = {}
    /\ superseded = {}
    /\ decisions = {}
    /\ scopes = {}
    /\ status = "IMPORTED"
    /\ promoted = [s \in Sections |-> NoContent]
    /\ pc = [r \in Requests |-> "idle"]
    /\ item = [r \in Requests |-> NoItem]
    /\ manifest = [r \in Requests |-> NoManifest]
    /\ documents = [r \in Requests |-> NoDocuments]

-----------------------------------------------------------------------------
(* What the procedures look up.                                            *)

Active == {f \in finals : f.at \notin superseded}

NeverDecided(f) == FALSE
Decided(f) == \E d \in decisions : d.final = f.at

OpenScopes(s) == {x \in scopes : x.section = s /\ x.open}

\* A confirmation counts unless its section was returned after it.
Valid(c) == \A x \in OpenScopes(c.section) : c.at > x.at

\* GetApplicantSectionConfirmation reads the latest valid row; is_current
\* compares its canonical hash, that is its content, with the draft's.
IsCurrent(s) ==
    \E c \in confirmations :
        /\ c.section = s /\ Valid(c)
        /\ \A other \in confirmations :
              other.section = s /\ Valid(other) => other.at <= c.at
        /\ c.content = draft[s].content

\* UPDLOCK, HOLDLOCK on the session row for the length of a submission.
SessionRowUnlocked(r) == TRUE
SessionRowFree(r) ==
    \A q \in Requests : pc[q] = "inserting" => SessionOf[q] # SessionOf[r]

-----------------------------------------------------------------------------
(* Editing and confirming a section.                                       *)

Finish(r) ==
    /\ pc' = [pc EXCEPT ![r] = "idle"]
    /\ item' = [item EXCEPT ![r] = NoItem]
    /\ manifest' = [manifest EXCEPT ![r] = NoManifest]
    /\ documents' = [documents EXCEPT ![r] = NoDocuments]

\* GET of a section: the form now holds its values and row version.
Load(r, s) ==
    /\ pc[r] = "idle"
    /\ pc' = [pc EXCEPT ![r] = "editing"]
    /\ item' = [item EXCEPT ![r] =
                  [section |-> s, rv |-> draft[s].rv, content |-> draft[s].content]]
    /\ UNCHANGED <<clock, slotVars, sectionVars, reviewVars, manifest, documents>>

\* The lock SaveApplicantSectionDraft applies: 52025, then 52027.
EditableUntilApproved(s) == status # "CONFIRMED"
Editable(s) ==
    /\ status # "CONFIRMED"
    /\ finals # {} => OpenScopes(s) # {}

\* The compare-and-swap on the row version (52026).
FormIsTrusted(r) == TRUE
FormIsFresh(r) == draft[item[r].section].rv = item[r].rv

\* SaveApplicantSectionDraft, under locks on the session and application rows.
Save(r, content) ==
    LET s == item[r].section IN
    /\ pc[r] = "editing"
    /\ clock < MaxClock
    /\ SessionRowFree(r)
    /\ Editable(s)
    /\ FormIsFresh(r)
    /\ clock' = clock + 1
    /\ draft' = [draft EXCEPT ![s] = [rv |-> clock', content |-> content]]
    /\ Finish(r)
    /\ UNCHANGED <<slotVars, confirmations, reviewVars>>

\* What ConfirmApplicantSection and the service above it require of the row
\* the form holds: unchanged, complete, saved since the section was returned
\* (52143) and different from what was confirmed before the return (52144).
Confirmable(row) ==
    /\ draft[row.section] = [rv |-> row.rv, content |-> row.content]
    /\ row.content \in Complete
    /\ \A x \in OpenScopes(row.section) :
          /\ row.rv > x.at
          /\ \A c \in confirmations :
                ~(c.section = row.section /\ c.at <= x.at /\ c.content = row.content)

\* The confirmation is idempotent: one row per confirmed content.
AlreadyConfirmed(row) ==
    \E c \in confirmations :
        c.section = row.section /\ c.content = row.content /\ Valid(c)

\* ConfirmApplicantSection up to the IF NOT EXISTS.
ConfirmCheck(r) ==
    /\ pc[r] = "editing"
    /\ Confirmable(item[r])
    /\ IF AlreadyConfirmed(item[r])
         THEN Finish(r)
         ELSE /\ pc' = [pc EXCEPT ![r] = "confirming"]
              /\ UNCHANGED <<item, manifest, documents>>
    /\ UNCHANGED <<clock, slotVars, sectionVars, reviewVars>>

\* UQ_ApplicantSectionConfirmation_Version refuses a second row.
ConfirmationIsNew(row) ==
    \A c \in confirmations :
        ~(c.section = row.section /\ c.content = row.content /\ c.rv = row.rv)

\* The INSERT of ConfirmApplicantSection, of the row checked earlier.
ConfirmInsert(r) ==
    /\ pc[r] = "confirming"
    /\ clock < MaxClock
    /\ ConfirmationIsNew(item[r])
    /\ clock' = clock + 1
    /\ confirmations' = confirmations \cup
         {[section |-> item[r].section, content |-> item[r].content,
           rv |-> item[r].rv, at |-> clock']}
    /\ Finish(r)
    /\ UNCHANGED <<slotVars, draft, reviewVars>>

-----------------------------------------------------------------------------
(* Final submission.                                                       *)

\* SqlApplicantFinalizationService._manifest, one section per query; a
\* section that is not currently confirmed ends the request unresolved.
ReadSection(r, s) ==
    /\ pc[r] \in {"idle", "reading"}
    /\ manifest[r][s] = NoRow
    /\ draft[s].rv # 0
    /\ IsCurrent(s)
    /\ pc' = [pc EXCEPT ![r] = "reading"]
    /\ manifest' = [manifest EXCEPT ![r][s] = draft[s]]
    /\ UNCHANGED <<clock, slotVars, sectionVars, reviewVars, item, documents>>

\* completion_issues and final_documents, after the sections.
ReadDocuments(r) ==
    /\ pc[r] = "reading"
    /\ \A s \in Sections : manifest[r][s] # NoRow
    /\ NoDocumentIssues
    /\ pc' = [pc EXCEPT ![r] = "submitting"]
    /\ documents' = [documents EXCEPT ![r] = FinalDocuments]
    /\ UNCHANGED <<clock, slotVars, sectionVars, reviewVars, item, manifest>>

\* Each manifest entry names the stored draft and a confirmation of it.
SectionsWereConfirmed(m) ==
    \A s \in Sections : \E c \in confirmations :
        c.section = s /\ c.rv = m[s].rv /\ c.content = m[s].content
SectionsMatch(m) ==
    \A s \in Sections :
        /\ draft[s].rv = m[s].rv
        /\ \E c \in confirmations :
              c.section = s /\ c.rv = draft[s].rv /\ c.content = m[s].content

SameManifest(f, r) == f.manifest = manifest[r] /\ f.documents = documents[r]

\* SubmitApplicantFinalConfirmation up to its INSERT.  A repeated identical
\* submission returns the active confirmation; a different active one is an
\* error (52134), as are stale sections (52136) or documents (5243x).
SubmitCheck(r) ==
    /\ pc[r] = "submitting"
    /\ SessionRowFree(r)
    /\ \/ /\ \E f \in Active : SameManifest(f, r)
          /\ Finish(r)
       \/ /\ Active = {}
          /\ SectionsMatch(manifest[r])
          /\ ValidateApplicantFinalDocuments(documents[r])
          /\ pc' = [pc EXCEPT ![r] = "inserting"]
          /\ UNCHANGED <<item, manifest, documents>>
    /\ UNCHANGED <<clock, slotVars, sectionVars, reviewVars>>

\* TR_ApplicantFinalConfirmation_ReopenValidation: a returned section was
\* saved and confirmed since, with content not confirmed before the return.
ReopenUnvalidated(m) == TRUE
ReopenValidation(m) ==
    \A x \in {y \in scopes : y.open} :
        /\ draft[x.section].rv > x.at
        /\ \E c \in confirmations :
              /\ c.section = x.section /\ c.at > x.at
              /\ c.rv = m[x.section].rv /\ c.content = m[x.section].content
              /\ \A prior \in confirmations :
                    ~(/\ prior.section = x.section /\ prior.at <= x.at
                      /\ prior.content = c.content)

ScopesLeftOpen == scopes
ClosedScopes == {[x EXCEPT !.open = FALSE] : x \in scopes}

\* The INSERT, its trigger (which closes every open scope) and the commit.
\* The filtered unique index admits one active confirmation.
SubmitInsert(r) ==
    /\ pc[r] = "inserting"
    /\ clock < MaxClock
    /\ Active = {}
    /\ ReopenValidation(manifest[r])
    /\ clock' = clock + 1
    /\ finals' = finals \cup
         {[at |-> clock', manifest |-> manifest[r], documents |-> documents[r]]}
    /\ scopes' = ClosedScopes
    /\ status' = "IN_REVIEW"
    /\ Finish(r)
    /\ UNCHANGED <<slotVars, sectionVars, superseded, decisions, promoted>>

\* Any refusal, conflict, closed browser, time-out or worker restart: the
\* open transaction rolls back and the request is gone.
Abandon(r) ==
    /\ pc[r] # "idle"
    /\ Finish(r)
    /\ UNCHANGED <<clock, slotVars, sectionVars, reviewVars>>

-----------------------------------------------------------------------------
(* Internal review.  Both procedures lock the confirmation row.            *)

\* PromoteApprovedApplicantDrafts copies the drafts as they are NOW; a
\* refusal (52644-52646) rolls the approval back.
PromoteApprovedApplicantDrafts ==
    /\ \A s \in Sections : draft[s].content \in Promotable
    /\ promoted' = [s \in Sections |-> draft[s].content]

\* ApproveApplicantSubmission; approving again returns the decision made.
Approve(f) ==
    /\ f \in Active
    /\ ~Decided(f)
    /\ decisions' = decisions \cup
         {[final |-> f.at, decision |-> "APPROVED", at |-> clock]}
    /\ status' = "CONFIRMED"
    /\ PromoteApprovedApplicantDrafts
    /\ UNCHANGED <<clock, slotVars, sectionVars, finals, superseded, scopes, requestVars>>

\* ReturnApplicantSubmissionForCorrection of one section.
Return(f, s) ==
    /\ clock < MaxClock
    /\ f \in Active
    /\ ~Decided(f)
    /\ clock' = clock + 1
    /\ decisions' = decisions \cup
         {[final |-> f.at, decision |-> "REJECTED", at |-> clock']}
    /\ superseded' = superseded \cup {f.at}
    /\ scopes' = scopes \cup {[section |-> s, at |-> clock', open |-> TRUE]}
    /\ status' = "IN_REVIEW"
    /\ UNCHANGED <<slotVars, sectionVars, finals, promoted, requestVars>>

-----------------------------------------------------------------------------
RequestNext(r) ==
    \/ \E s \in Sections : Load(r, s)
    \/ \E content \in Contents : Save(r, content)
    \/ ConfirmCheck(r)
    \/ ConfirmInsert(r)
    \/ \E s \in Sections : ReadSection(r, s)
    \/ ReadDocuments(r)
    \/ SubmitCheck(r)
    \/ SubmitInsert(r)
    \/ Abandon(r)

ReviewNext ==
    \/ \E f \in finals : Approve(f)
    \/ \E f \in finals, s \in Sections : Return(f, s)

DocumentNext == SlotsNext /\ UNCHANGED <<sectionVars, reviewVars, requestVars>>

Next == (\E r \in Requests : RequestNext(r)) \/ ReviewNext \/ DocumentNext

Spec == Init /\ [][Next]_vars

-----------------------------------------------------------------------------
(* Properties.                                                             *)

ContentOf(m) == [s \in Sections |-> m[s].content]

\* While a submission is active, the stored drafts and documents ARE the ones
\* its manifest lists: the lock SaveApplicantSectionDraft applies, the checks
\* of SubmitApplicantFinalConfirmation and the closed upload slots leave no
\* order of requests in which the two come apart.
ActiveManifestMatchesDrafts ==
    \A f \in Active : f.manifest = draft /\ f.documents = FinalDocuments

\* What an approval copied into the application record is the content of the
\* submission that was approved, although PromoteApprovedApplicantDrafts
\* reads the live drafts and not the manifest.
ApprovedContentWasSubmitted ==
    \A d \in decisions : d.decision = "APPROVED" =>
        \E f \in finals : f.at = d.final /\ promoted = ContentOf(f.manifest)

\* A section returned for correction is never submitted again with the
\* content it was returned for, whatever confirmations were in flight when
\* the reviewer returned it.
ReturnedSectionWasChanged ==
    \A d \in decisions, x \in scopes, f, g \in finals :
        (d.decision = "REJECTED" /\ x.at = d.at /\ f.at = d.final /\ g.at > d.at)
            => g.manifest[x.section].content # f.manifest[x.section].content

\* The workflow keeps its books: one active submission at most, no section
\* open for correction while there is one, and a submission is superseded
\* exactly when it was decided REJECTED.
ReviewStateConsistent ==
    /\ \A f, g \in Active : f = g
    /\ Active # {} => \A x \in scopes : ~x.open
    /\ \A f \in finals : f.at \in superseded <=>
          \E d \in decisions : d.final = f.at /\ d.decision = "REJECTED"
    /\ \A d, e \in decisions : d.final = e.final => d = e
    /\ status = "CONFIRMED" <=> \E d \in decisions : d.decision = "APPROVED"

\* Approval is the end: once the application is CONFIRMED, no late save,
\* submission, upload, document review or decision changes what was approved.
ApprovalIsFinal ==
    [][status = "CONFIRMED" => UNCHANGED <<draft, slotVars, reviewVars>>]_vars

\* A stale form cannot overwrite a newer change: whoever replaces a draft
\* has loaded the version it replaces.
NoLostUpdate ==
    [][\A s \in Sections : draft'[s] # draft[s] =>
          \E r \in Requests : pc[r] = "editing" /\ pc'[r] = "idle"
                /\ item[r] = [section |-> s, rv |-> draft[s].rv,
                              content |-> draft[s].content]]_vars

\* The submission last made, and the phase the tables amount to.
LatestContent ==
    IF finals = {} THEN [s \in Sections |-> NoContent]
    ELSE ContentOf((CHOOSE f \in finals : \A g \in finals : g.at <= f.at).manifest)

Phase ==
    IF finals = {} THEN "drafting"
    ELSE IF Active = {} THEN "returned"
    ELSE IF status = "CONFIRMED" THEN "approved" ELSE "submitted"

Lifecycle == INSTANCE SubmissionLifecycle WITH
    phase <- Phase,
    submission <- LatestContent,
    returned <- {x.section : x \in {y \in scopes : y.open}},
    record <- promoted

\* The interleaved requests of one session implement the abstract lifecycle:
\* whole submissions, approved as submitted, and resubmissions that change
\* the returned section only.
ImplementsLifecycle == Lifecycle!Spec

-----------------------------------------------------------------------------
(* The inductive invariants.  VersionsInv holds for any number of          *)
(* sessions and is what NoLostUpdate rests on; WorkflowInv, which is behind*)
(* ActiveManifestMatchesDrafts and ApprovedContentWasSubmitted, needs the  *)
(* applicant to have one session.                                          *)

\* Every version and time recorded anywhere is at most the clock.
RecordedInThePast ==
    /\ \A s \in Sections : draft[s].rv <= clock
    /\ \A c \in confirmations : c.rv <= clock
    /\ \A f \in finals : f.at <= clock
    /\ \A r \in Requests : item[r].rv <= clock
    /\ \A r \in Requests, s \in Sections : manifest[r][s].rv <= clock
    /\ \A row \in submissions : row.version <= clock

\* A row version names one content: whatever carries the version of the
\* stored draft carries its content.
VersionNamesContent ==
    /\ \A s \in Sections : draft[s].rv = 0 => draft[s] = NoRow
    /\ \A c \in confirmations :
          c.rv = draft[c.section].rv => c.content = draft[c.section].content
    /\ \A r \in Requests :
          item[r].rv = draft[item[r].section].rv
              => item[r].content = draft[item[r].section].content
    /\ \A r \in Requests, s \in Sections :
          manifest[r][s].rv = draft[s].rv => manifest[r][s] = draft[s]

VersionsInv ==
    /\ TypeOK
    /\ OnePendingUploadPerSlot
    /\ RecordedInThePast
    /\ VersionNamesContent

\* Between the checks of a submission and its INSERT nothing it checked moves.
CheckedManifestHolds ==
    \A r \in Requests : pc[r] = "inserting" =>
        manifest[r] = draft /\ documents[r] = FinalDocuments /\ NoDocumentIssues

\* An active submission has settled documents and closes every scope, so
\* that no section is editable.
ActiveSubmissionIsLocked ==
    /\ \A f, g \in Active : f = g
    /\ Active # {} => NoDocumentIssues /\ \A x \in scopes : ~x.open

\* The approved submission stays the active one.
ApprovedStaysActive ==
    \A d \in decisions : d.decision = "APPROVED" =>
        \E f \in Active : f.at = d.final /\ promoted = ContentOf(f.manifest)

LockInv ==
    /\ CheckedManifestHolds
    /\ ActiveSubmissionIsLocked
    /\ ActiveManifestMatchesDrafts
    /\ ApprovedStaysActive

WorkflowInv == VersionsInv /\ LockInv

-----------------------------------------------------------------------------
(* The books: for any number of sessions.                                  *)

\* Decisions and supersessions are of submissions that were made.
DecisionsNameFinals ==
    /\ \A d \in decisions : \E f \in finals : f.at = d.final
    /\ \A t \in superseded : \E f \in finals : f.at = t

\* What a submission found settled stays settled until it is returned, since
\* settled documents take neither an upload nor a review.
SettledDocumentsStay ==
    /\ \A r \in Requests : pc[r] = "inserting" => NoDocumentIssues
    /\ Active # {} => NoDocumentIssues

BooksInv ==
    /\ DecisionsNameFinals
    /\ SettledDocumentsStay
    /\ ReviewStateConsistent
    /\ ActiveVersionWasAccepted

-----------------------------------------------------------------------------
(* Returns and resubmissions, for any number of sessions.                  *)

\* The confirmation that lets a section be submitted.
Backs(c, s, row) == c.section = s /\ c.rv = row.rv /\ c.content = row.content

\* Only complete content is confirmed, once per version, and all that is
\* submitted was confirmed before.
SubmittedWasConfirmed ==
    /\ \A c \in confirmations : c.content \in Complete /\ c.at <= clock
    /\ \A c, e \in confirmations : Backs(c, e.section, e) => c = e
    /\ \A r \in Requests : pc[r] = "confirming" => item[r].content \in Complete
    /\ \A r \in Requests, s \in Sections : pc[r] = "inserting" =>
          \E c \in confirmations : Backs(c, s, manifest[r][s])
    /\ \A f \in finals, s \in Sections :
          \E c \in confirmations :
              c.section = s /\ c.content = f.manifest[s].content /\ c.at <= f.at

Latest(f) == f \in finals /\ \A g \in finals : g.at <= f.at

\* Submissions are ordered by their times, the active one is the latest, and
\* a decision is later than what it decides.
FinalsInOrder ==
    /\ \A f, g \in finals : f.at = g.at => f = g
    /\ finals # {} => \E f \in finals : Latest(f)
    /\ \A f \in Active : Latest(f)
    /\ \A d \in decisions : d.final <= d.at

\* The open scope is later than all other scopes and than all submissions.
ScopesInOrder ==
    /\ finals = {} => scopes = {}
    /\ \A x \in scopes : x.at <= clock
    /\ \A x, y \in scopes : x.open => y.at <= x.at /\ (y.open => y = x)
    /\ \A x \in scopes, f \in finals : x.open => f.at <= x.at

\* Content that was not confirmed for the section before it was returned.
Fresh(x, content) ==
    \A c \in confirmations : c.section = x.section /\ c.at <= x.at => c.content # content

\* A submission whose confirmation of a returned section is older than the
\* return: the trigger will refuse it.
Doomed(r) ==
    \E x \in scopes : x.open /\ \A c \in confirmations :
        Backs(c, x.section, manifest[r][x.section]) => c.at <= x.at

\* After a return only fresh content of the section is confirmed and
\* submitted.  A submission in flight that was checked before the return may
\* still hold what was returned, but then it cannot be inserted.
ReturnedContentIsFresh ==
    /\ \A x \in scopes, g \in finals :
          g.at > x.at => Fresh(x, g.manifest[x.section].content)
    /\ \A x \in scopes, c \in confirmations :
          c.section = x.section /\ c.rv > x.at => Fresh(x, c.content)
    /\ \A x \in scopes, r \in Requests :
          (pc[r] = "confirming" /\ item[r].section = x.section /\ item[r].rv > x.at)
              => Fresh(x, item[r].content)
    /\ \A x \in scopes : ~x.open => draft[x.section].rv > x.at
    /\ \A r \in Requests : pc[r] = "inserting" =>
          \/ Active # {}
          \/ Doomed(r)
          \/ \A x \in scopes : ~x.open => manifest[r][x.section].rv > x.at

ReturnInv ==
    /\ SubmittedWasConfirmed
    /\ FinalsInOrder
    /\ ScopesInOrder
    /\ ReturnedContentIsFresh

RecordsInv == VersionsInv /\ BooksInv /\ ReturnInv

\* With one session, a section that is not open for correction is stored as
\* it was submitted last.
UnreturnedSectionIsKept ==
    \A f \in finals : Latest(f) =>
        \A s \in Sections : OpenScopes(s) = {} => draft[s] = f.manifest[s]

LifecycleInv == RecordsInv /\ LockInv /\ UnreturnedSectionIsKept
=============================================================================
