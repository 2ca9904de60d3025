---------------------- MODULE SubmissionWorkflowProofs ----------------------
(***************************************************************************)
(* Proofs about the submission workflow, for every set of sections,        *)
(* contents, slots and requests and every bound on the clock: row versions *)
(* name contents, the lock and the review cycle hold, and with one session *)
(* the workflow implements SubmissionLifecycle.                            *)
(***************************************************************************)
EXTENDS SubmissionWorkflow, TLAPS

\* The constants of the model are times.
LEMMA TimeFacts ==
    /\ 0 \in Time /\ NoVersion \in Time /\ ImportedVersion \in Time
    /\ \A n \in Time : n < MaxClock => n + 1 \in Time
BY MaxClockAssumption DEF Time, NoVersion, ImportedVersion

\* What an idle request holds is well typed.
LEMMA DefaultsTyped ==
    /\ NoRow \in Rows
    /\ NoItem \in Items
    /\ NoManifest \in [Sections -> Rows]
    /\ NoDocuments \in [Slots -> Time]
<1>1. NoRow \in Rows
  BY TimeFacts DEF NoRow, Rows
<1>2. (CHOOSE s \in Sections : TRUE) \in Sections
  BY SectionsAssumption
<1>3. NoItem \in Items
  BY <1>2, TimeFacts DEF NoItem, Items
<1> QED
  BY <1>1, <1>3, TimeFacts DEF NoManifest, NoDocuments

\* A request that ends is well typed again.
LEMMA FinishTyped ==
    ASSUME TypeOK, NEW r \in Requests, Finish(r)
    PROVE  /\ pc' \in [Requests -> Steps]
           /\ item' \in [Requests -> Items]
           /\ manifest' \in [Requests -> [Sections -> Rows]]
           /\ documents' \in [Requests -> [Slots -> Time]]
BY DefaultsTyped DEF TypeOK, Finish, Steps

\* Uploads and reviews keep the types of the slots.
LEMMA SlotsTyped ==
    ASSUME clock \in Time, SlotsTypeOK, SlotsNext
    PROVE  clock' \in Time /\ SlotsTypeOK'
<1>1. ASSUME NEW d \in Slots, NEW expected \in 0..MaxClock,
             RegisterApplicantDocumentSubmission(d, expected)
      PROVE  clock' \in Time /\ SlotsTypeOK'
  <2>1. clock' \in Time
    BY <1>1, TimeFacts DEF RegisterApplicantDocumentSubmission
  <2>2. slot' \in [Slots -> SlotRows]
    BY <1>1, <2>1 DEF RegisterApplicantDocumentSubmission, UploadOpen, SlotsTypeOK, SlotRows,
       UploadModes, Time
  <2>3. submissions' \subseteq SubmissionRows
    BY <1>1, <2>1 DEF RegisterApplicantDocumentSubmission, UploadOpen, SlotsTypeOK,
       SubmissionRows, Time
  <2> QED
    BY <2>1, <2>2, <2>3 DEF SlotsTypeOK
<1>2. ASSUME NEW row \in submissions, NEW decision \in {"ACCEPTED", "REJECTED"},
             ReviewApplicantDocumentSubmission(row, decision)
      PROVE  clock' \in Time /\ SlotsTypeOK'
  <2>1. clock' \in Time
    BY <1>2, TimeFacts DEF ReviewApplicantDocumentSubmission
  <2>2. row \in SubmissionRows
    BY DEF SlotsTypeOK
  <2>3. submissions' \subseteq SubmissionRows
    BY <1>2, <2>2 DEF ReviewApplicantDocumentSubmission, Reviewable, Reviewed, SlotsTypeOK,
       SubmissionRows
  <2>4. slot' \in [Slots -> SlotRows]
    BY <1>2, <2>1, <2>2 DEF ReviewApplicantDocumentSubmission, Reviewable, SlotsTypeOK,
       SlotRows, SubmissionRows, UploadModes, Time
  <2> QED
    BY <2>1, <2>3, <2>4 DEF SlotsTypeOK
<1> QED
  BY <1>1, <1>2 DEF SlotsNext

\* The imported application is well typed.
LEMMA TypeInit == Init => TypeOK
  BY DefaultsTyped, TimeFacts
  DEF Init, SlotsInit, TypeOK, SlotsTypeOK, SlotRows, UploadModes, Steps, NoRow,
      Time

\* Every action keeps the types; the proof has one step per action.
LEMMA TypeStep == ASSUME TypeOK, [Next]_vars PROVE TypeOK'
<1> USE DEF slotVars, sectionVars, reviewVars, requestVars
<1>1. ASSUME NEW r \in Requests, NEW s \in Sections, Load(r, s) PROVE TypeOK'
  BY <1>1 DEF Load, TypeOK, SlotsTypeOK, Steps, Items, Rows
<1>2. ASSUME NEW r \in Requests, NEW content \in Contents, Save(r, content)
      PROVE  TypeOK'
  <2>1. item[r].section \in Sections
    BY DEF TypeOK, Items
  <2>2. clock' \in Time
    BY <1>2, TimeFacts DEF Save, TypeOK
  <2>3. draft' \in [Sections -> Rows]
    BY <1>2, <2>1, <2>2 DEF Save, TypeOK, Rows
  <2> QED
    BY <1>2, <2>2, <2>3, FinishTyped DEF Save, TypeOK, SlotsTypeOK
<1>3. ASSUME NEW r \in Requests, ConfirmCheck(r) PROVE TypeOK'
  <2>1. CASE AlreadyConfirmed(item[r])
    BY <1>3, <2>1, FinishTyped DEF ConfirmCheck, TypeOK, SlotsTypeOK
  <2>2. CASE ~AlreadyConfirmed(item[r])
    BY <1>3, <2>2 DEF ConfirmCheck, TypeOK, SlotsTypeOK, Steps
  <2> QED
    BY <2>1, <2>2
<1>4. ASSUME NEW r \in Requests, ConfirmInsert(r) PROVE TypeOK'
  <2>1. item[r] \in Items
    BY DEF TypeOK
  <2>2. clock' \in Time
    BY <1>4, TimeFacts DEF ConfirmInsert, TypeOK
  <2>3. confirmations' \subseteq Confirmations
    BY <1>4, <2>1, <2>2 DEF ConfirmInsert, TypeOK, Items, Confirmations
  <2> QED
    BY <1>4, <2>2, <2>3, FinishTyped DEF ConfirmInsert, TypeOK, SlotsTypeOK
<1>5. ASSUME NEW r \in Requests, NEW s \in Sections, ReadSection(r, s)
      PROVE  TypeOK'
  BY <1>5 DEF ReadSection, TypeOK, SlotsTypeOK, Steps
<1>6. ASSUME NEW r \in Requests, ReadDocuments(r) PROVE TypeOK'
  <2>1. FinalDocuments \in [Slots -> Time]
    BY DEF FinalDocuments, TypeOK, SlotsTypeOK, SlotRows, Time
  <2> QED
    BY <1>6, <2>1 DEF ReadDocuments, TypeOK, SlotsTypeOK, Steps
<1>7. ASSUME NEW r \in Requests, SubmitCheck(r) PROVE TypeOK'
  <2>1. CASE Finish(r)
    BY <1>7, <2>1, FinishTyped DEF SubmitCheck, TypeOK, SlotsTypeOK
  <2>2. CASE ~Finish(r)
    BY <1>7, <2>2 DEF SubmitCheck, TypeOK, SlotsTypeOK, Steps
  <2> QED
    BY <2>1, <2>2
<1>8. ASSUME NEW r \in Requests, SubmitInsert(r) PROVE TypeOK'
  <2>1. clock' \in Time
    BY <1>8, TimeFacts DEF SubmitInsert, TypeOK
  <2>2. finals' \subseteq Finals
    BY <1>8, <2>1 DEF SubmitInsert, TypeOK, Finals
  <2>3. scopes' \subseteq Scopes
    <3>1. ASSUME NEW x \in scopes PROVE [x EXCEPT !.open = FALSE] \in Scopes
      BY DEF TypeOK, Scopes
    <3> QED
      BY <1>8, <3>1 DEF SubmitInsert, ClosedScopes
  <2> QED
    BY <1>8, <2>1, <2>2, <2>3, FinishTyped DEF SubmitInsert, TypeOK, SlotsTypeOK
<1>9. ASSUME NEW r \in Requests, Abandon(r) PROVE TypeOK'
  BY <1>9, FinishTyped DEF Abandon, TypeOK, SlotsTypeOK
<1>10. ASSUME NEW f \in finals, Approve(f) PROVE TypeOK'
  <2>1. decisions' \subseteq Decisions
    BY <1>10 DEF Approve, TypeOK, Decisions, Finals
  <2>2. promoted' \in [Sections -> Contents \cup {NoContent}]
    BY <1>10 DEF Approve, PromoteApprovedApplicantDrafts, TypeOK, Rows
  <2> QED
    BY <1>10, <2>1, <2>2 DEF Approve, TypeOK, SlotsTypeOK
<1>11. ASSUME NEW f \in finals, NEW s \in Sections, Return(f, s) PROVE TypeOK'
  <2>1. clock' \in Time /\ f.at \in Time
    BY <1>11, TimeFacts DEF Return, TypeOK, Finals
  <2>2. decisions' \subseteq Decisions
    BY <1>11, <2>1 DEF Return, TypeOK, Decisions
  <2>3. scopes' \subseteq Scopes
    <3>1. [section |-> s, at |-> clock', open |-> TRUE] \in Scopes
      BY <2>1 DEF Scopes
    <3> QED
      BY <1>11, <3>1 DEF Return, TypeOK
  <2> QED
    BY <1>11, <2>1, <2>2, <2>3 DEF Return, TypeOK, SlotsTypeOK
<1>12. ASSUME DocumentNext PROVE TypeOK'
  <2>1. clock' \in Time /\ SlotsTypeOK'
    BY <1>12, SlotsTyped DEF DocumentNext, TypeOK
  <2> QED
    BY <1>12, <2>1 DEF DocumentNext, TypeOK
<1>13. CASE UNCHANGED vars
  BY <1>13 DEF vars, TypeOK, SlotsTypeOK
<1> QED
  BY <1>1, <1>2, <1>3, <1>4, <1>5, <1>6, <1>7, <1>8, <1>9, <1>10, <1>11, <1>12,
     <1>13 DEF Next, RequestNext, ReviewNext

\* Every reachable state is well typed: whatever the requests and the
\* reviewers do, the tables hold rows of their declared kinds and no write
\* exceeds the bound on the clock.
THEOREM TypeCorrect == Spec => []TypeOK
BY TypeInit, TypeStep, PTL DEF Spec

-----------------------------------------------------------------------------
(* Versions: every recorded version is in the past and names one content.  *)

\* A write whose version is the next tick is later than all recorded ones.
LEMMA ClockFacts ==
    ASSUME TypeOK
    PROVE  /\ clock \in Nat
           /\ \A s \in Sections : draft[s].rv \in Nat
           /\ \A c \in confirmations : c.rv \in Nat /\ c.section \in Sections
           /\ \A f \in finals : f.at \in Nat
           /\ \A r \in Requests : item[r].rv \in Nat /\ item[r].section \in Sections
           /\ \A r \in Requests, s \in Sections : manifest[r][s].rv \in Nat
           /\ \A row \in submissions : row.version \in Nat /\ row.slot \in Slots
BY MaxClockAssumption
DEF TypeOK, SlotsTypeOK, SubmissionRows, Time, Rows, Items, Confirmations, Finals

\* Before the first request no version is later than the import.
LEMMA VersionsInit == Init => VersionsInv
<1> SUFFICES ASSUME Init PROVE VersionsInv
  OBVIOUS
<1>1. TypeOK
  BY TypeInit
<1>2. NoItem.section \in Sections
  BY DefaultsTyped DEF Items
<1>3. RecordedInThePast
  BY DEF Init, SlotsInit, RecordedInThePast, NoRow, NoItem, NoManifest, ImportedVersion
<1>4. VersionNamesContent
  BY <1>2 DEF Init, VersionNamesContent, NoRow, NoItem, NoManifest
<1>5. OnePendingUploadPerSlot
  BY DEF Init, SlotsInit, OnePendingUploadPerSlot
<1> QED
  BY <1>1, <1>3, <1>4, <1>5 DEF VersionsInv

\* A request that ends leaves no version behind.
LEMMA FinishVersions ==
    ASSUME TypeOK, NEW r \in Requests, Finish(r)
    PROVE  /\ \A q \in Requests : item'[q] = item[q] \/ item'[q] = NoItem
           /\ \A q \in Requests : manifest'[q] = manifest[q] \/ manifest'[q] = NoManifest
           /\ \A q \in Requests : pc'[q] = pc[q] \/ pc'[q] = "idle"
           /\ NoItem.rv = 0 /\ NoItem.section \in Sections /\ NoItem.content = NoContent
           /\ \A s \in Sections : NoManifest[s] = NoRow
           /\ NoRow.rv = 0 /\ NoRow.content = NoContent
<1>1. NoItem.section \in Sections
  BY DefaultsTyped DEF Items
<1> QED
  BY <1>1 DEF TypeOK, Finish, NoItem, NoManifest, NoRow

\* No upload names a version later than the write that stored it.
LEMMA SlotVersions ==
    ASSUME TypeOK, SlotsNext, \A row \in submissions : row.version <= clock
    PROVE  \A row \in submissions' : row.version <= clock + 1
<1>1. ASSUME NEW d \in Slots, NEW expected \in 0..MaxClock,
             RegisterApplicantDocumentSubmission(d, expected)
      PROVE  \A row \in submissions' : row.version <= clock + 1
  BY <1>1, ClockFacts DEF RegisterApplicantDocumentSubmission
<1>2. ASSUME NEW row \in submissions, NEW decision \in {"ACCEPTED", "REJECTED"},
             ReviewApplicantDocumentSubmission(row, decision)
      PROVE  \A x \in submissions' : x.version <= clock + 1
  <2> DEFINE done == [row EXCEPT !.status = decision]
  <2>1. done.version = row.version
    BY DEF TypeOK, SlotsTypeOK, SubmissionRows
  <2>2. submissions' = (submissions \ {row}) \cup {done}
    BY <1>2 DEF ReviewApplicantDocumentSubmission, Reviewable, Reviewed
  <2> HIDE DEF done
  <2> QED
    BY <2>1, <2>2, ClockFacts
<1> QED
  BY <1>1, <1>2 DEF SlotsNext

\* Uploads and reviews leave at most one upload of a slot pending: an upload
\* closes the slot, and only the review of the pending one opens it again.
LEMMA PendingStep ==
    ASSUME TypeOK, OnePendingUploadPerSlot, SlotsNext,
           \A row \in submissions : row.version <= clock
    PROVE  OnePendingUploadPerSlot'
<1>1. ASSUME NEW d \in Slots, NEW expected \in 0..MaxClock,
             RegisterApplicantDocumentSubmission(d, expected)
      PROVE  OnePendingUploadPerSlot'
  <2>1. \A x \in submissions : x.slot = d => x.status # "PENDING"
    BY <1>1 DEF RegisterApplicantDocumentSubmission, UploadOpen, OnePendingUploadPerSlot
  <2>2. \A e \in Slots : slot'[e].mode = IF e = d THEN "CLOSED" ELSE slot[e].mode
    BY <1>1 DEF RegisterApplicantDocumentSubmission, UploadOpen, TypeOK, SlotsTypeOK, SlotRows
  <2> DEFINE new == [slot |-> d, version |-> clock + 1, status |-> "PENDING"]
  <2>3. submissions' = submissions \cup {new} /\ new.slot = d /\ new.version = clock + 1
    BY <1>1 DEF RegisterApplicantDocumentSubmission
  <2> HIDE DEF new
  <2>4. ASSUME NEW x \in submissions', x.status = "PENDING",
               NEW y \in submissions', y.slot = x.slot
        PROVE  slot'[x.slot].mode = "CLOSED" /\ (y = x \/ y.version < x.version)
    <3>1. CASE x = new
      BY <2>2, <2>3, <2>4, <3>1, ClockFacts
    <3>2. CASE x \in submissions
      BY <2>1, <2>2, <2>3, <2>4, <3>2, ClockFacts DEF OnePendingUploadPerSlot
    <3> QED
      BY <2>3, <3>1, <3>2
  <2> QED
    BY <2>4 DEF OnePendingUploadPerSlot
<1>2. ASSUME NEW row \in submissions, NEW decision \in {"ACCEPTED", "REJECTED"},
             ReviewApplicantDocumentSubmission(row, decision)
      PROVE  OnePendingUploadPerSlot'
  <2> DEFINE done == [row EXCEPT !.status = decision]
  <2>1. done.slot = row.slot /\ done.version = row.version /\ done.status = decision
    BY DEF TypeOK, SlotsTypeOK, SubmissionRows
  <2>2. \A x \in submissions : x # row /\ x.status = "PENDING" => x.slot # row.slot
    BY <1>2, ClockFacts DEF ReviewApplicantDocumentSubmission, Reviewable, OnePendingUploadPerSlot
  <2>3. \A e \in Slots : e # row.slot => slot'[e] = slot[e]
    BY <1>2 DEF ReviewApplicantDocumentSubmission, Reviewable, TypeOK, SlotsTypeOK
  <2>4. submissions' = (submissions \ {row}) \cup {done}
    BY <1>2 DEF ReviewApplicantDocumentSubmission, Reviewable, Reviewed
  <2> HIDE DEF done
  <2> QED
    BY <2>1, <2>2, <2>3, <2>4, ClockFacts DEF OnePendingUploadPerSlot
<1> QED
  BY <1>1, <1>2 DEF SlotsNext

\* Every action keeps versions in the past and naming one content: a save
\* takes a new version, everything else copies a row it reads.
LEMMA VersionsStep == ASSUME VersionsInv, [Next]_vars PROVE VersionsInv'
<1> TypeOK /\ TypeOK'
  BY TypeStep DEF VersionsInv
<1> OnePendingUploadPerSlot /\ RecordedInThePast /\ VersionNamesContent
  BY DEF VersionsInv
<1> USE DEF slotVars, sectionVars, reviewVars, requestVars
<1>0. ASSUME UNCHANGED slotVars PROVE OnePendingUploadPerSlot'
  BY <1>0 DEF OnePendingUploadPerSlot
<1>1. ASSUME NEW r \in Requests, NEW s \in Sections, Load(r, s) PROVE VersionsInv'
  <2>1. \A q \in Requests : item'[q] = item[q]
            \/ item'[q] = [section |-> s, rv |-> draft[s].rv, content |-> draft[s].content]
    BY <1>1 DEF Load, TypeOK
  <2>2. RecordedInThePast'
    BY <1>1, <2>1 DEF Load, RecordedInThePast
  <2>3. VersionNamesContent'
    BY <1>1, <2>1 DEF Load, VersionNamesContent
  <2> QED
    BY <1>0, <1>1, <2>2, <2>3 DEF Load, VersionsInv
<1>2. ASSUME NEW r \in Requests, NEW content \in Contents, Save(r, content)
      PROVE  VersionsInv'
  <2>1. clock' = clock + 1 /\ item[r].section \in Sections
    BY <1>2, ClockFacts DEF Save
  <2>2. \A s \in Sections : draft'[s] = draft[s] \/ draft'[s] = [rv |-> clock + 1, content |-> content]
    BY <1>2, <2>1 DEF Save, TypeOK
  <2>3. RecordedInThePast'
    BY <1>2, <2>1, <2>2, ClockFacts, FinishVersions DEF Save, RecordedInThePast
  <2>4. VersionNamesContent'
    BY <1>2, <2>1, <2>2, ClockFacts, FinishVersions
    DEF Save, RecordedInThePast, VersionNamesContent
  <2> QED
    BY <1>0, <1>2, <2>3, <2>4 DEF Save, VersionsInv
<1>3. ASSUME NEW r \in Requests, Finish(r),
             UNCHANGED <<clock, slotVars, sectionVars, finals>>
      PROVE  VersionsInv'
  <2>1. RecordedInThePast'
    BY <1>3, ClockFacts, FinishVersions DEF RecordedInThePast
  <2>2. VersionNamesContent'
    BY <1>3, FinishVersions DEF VersionNamesContent
  <2> QED
    BY <1>0, <1>3, <2>1, <2>2 DEF VersionsInv
<1>4. ASSUME UNCHANGED <<clock, slotVars, sectionVars, item, manifest, finals>>
      PROVE  VersionsInv'
  <2>1. RecordedInThePast'
    BY <1>4 DEF RecordedInThePast
  <2>2. VersionNamesContent'
    BY <1>4 DEF VersionNamesContent
  <2> QED
    BY <1>0, <1>4, <2>1, <2>2 DEF VersionsInv
<1>5. ASSUME NEW r \in Requests, ConfirmInsert(r) PROVE VersionsInv'
  <2>1. clock' = clock + 1 /\ item[r].section \in Sections
    BY <1>5, ClockFacts DEF ConfirmInsert
  <2> DEFINE new == [section |-> item[r].section, content |-> item[r].content,
                     rv |-> item[r].rv, at |-> clock + 1]
  <2>2. /\ confirmations' = confirmations \cup {new}
        /\ new.section = item[r].section
        /\ new.content = item[r].content
        /\ new.rv = item[r].rv
    BY <1>5 DEF ConfirmInsert
  <2> HIDE DEF new
  <2>3. RecordedInThePast'
    BY <1>5, <2>1, <2>2, ClockFacts, FinishVersions DEF ConfirmInsert, RecordedInThePast
  <2>4. VersionNamesContent'
    BY <1>5, <2>1, <2>2, ClockFacts, FinishVersions DEF ConfirmInsert, VersionNamesContent
  <2> QED
    BY <1>0, <1>5, <2>3, <2>4 DEF ConfirmInsert, VersionsInv
<1>6. ASSUME NEW r \in Requests, NEW s \in Sections, ReadSection(r, s)
      PROVE  VersionsInv'
  <2>1. \A q \in Requests, z \in Sections :
            manifest'[q][z] = manifest[q][z] \/ manifest'[q][z] = draft[z]
    BY <1>6 DEF ReadSection, TypeOK
  <2>2. RecordedInThePast'
    BY <1>6, <2>1 DEF ReadSection, RecordedInThePast
  <2>3. VersionNamesContent'
    BY <1>6, <2>1 DEF ReadSection, VersionNamesContent
  <2> QED
    BY <1>0, <1>6, <2>2, <2>3 DEF ReadSection, VersionsInv
<1>7. ASSUME NEW r \in Requests, SubmitInsert(r) PROVE VersionsInv'
  <2>1. clock' = clock + 1
    BY <1>7 DEF SubmitInsert
  <2>2. RecordedInThePast'
    BY <1>7, <2>1, ClockFacts, FinishVersions DEF SubmitInsert, RecordedInThePast
  <2>3. VersionNamesContent'
    BY <1>7, FinishVersions DEF SubmitInsert, VersionNamesContent
  <2> QED
    BY <1>0, <1>7, <2>2, <2>3 DEF SubmitInsert, VersionsInv
<1>8. ASSUME NEW f \in finals, NEW s \in Sections, Return(f, s) PROVE VersionsInv'
  <2>1. clock' = clock + 1
    BY <1>8 DEF Return
  <2>2. RecordedInThePast'
    BY <1>8, <2>1, ClockFacts DEF Return, RecordedInThePast
  <2>3. VersionNamesContent'
    BY <1>8 DEF Return, VersionNamesContent
  <2> QED
    BY <1>0, <1>8, <2>2, <2>3 DEF Return, VersionsInv
<1>9. ASSUME DocumentNext PROVE VersionsInv'
  <2>1. clock' = clock + 1
    BY <1>9 DEF DocumentNext, SlotsNext, RegisterApplicantDocumentSubmission, UploadOpen,
       ReviewApplicantDocumentSubmission
  <2>2. \A row \in submissions' : row.version <= clock'
    BY <1>9, <2>1, SlotVersions DEF DocumentNext, VersionsInv, RecordedInThePast
  <2>3. RecordedInThePast'
    BY <1>9, <2>1, <2>2, ClockFacts DEF DocumentNext, RecordedInThePast
  <2>4. VersionNamesContent'
    BY <1>9 DEF DocumentNext, VersionNamesContent
  <2> QED
    BY <1>9, <2>3, <2>4, PendingStep DEF DocumentNext, VersionsInv, RecordedInThePast
<1> QED
  <2>1. CASE \E r \in Requests : ConfirmCheck(r) \/ SubmitCheck(r)
    BY <2>1, <1>3, <1>4 DEF ConfirmCheck, SubmitCheck
  <2>2. CASE \E r \in Requests : ReadDocuments(r) \/ Abandon(r)
    BY <2>2, <1>3, <1>4 DEF ReadDocuments, Abandon
  <2>3. CASE \E f \in finals : Approve(f)
    BY <2>3, <1>4 DEF Approve
  <2>4. CASE UNCHANGED vars
    BY <2>4, <1>4 DEF vars
  <2> QED
    BY <1>1, <1>2, <1>5, <1>6, <1>7, <1>8, <1>9, <2>1, <2>2, <2>3, <2>4
    DEF Next, RequestNext, ReviewNext

\* For any number of sessions: every recorded version lies in the past and
\* names one content, and a slot has at most one upload pending.
THEOREM VersionsHold == Spec => []VersionsInv
BY VersionsInit, VersionsStep, PTL DEF Spec

\* For any number of sessions: SaveApplicantSectionDraft never overwrites a
\* version other than the one the form had loaded.
THEOREM StaleFormsAreRefused == Spec => NoLostUpdate
<1> DEFINE Loaded ==
       \A s \in Sections : draft'[s] # draft[s] =>
          \E r \in Requests : pc[r] = "editing" /\ pc'[r] = "idle"
                /\ item[r] = [section |-> s, rv |-> draft[s].rv,
                              content |-> draft[s].content]
<1>1. VersionsInv /\ [Next]_vars => [Loaded]_vars
  <2> SUFFICES ASSUME VersionsInv, Next, NEW s \in Sections, draft'[s] # draft[s]
               PROVE  \E r \in Requests : pc[r] = "editing" /\ pc'[r] = "idle"
                        /\ item[r] = [section |-> s, rv |-> draft[s].rv,
                                      content |-> draft[s].content]
    OBVIOUS
  <2> TypeOK
    BY DEF VersionsInv
  <2>1. PICK r \in Requests, content \in Contents : Save(r, content)
    BY DEF Next, RequestNext, ReviewNext, DocumentNext, Load, ConfirmCheck,
       ConfirmInsert, ReadSection, ReadDocuments, SubmitCheck, SubmitInsert, Abandon,
       Approve, Return, sectionVars
  <2>2. item[r] \in Items
    BY DEF TypeOK
  <2>3. item[r].section = s
    BY <2>1, <2>2 DEF Save, TypeOK, Items
  <2>4. item[r].rv = draft[s].rv /\ item[r].content = draft[s].content
    BY <2>1, <2>3 DEF Save, FormIsFresh, VersionsInv, VersionNamesContent
  <2>5. item[r] = [section |-> s, rv |-> draft[s].rv, content |-> draft[s].content]
    BY <2>2, <2>3, <2>4 DEF Items
  <2>6. pc[r] = "editing" /\ pc'[r] = "idle"
    BY <2>1 DEF Save, Finish, TypeOK
  <2> QED
    BY <2>5, <2>6
<1>2. VersionsInv /\ [Next]_vars => VersionsInv'
  BY VersionsStep
<1> QED
  BY <1>1, <1>2, VersionsInit, PTL DEF Spec, NoLostUpdate

-----------------------------------------------------------------------------
(* Locks: with one session, what a submission checked does not move.       *)

\* What settles the documents also freezes them: no upload or review is
\* possible once GetApplicantFinalDocumentIssues reports nothing.
LEMMA SettledDocumentsAreFrozen ==
    ASSUME TypeOK, OnePendingUploadPerSlot, SlotsNext
    PROVE  ~NoDocumentIssues
<1>1. ASSUME NEW d \in Slots, NEW expected \in 0..MaxClock,
             RegisterApplicantDocumentSubmission(d, expected)
      PROVE  ~NoDocumentIssues
  BY <1>1 DEF RegisterApplicantDocumentSubmission, UploadOpen, NoDocumentIssues
<1>2. ASSUME NEW row \in submissions, NEW decision \in {"ACCEPTED", "REJECTED"},
             ReviewApplicantDocumentSubmission(row, decision)
      PROVE  ~NoDocumentIssues
  <2>1. \A later \in submissions : later.slot = row.slot => later.version <= row.version
    BY <1>2, ClockFacts DEF ReviewApplicantDocumentSubmission, Reviewable, OnePendingUploadPerSlot
  <2> QED
    BY <1>2, <2>1 DEF ReviewApplicantDocumentSubmission, Reviewable, NoDocumentIssues, Unresolved
<1> QED
  BY <1>1, <1>2 DEF SlotsNext

\* The documents a submission sees depend on the slots alone.
LEMMA DocumentsFrame ==
    ASSUME UNCHANGED slotVars
    PROVE  FinalDocuments' = FinalDocuments /\ (NoDocumentIssues' <=> NoDocumentIssues)
BY DEF slotVars, FinalDocuments, NoDocumentIssues, Unresolved

\* The part of LockInv that concerns the active submission depends on the
\* drafts, the slots and the review tables alone.
LEMMA ReviewFrame ==
    ASSUME LockInv, UNCHANGED <<draft, slotVars, reviewVars>>
    PROVE  /\ ActiveSubmissionIsLocked'
           /\ ActiveManifestMatchesDrafts'
           /\ ApprovedStaysActive'
<1>1. Active' = Active
  BY DEF Active, reviewVars
<1> QED
  BY <1>1, DocumentsFrame
  DEF LockInv, ActiveSubmissionIsLocked, ActiveManifestMatchesDrafts,
      ApprovedStaysActive, ContentOf, reviewVars

\* An application without a submission has nothing to lock.
LEMMA LockInit == Init => LockInv
BY DEF Init, LockInv, CheckedManifestHolds, ActiveSubmissionIsLocked,
   ActiveManifestMatchesDrafts, ApprovedStaysActive, Active

\* With one session, every action keeps the lock: while a submission is being
\* inserted its session row excludes saves, and an active one excludes edits.
LEMMA LockStep ==
    ASSUME SharedSession, VersionsInv, LockInv, [Next]_vars PROVE LockInv'
<1> TypeOK /\ OnePendingUploadPerSlot /\ VersionNamesContent
  BY DEF VersionsInv
<1> CheckedManifestHolds /\ ActiveSubmissionIsLocked /\ ActiveManifestMatchesDrafts
      /\ ApprovedStaysActive
  BY DEF LockInv
<1> USE DEF slotVars, sectionVars, reviewVars, requestVars
\* A request that is not between its checks and its INSERT: only its own
\* place in the program and what it holds change.
<1>1. ASSUME UNCHANGED <<draft, slotVars, reviewVars>>,
             \A q \in Requests : pc'[q] = "inserting" =>
                 pc[q] = "inserting" /\ manifest'[q] = manifest[q]
                     /\ documents'[q] = documents[q]
      PROVE  LockInv'
  <2>1. CheckedManifestHolds'
    BY <1>1, DocumentsFrame DEF CheckedManifestHolds
  <2> QED
    BY <1>1, <2>1, ReviewFrame DEF LockInv
<1>2. ASSUME NEW r \in Requests, Finish(r), UNCHANGED <<draft, slotVars, reviewVars>>
      PROVE  LockInv'
  <2>1. \A q \in Requests : pc'[q] = "inserting" =>
                 pc[q] = "inserting" /\ manifest'[q] = manifest[q]
                     /\ documents'[q] = documents[q]
    BY <1>2 DEF Finish, TypeOK
  <2> QED
    BY <1>1, <1>2, <2>1
<1>3. ASSUME NEW r \in Requests, NEW content \in Contents, Save(r, content)
      PROVE  LockInv'
  <2>1. Active = {}
    BY <1>3 DEF Save, Editable, ActiveSubmissionIsLocked, Active, OpenScopes
  <2>2. Active' = {}
    BY <1>3, <2>1 DEF Save, Active
  <2>3. \A q \in Requests : pc[q] # "inserting"
    BY <1>3 DEF Save, SessionRowFree, SharedSession
  <2>4. \A q \in Requests : pc'[q] # "inserting"
    BY <1>3, <2>3 DEF Save, Finish, TypeOK
  <2>5. ApprovedStaysActive'
    BY <1>3, <2>1 DEF Save, ApprovedStaysActive
  <2> QED
    BY <2>2, <2>4, <2>5
    DEF LockInv, CheckedManifestHolds, ActiveSubmissionIsLocked,
        ActiveManifestMatchesDrafts
<1>4. ASSUME NEW r \in Requests, SubmitCheck(r) PROVE LockInv'
  <2>1. CASE Finish(r)
    BY <1>2, <1>4, <2>1 DEF SubmitCheck
  <2>2. CASE ~Finish(r)
    <3>1. /\ SectionsMatch(manifest[r])
          /\ ValidateApplicantFinalDocuments(documents[r])
          /\ pc' = [pc EXCEPT ![r] = "inserting"]
          /\ UNCHANGED <<draft, slotVars, reviewVars, manifest, documents>>
      BY <1>4, <2>2 DEF SubmitCheck
    <3>2. manifest[r] = draft
      BY <3>1 DEF SectionsMatch, VersionNamesContent, TypeOK
    <3>3. CheckedManifestHolds'
      BY <3>1, <3>2, DocumentsFrame
      DEF CheckedManifestHolds, ValidateApplicantFinalDocuments, TypeOK
    <3> QED
      BY <3>1, <3>3, ReviewFrame DEF LockInv
  <2> QED
    BY <2>1, <2>2
<1>5. ASSUME NEW r \in Requests, SubmitInsert(r) PROVE LockInv'
  <2> DEFINE new == [at |-> clock', manifest |-> manifest[r], documents |-> documents[r]]
  <2>1. /\ finals' = finals \cup {new}
        /\ new.manifest = manifest[r] /\ new.documents = documents[r]
    BY <1>5 DEF SubmitInsert
  <2> HIDE DEF new
  <2>2. \A f \in Active' : f = new
    BY <1>5, <2>1 DEF SubmitInsert, Active
  <2>3. manifest[r] = draft /\ documents[r] = FinalDocuments /\ NoDocumentIssues
    BY <1>5 DEF SubmitInsert, CheckedManifestHolds
  <2>4. FinalDocuments' = FinalDocuments /\ NoDocumentIssues' /\ draft' = draft
    BY <1>5, <2>3, DocumentsFrame DEF SubmitInsert
  <2>5. CheckedManifestHolds'
    BY <1>5, <2>4 DEF SubmitInsert, Finish, CheckedManifestHolds, TypeOK
  <2>6. \A x \in scopes' : ~x.open
    BY <1>5 DEF SubmitInsert, ClosedScopes, TypeOK, Scopes
  <2>7. ApprovedStaysActive'
    BY <1>5 DEF SubmitInsert, ApprovedStaysActive
  <2> QED
    BY <2>1, <2>2, <2>3, <2>4, <2>5, <2>6, <2>7
    DEF LockInv, ActiveSubmissionIsLocked, ActiveManifestMatchesDrafts
<1>6. ASSUME NEW f \in finals, Approve(f) PROVE LockInv'
  <2>1. Active' = Active /\ f \in Active /\ f.manifest = draft
    BY <1>6 DEF Approve, Active, ActiveManifestMatchesDrafts
  <2>2. \A d \in decisions : d.decision # "APPROVED"
    BY <1>6, <2>1 DEF Approve, Decided, ApprovedStaysActive, ActiveSubmissionIsLocked
  <2>3. promoted' = ContentOf(f.manifest)
    BY <1>6, <2>1 DEF Approve, PromoteApprovedApplicantDrafts, ContentOf
  <2>4. \A d \in decisions' : d.decision = "APPROVED" => d.final = f.at
    BY <1>6, <2>2 DEF Approve
  <2>5. ApprovedStaysActive'
    BY <2>1, <2>3, <2>4 DEF ApprovedStaysActive, ContentOf
  <2>6. CheckedManifestHolds'
    BY <1>6, DocumentsFrame DEF Approve, CheckedManifestHolds
  <2>7. ActiveSubmissionIsLocked' /\ ActiveManifestMatchesDrafts'
    BY <1>6, <2>1, DocumentsFrame
    DEF Approve, ActiveSubmissionIsLocked, ActiveManifestMatchesDrafts
  <2> QED
    BY <2>5, <2>6, <2>7 DEF LockInv
<1>7. ASSUME NEW f \in finals, NEW s \in Sections, Return(f, s) PROVE LockInv'
  <2>1. Active' = {}
    BY <1>7 DEF Return, Active, ActiveSubmissionIsLocked
  <2>2. \A d \in decisions : d.decision # "APPROVED"
    BY <1>7 DEF Return, Decided, ApprovedStaysActive, ActiveSubmissionIsLocked
  <2>3. \A d \in decisions' : d.decision # "APPROVED"
    BY <1>7, <2>2 DEF Return
  <2>4. CheckedManifestHolds'
    BY <1>7, DocumentsFrame DEF Return, CheckedManifestHolds
  <2> QED
    BY <2>1, <2>3, <2>4
    DEF LockInv, ActiveSubmissionIsLocked, ActiveManifestMatchesDrafts,
        ApprovedStaysActive
<1>8. ASSUME DocumentNext PROVE LockInv'
  <2>1. ~NoDocumentIssues
    BY <1>8, SettledDocumentsAreFrozen DEF DocumentNext
  <2>2. Active = {} /\ \A q \in Requests : pc[q] # "inserting"
    BY <2>1 DEF ActiveSubmissionIsLocked, CheckedManifestHolds
  <2>3. Active' = {} /\ \A q \in Requests : pc'[q] # "inserting"
    BY <1>8, <2>2 DEF DocumentNext, Active
  <2>4. ApprovedStaysActive'
    BY <1>8, <2>2 DEF DocumentNext, ApprovedStaysActive
  <2> QED
    BY <2>3, <2>4
    DEF LockInv, CheckedManifestHolds, ActiveSubmissionIsLocked,
        ActiveManifestMatchesDrafts
<1> QED
  <2>1. CASE \E r \in Requests, s \in Sections : Load(r, s) \/ ReadSection(r, s)
    BY <2>1, <1>1 DEF Load, ReadSection, TypeOK
  <2>2. CASE \E r \in Requests : ConfirmCheck(r)
    BY <2>2, <1>1, <1>2 DEF ConfirmCheck, TypeOK
  <2>3. CASE \E r \in Requests : ConfirmInsert(r) \/ Abandon(r)
    BY <2>3, <1>2 DEF ConfirmInsert, Abandon
  <2>4. CASE \E r \in Requests : ReadDocuments(r)
    BY <2>4, <1>1 DEF ReadDocuments, TypeOK
  <2>5. CASE UNCHANGED vars
    BY <2>5, <1>1 DEF vars
  <2> QED
    BY <1>3, <1>4, <1>5, <1>6, <1>7, <1>8, <2>1, <2>2, <2>3, <2>4, <2>5
    DEF Next, RequestNext, ReviewNext

\* With one session, every reachable state satisfies the inductive invariant.
THEOREM WorkflowHolds == ASSUME SharedSession PROVE Spec => []WorkflowInv
<1>1. Init => WorkflowInv
  BY VersionsInit, LockInit DEF WorkflowInv
<1>2. WorkflowInv /\ [Next]_vars => WorkflowInv'
  BY SharedSession, VersionsStep, LockStep DEF WorkflowInv
<1> QED
  BY <1>1, <1>2, PTL DEF Spec

\* With one session, the drafts and documents under an active submission are
\* those its manifest lists.
THEOREM SubmittedIsStored ==
    ASSUME SharedSession PROVE Spec => []ActiveManifestMatchesDrafts
<1>1. WorkflowInv => ActiveManifestMatchesDrafts
  BY DEF WorkflowInv, LockInv
<1> QED
  BY <1>1, WorkflowHolds, SharedSession, PTL

\* With one session, an approval records the content that was submitted.
THEOREM ApprovedIsSubmitted ==
    ASSUME SharedSession PROVE Spec => []ApprovedContentWasSubmitted
<1>1. WorkflowInv => ApprovedContentWasSubmitted
  BY DEF WorkflowInv, LockInv, ApprovedStaysActive, ApprovedContentWasSubmitted, Active
<1> QED
  BY <1>1, WorkflowHolds, SharedSession, PTL

-----------------------------------------------------------------------------
(* The review cycle, for any number of sessions.                           *)


\* The times of the review tables are numbers.
LEMMA ReviewFacts ==
    ASSUME TypeOK
    PROVE  /\ clock \in Nat
           /\ \A f \in finals : f.at \in Nat
           /\ \A d \in decisions : d.final \in Nat /\ d.at \in Nat
           /\ \A x \in scopes : x.at \in Nat /\ x.section \in Sections /\ x.open \in BOOLEAN
           /\ \A c \in confirmations : c.at \in Nat /\ c.rv \in Nat /\ c.section \in Sections
           /\ superseded \subseteq Nat
BY MaxClockAssumption
DEF TypeOK, Time, Finals, Decisions, Scopes, Confirmations

-----------------------------------------------------------------------------
(* The books.                                                              *)

\* Before the first request there are no books to keep.
LEMMA BooksInit == Init => BooksInv
<1> SUFFICES ASSUME Init PROVE BooksInv
  OBVIOUS
<1>1. DecisionsNameFinals /\ ReviewStateConsistent /\ Active = {}
  BY DEF Init, DecisionsNameFinals, ReviewStateConsistent, Active
<1>2. SettledDocumentsStay
  BY <1>1 DEF Init, SettledDocumentsStay
<1>3. ActiveVersionWasAccepted
  BY DEF Init, SlotsInit, ActiveVersionWasAccepted
<1> QED
  BY <1>1, <1>2, <1>3 DEF BooksInv

\* The books read the review tables alone.
LEMMA BooksFrame ==
    ASSUME BooksInv, UNCHANGED reviewVars
    PROVE  Active' = Active /\ DecisionsNameFinals' /\ ReviewStateConsistent'
<1>1. Active' = Active
  BY DEF Active, reviewVars
<1> QED
  BY <1>1 DEF BooksInv, DecisionsNameFinals, ReviewStateConsistent, reviewVars

\* An approval decides the active submission.
LEMMA ApprovedIsActive ==
    ASSUME BooksInv, NEW d \in decisions, d.decision = "APPROVED"
    PROVE  \E f \in Active : f.at = d.final
<1>1. PICK f \in finals : f.at = d.final
  BY DEF BooksInv, DecisionsNameFinals
<1>2. f.at \notin superseded
  BY <1>1 DEF BooksInv, ReviewStateConsistent
<1> QED
  BY <1>1, <1>2 DEF Active

\* The document that an upload or a review leaves active was accepted.
LEMMA AcceptedStep ==
    ASSUME TypeOK, ActiveVersionWasAccepted, SlotsNext
    PROVE  ActiveVersionWasAccepted'
<1>1. ASSUME NEW d \in Slots, NEW expected \in 0..MaxClock,
             RegisterApplicantDocumentSubmission(d, expected)
      PROVE  ActiveVersionWasAccepted'
  <2>1. \A e \in Slots : slot'[e].active = slot[e].active
    BY <1>1 DEF RegisterApplicantDocumentSubmission, TypeOK, SlotsTypeOK, SlotRows
  <2>2. submissions \subseteq submissions'
    BY <1>1 DEF RegisterApplicantDocumentSubmission
  <2> QED
    BY <2>1, <2>2 DEF ActiveVersionWasAccepted
<1>2. ASSUME NEW row \in submissions, NEW decision \in {"ACCEPTED", "REJECTED"},
             ReviewApplicantDocumentSubmission(row, decision)
      PROVE  ActiveVersionWasAccepted'
  <2> DEFINE done == [row EXCEPT !.status = decision]
  <2>1. /\ done.slot = row.slot /\ done.version = row.version
        /\ done.status = decision /\ row.slot \in Slots /\ row.status = "PENDING"
    BY <1>2 DEF ReviewApplicantDocumentSubmission, Reviewable, TypeOK, SlotsTypeOK,
       SubmissionRows
  <2>2. submissions' = (submissions \ {row}) \cup {done}
    BY <1>2 DEF ReviewApplicantDocumentSubmission, Reviewed
  <2> HIDE DEF done
  <2>3. \A x \in submissions : x.status = "ACCEPTED" => x \in submissions'
    BY <2>1, <2>2
  <2>4. \A e \in Slots : \/ slot'[e].active = slot[e].active
                         \/ e = row.slot /\ decision = "ACCEPTED"
                              /\ slot'[e].active = row.version
    BY <1>2, <2>1 DEF ReviewApplicantDocumentSubmission, TypeOK, SlotsTypeOK, SlotRows
  <2> QED
    BY <2>1, <2>2, <2>3, <2>4 DEF ActiveVersionWasAccepted
<1> QED
  BY <1>1, <1>2 DEF SlotsNext

\* Every action keeps the books.  Documents move only while they are not
\* settled, and only a submission, an approval or a return writes the tables.
LEMMA BooksStep == ASSUME VersionsInv, BooksInv, [Next]_vars PROVE BooksInv'
<1> TypeOK /\ OnePendingUploadPerSlot /\ RecordedInThePast
  BY DEF VersionsInv
<1> DecisionsNameFinals /\ SettledDocumentsStay /\ ReviewStateConsistent
      /\ ActiveVersionWasAccepted
  BY DEF BooksInv
<1> USE DEF slotVars, sectionVars, reviewVars, requestVars
<1>1. ASSUME UNCHANGED slotVars PROVE ActiveVersionWasAccepted'
  BY <1>1 DEF ActiveVersionWasAccepted
\* A request that does not reach its INSERT changes none of the tables.
<1>2. ASSUME UNCHANGED <<slotVars, reviewVars>>,
             \A q \in Requests : pc'[q] = "inserting" =>
                 pc[q] = "inserting" \/ NoDocumentIssues
      PROVE  BooksInv'
  <2>1. SettledDocumentsStay'
    BY <1>2, BooksFrame, DocumentsFrame DEF SettledDocumentsStay
  <2> QED
    BY <1>1, <1>2, <2>1, BooksFrame DEF BooksInv
<1>3. ASSUME NEW r \in Requests, Finish(r), UNCHANGED <<slotVars, reviewVars>>
      PROVE  BooksInv'
  BY <1>2, <1>3, FinishVersions
<1>4. ASSUME NEW r \in Requests, SubmitCheck(r) PROVE BooksInv'
  <2>1. CASE Finish(r)
    BY <1>3, <1>4, <2>1 DEF SubmitCheck
  <2>2. CASE ~Finish(r)
    BY <1>2, <1>4, <2>2 DEF SubmitCheck, ValidateApplicantFinalDocuments
  <2> QED
    BY <2>1, <2>2
<1>5. ASSUME NEW r \in Requests, SubmitInsert(r) PROVE BooksInv'
  <2> DEFINE new == [at |-> clock', manifest |-> manifest[r], documents |-> documents[r]]
  <2>1. /\ finals' = finals \cup {new} /\ new.at = clock + 1
        /\ UNCHANGED <<superseded, decisions, slotVars>>
    BY <1>5 DEF SubmitInsert
  <2> HIDE DEF new
  <2>2. \A d \in decisions : d.final < clock + 1
    BY ReviewFacts DEF DecisionsNameFinals, RecordedInThePast
  <2>3. \A t \in superseded : t < clock + 1
    BY ReviewFacts DEF DecisionsNameFinals, RecordedInThePast
  <2>4. Active' = {new}
    BY <1>5, <2>1, <2>3, ReviewFacts DEF SubmitInsert, Active
  <2>5. DecisionsNameFinals'
    BY <2>1 DEF DecisionsNameFinals
  <2>6. NoDocumentIssues /\ NoDocumentIssues'
    BY <1>5, DocumentsFrame DEF SubmitInsert, SettledDocumentsStay
  <2>7. SettledDocumentsStay'
    BY <2>6 DEF SettledDocumentsStay
  <2>8. \A x \in scopes' : ~x.open
    BY <1>5 DEF SubmitInsert, ClosedScopes, TypeOK, Scopes
  <2>9. \A f \in finals' : f.at \in superseded' <=>
          \E d \in decisions' : d.final = f.at /\ d.decision = "REJECTED"
    BY <2>1, <2>2, <2>3, ReviewFacts DEF ReviewStateConsistent
  <2>10. \A d \in decisions : d.decision # "APPROVED"
    BY <1>5, ApprovedIsActive DEF SubmitInsert
  <2>11. ReviewStateConsistent'
    BY <1>5, <2>1, <2>4, <2>8, <2>9, <2>10 DEF SubmitInsert, ReviewStateConsistent
  <2> QED
    BY <1>1, <2>1, <2>5, <2>7, <2>11 DEF BooksInv
<1>6. ASSUME NEW f \in finals, Approve(f) PROVE BooksInv'
  <2> DEFINE new == [final |-> f.at, decision |-> "APPROVED", at |-> clock]
  <2>1. /\ decisions' = decisions \cup {new} /\ new.final = f.at
        /\ new.decision = "APPROVED"
        /\ UNCHANGED <<slotVars, finals, superseded, scopes, pc>>
    BY <1>6 DEF Approve
  <2> HIDE DEF new
  <2>2. Active' = Active /\ f \in Active
    BY <1>6, <2>1 DEF Approve, Active
  <2>3. DecisionsNameFinals'
    BY <2>1 DEF DecisionsNameFinals
  <2>4. SettledDocumentsStay'
    BY <2>1, <2>2, DocumentsFrame DEF SettledDocumentsStay
  <2>5. \A g \in finals' : g.at \in superseded' <=>
          \E d \in decisions' : d.final = g.at /\ d.decision = "REJECTED"
    BY <2>1 DEF ReviewStateConsistent
  <2>6. \A d, e \in decisions' : d.final = e.final => d = e
    BY <1>6, <2>1 DEF Approve, Decided, ReviewStateConsistent
  <2>7. ReviewStateConsistent'
    BY <1>6, <2>1, <2>2, <2>5, <2>6 DEF Approve, ReviewStateConsistent
  <2> QED
    BY <1>1, <2>1, <2>3, <2>4, <2>7 DEF BooksInv
<1>7. ASSUME NEW f \in finals, NEW s \in Sections, Return(f, s) PROVE BooksInv'
  <2> DEFINE new == [final |-> f.at, decision |-> "REJECTED", at |-> clock']
  <2>1. /\ decisions' = decisions \cup {new} /\ new.final = f.at
        /\ new.decision = "REJECTED" /\ superseded' = superseded \cup {f.at}
        /\ UNCHANGED <<slotVars, finals, pc>>
    BY <1>7 DEF Return
  <2> HIDE DEF new
  <2>2. Active' = {}
    BY <1>7, <2>1 DEF Return, Active, ReviewStateConsistent
  <2>3. DecisionsNameFinals'
    BY <2>1 DEF DecisionsNameFinals
  <2>4. SettledDocumentsStay'
    BY <2>1, <2>2, DocumentsFrame DEF SettledDocumentsStay
  <2>5. \A g \in finals' : g.at \in superseded' <=>
          \E d \in decisions' : d.final = g.at /\ d.decision = "REJECTED"
    BY <2>1 DEF ReviewStateConsistent
  <2>6. \A d, e \in decisions' : d.final = e.final => d = e
    BY <1>7, <2>1 DEF Return, Decided, ReviewStateConsistent
  <2>7. \A d \in decisions : d.decision # "APPROVED"
    BY <1>7, ApprovedIsActive DEF Return, Decided, ReviewStateConsistent
  <2>8. ReviewStateConsistent'
    BY <1>7, <2>1, <2>2, <2>5, <2>6, <2>7 DEF Return, ReviewStateConsistent
  <2> QED
    BY <1>1, <2>1, <2>3, <2>4, <2>8 DEF BooksInv
<1>8. ASSUME DocumentNext PROVE BooksInv'
  <2>1. ~NoDocumentIssues
    BY <1>8, SettledDocumentsAreFrozen DEF DocumentNext
  <2>2. Active = {} /\ \A q \in Requests : pc[q] # "inserting"
    BY <2>1 DEF SettledDocumentsStay
  <2>3. Active' = {} /\ DecisionsNameFinals' /\ ReviewStateConsistent'
    BY <1>8, <2>2, BooksFrame DEF DocumentNext
  <2>4. SettledDocumentsStay'
    BY <1>8, <2>2, <2>3 DEF DocumentNext, SettledDocumentsStay
  <2>5. ActiveVersionWasAccepted'
    BY <1>8, AcceptedStep DEF DocumentNext
  <2> QED
    BY <2>3, <2>4, <2>5 DEF BooksInv
<1> QED
  <2>1. CASE \E r \in Requests, s \in Sections : Load(r, s) \/ ReadSection(r, s)
    BY <2>1, <1>2 DEF Load, ReadSection, TypeOK
  <2>2. CASE \E r \in Requests : ConfirmCheck(r)
    BY <2>2, <1>2, <1>3 DEF ConfirmCheck, TypeOK
  <2>3. CASE \E r \in Requests : ConfirmInsert(r) \/ Abandon(r)
    BY <2>3, <1>3 DEF ConfirmInsert, Abandon
  <2>4. CASE \E r \in Requests, content \in Contents : Save(r, content)
    BY <2>4, <1>3 DEF Save
  <2>5. CASE \E r \in Requests : ReadDocuments(r)
    BY <2>5, <1>2 DEF ReadDocuments, TypeOK
  <2>6. CASE UNCHANGED vars
    BY <2>6, <1>2 DEF vars
  <2> QED
    BY <1>4, <1>5, <1>6, <1>7, <1>8, <2>1, <2>2, <2>3, <2>4, <2>5, <2>6
    DEF Next, RequestNext, ReviewNext

\* The books are kept whatever the requests of however many sessions do.
THEOREM BooksHold == Spec => []BooksInv
<1>1. VersionsInv /\ BooksInv /\ [Next]_vars => VersionsInv' /\ BooksInv'
  BY VersionsStep, BooksStep
<1> QED
  BY <1>1, VersionsInit, BooksInit, PTL DEF Spec

\* One active submission at most, nothing open for correction beside it, and
\* the decisions, the superseded submissions and the status agree.
THEOREM BooksAreConsistent == Spec => []ReviewStateConsistent
<1>1. BooksInv => ReviewStateConsistent
  BY DEF BooksInv
<1> QED
  BY <1>1, BooksHold, PTL

\* The document a slot shows as current was imported or passed a review.
THEOREM ActiveWasAccepted == Spec => []ActiveVersionWasAccepted
<1>1. BooksInv => ActiveVersionWasAccepted
  BY DEF BooksInv
<1> QED
  BY <1>1, BooksHold, PTL

\* Once approved, an application does not change: the lock refuses saves, the
\* active submission another one, its decision further ones, and its settled
\* documents take neither an upload nor a review.
THEOREM ApprovedStays == Spec => ApprovalIsFinal
<1> DEFINE Kept == status = "CONFIRMED" => UNCHANGED <<draft, slotVars, reviewVars>>
<1>1. VersionsInv /\ BooksInv /\ [Next]_vars => [Kept]_vars
  <2> SUFFICES ASSUME VersionsInv, BooksInv, Next, status = "CONFIRMED"
               PROVE  UNCHANGED <<draft, slotVars, reviewVars>>
    OBVIOUS
  <2> TypeOK /\ OnePendingUploadPerSlot
    BY DEF VersionsInv
  <2> USE DEF slotVars, sectionVars, reviewVars, requestVars
  <2>1. PICK d \in decisions : d.decision = "APPROVED"
    BY DEF BooksInv, ReviewStateConsistent
  <2>2. PICK g \in Active : g.at = d.final
    BY <2>1, ApprovedIsActive
  <2>3. \A f \in Active : Decided(f)
    BY <2>2 DEF BooksInv, ReviewStateConsistent, Decided
  <2>4. NoDocumentIssues
    BY <2>2 DEF BooksInv, SettledDocumentsStay
  <2>5. CASE \E r \in Requests : RequestNext(r)
    <3>1. PICK r \in Requests : RequestNext(r)
      BY <2>5
    <3>2. \A content \in Contents : ~Save(r, content)
      BY DEF Save, Editable
    <3>3. ~SubmitInsert(r)
      BY <2>2 DEF SubmitInsert
    <3> QED
      BY <3>1, <3>2, <3>3 DEF RequestNext, Load, ConfirmCheck, ConfirmInsert,
         ReadSection, ReadDocuments, SubmitCheck, Abandon
  <2>6. ~ReviewNext
    BY <2>3 DEF ReviewNext, Approve, Return
  <2>7. ~DocumentNext
    BY <2>4, SettledDocumentsAreFrozen DEF DocumentNext
  <2> QED
    BY <2>5, <2>6, <2>7 DEF Next
<1>2. VersionsInv /\ BooksInv /\ [Next]_vars => VersionsInv' /\ BooksInv'
  BY VersionsStep, BooksStep
<1> QED
  BY <1>1, <1>2, VersionsInit, BooksInit, PTL DEF Spec, ApprovalIsFinal

-----------------------------------------------------------------------------
(* Returns and resubmissions.                                              *)

\* Nothing was submitted or returned before the first request.
LEMMA ReturnInit == Init => ReturnInv
<1> SUFFICES ASSUME Init PROVE ReturnInv
  OBVIOUS
<1>1. SubmittedWasConfirmed
  BY DEF Init, SubmittedWasConfirmed
<1>2. FinalsInOrder /\ ScopesInOrder
  BY DEF Init, FinalsInOrder, ScopesInOrder, Active
<1>3. ReturnedContentIsFresh
  BY DEF Init, ReturnedContentIsFresh
<1> QED
  BY <1>1, <1>2, <1>3 DEF ReturnInv

\* A request may have been checked just now, or goes on as it was checked.
ConfirmationIsChecked(q) ==
    /\ item[q].content \in Complete
    /\ \A x \in scopes : item[q].section = x.section /\ item[q].rv > x.at
          => Fresh(x, item[q].content)

SubmissionIsChecked(q) ==
    /\ \A s \in Sections : \E c \in confirmations : Backs(c, s, manifest[q][s])
    /\ \A x \in scopes : ~x.open => manifest[q][x.section].rv > x.at

RequestGoesOn(q) ==
    /\ pc'[q] = "confirming" =>
          (pc[q] = "confirming" \/ ConfirmationIsChecked(q)) /\ item'[q] = item[q]
    /\ pc'[q] = "inserting" =>
          (pc[q] = "inserting" \/ SubmissionIsChecked(q)) /\ manifest'[q] = manifest[q]

\* A step that leaves the sections and the review tables alone and only moves
\* requests past their checks keeps everything known of returns.
LEMMA ReturnFrame ==
    ASSUME TypeOK, TypeOK', ReturnInv, clock <= clock',
           UNCHANGED <<confirmations, reviewVars>>,
           \A s \in Sections : draft'[s].rv >= draft[s].rv,
           \A q \in Requests : RequestGoesOn(q)
    PROVE  ReturnInv'
<1> SubmittedWasConfirmed /\ FinalsInOrder /\ ScopesInOrder /\ ReturnedContentIsFresh
  BY DEF ReturnInv
<1> USE DEF reviewVars
<1>1. Active' = Active /\ (\A f : Latest(f)' <=> Latest(f))
  BY DEF Active, Latest
<1>2. \A x, content : Fresh(x, content)' <=> Fresh(x, content)
  BY DEF Fresh
<1>3. clock \in Nat /\ clock' \in Nat
  BY ClockFacts, MaxClockAssumption DEF TypeOK, Time
<1>4. SubmittedWasConfirmed'
  <2>1. \A c \in confirmations' : c.content \in Complete /\ c.at <= clock'
    BY <1>3, ReviewFacts DEF SubmittedWasConfirmed
  <2>2. \A c, e \in confirmations' : Backs(c, e.section, e) => c = e
    BY DEF SubmittedWasConfirmed
  <2>3. \A q \in Requests : pc'[q] = "confirming" => item'[q].content \in Complete
    BY DEF SubmittedWasConfirmed, RequestGoesOn, ConfirmationIsChecked
  <2>4. \A q \in Requests, s \in Sections : pc'[q] = "inserting" =>
          \E c \in confirmations' : Backs(c, s, manifest'[q][s])
    BY DEF SubmittedWasConfirmed, RequestGoesOn, SubmissionIsChecked
  <2> QED
    BY <2>1, <2>2, <2>3, <2>4 DEF SubmittedWasConfirmed, Backs
<1>5. FinalsInOrder'
  BY <1>1 DEF FinalsInOrder
<1>6. ScopesInOrder'
  BY <1>3, ReviewFacts DEF ScopesInOrder
<1>7. ReturnedContentIsFresh'
  <2>1. \A x \in scopes', q \in Requests :
          (pc'[q] = "confirming" /\ item'[q].section = x.section /\ item'[q].rv > x.at)
              => Fresh(x, item'[q].content)
    BY DEF ReturnedContentIsFresh, RequestGoesOn, ConfirmationIsChecked
  <2>2. \A x \in scopes' : ~x.open => draft'[x.section].rv > x.at
    <3>1. ASSUME NEW x \in scopes, ~x.open PROVE draft'[x.section].rv > x.at
      <4>1. x.section \in Sections /\ x.at \in Nat
        BY ReviewFacts
      <4>2. draft[x.section].rv \in Nat /\ draft'[x.section].rv \in Nat
        BY <4>1, MaxClockAssumption DEF TypeOK, Rows, Time
      <4>3. draft[x.section].rv > x.at
        BY <3>1 DEF ReturnedContentIsFresh
      <4> QED
        BY <4>1, <4>2, <4>3
    <3> QED
      BY <3>1
  <2>3. ASSUME NEW q \in Requests, pc'[q] = "inserting"
        PROVE  \/ Active # {}
               \/ Doomed(q)'
               \/ \A x \in scopes : ~x.open => manifest'[q][x.section].rv > x.at
    <3>1. manifest'[q] = manifest[q] /\ (pc[q] = "inserting" \/ SubmissionIsChecked(q))
      BY <2>3 DEF RequestGoesOn
    <3>2. Doomed(q)' <=> Doomed(q)
      BY <3>1 DEF Doomed, Backs
    <3> QED
      BY <3>1, <3>2 DEF ReturnedContentIsFresh, SubmissionIsChecked
  <2> QED
    BY <1>1, <1>2, <2>1, <2>2, <2>3 DEF ReturnedContentIsFresh
<1> QED
  BY <1>4, <1>5, <1>6, <1>7 DEF ReturnInv

\* A request that ends goes nowhere.
LEMMA FinishGoesOn ==
    ASSUME TypeOK, NEW r \in Requests, Finish(r)
    PROVE  \A q \in Requests : RequestGoesOn(q)
BY DEF TypeOK, Finish, RequestGoesOn

\* ConfirmApplicantSection lets only content through that was not confirmed
\* before a return: an earlier confirmation of it is either still valid, and
\* then nothing is inserted, or refused with 52144.
LEMMA ConfirmCheckGoesOn ==
    ASSUME TypeOK, ReturnInv, NEW r \in Requests, ConfirmCheck(r)
    PROVE  \A q \in Requests : RequestGoesOn(q)
<1>1. CASE AlreadyConfirmed(item[r])
  BY <1>1, FinishGoesOn DEF ConfirmCheck
<1>2. CASE ~AlreadyConfirmed(item[r])
  <2>1. ASSUME NEW x \in scopes, item[r].section = x.section, item[r].rv > x.at,
               NEW c \in confirmations, c.section = x.section, c.at <= x.at,
               c.content = item[r].content
        PROVE  FALSE
    <3>1. ~Valid(c)
      BY <1>2, <2>1 DEF AlreadyConfirmed
    <3>2. PICK y \in OpenScopes(c.section) : ~(c.at > y.at)
      BY <3>1 DEF Valid
    <3>3. c.at <= y.at
      BY <3>2, ReviewFacts DEF OpenScopes
    <3> QED
      BY <1>2, <2>1, <3>2, <3>3, <1>2 DEF ConfirmCheck, Confirmable
  <2>2. ConfirmationIsChecked(r)
    BY <2>1 DEF ConfirmCheck, Confirmable, ConfirmationIsChecked, Fresh
  <2> QED
    BY <1>2, <2>2 DEF ConfirmCheck, RequestGoesOn, TypeOK
<1> QED
  BY <1>1, <1>2

\* SubmitApplicantFinalConfirmation compares the manifest with the drafts,
\* which are newer than every scope that was closed.
LEMMA SubmitCheckGoesOn ==
    ASSUME TypeOK, VersionNamesContent, ReturnInv, NEW r \in Requests, SubmitCheck(r)
    PROVE  \A q \in Requests : RequestGoesOn(q)
<1>1. CASE Finish(r)
  BY <1>1, FinishGoesOn
<1>2. CASE ~Finish(r)
  <2>1. /\ SectionsMatch(manifest[r])
        /\ pc' = [pc EXCEPT ![r] = "inserting"]
        /\ UNCHANGED <<item, manifest>>
    BY <1>2 DEF SubmitCheck
  <2>2. SubmissionIsChecked(r)
    BY <2>1, ReviewFacts
    DEF SectionsMatch, SubmissionIsChecked, Backs, ReturnInv, ReturnedContentIsFresh
  <2> QED
    BY <2>1, <2>2 DEF RequestGoesOn, TypeOK
<1> QED
  BY <1>1, <1>2

\* A confirmation that was checked is recorded later than every return.
LEMMA ReturnConfirmInsert ==
    ASSUME TypeOK, TypeOK', ReturnInv, RecordedInThePast, NEW r \in Requests, ConfirmInsert(r)
    PROVE  ReturnInv'
<1> SubmittedWasConfirmed /\ FinalsInOrder /\ ScopesInOrder /\ ReturnedContentIsFresh
  BY DEF ReturnInv
<1> USE DEF reviewVars
<1> DEFINE new == [section |-> item[r].section, content |-> item[r].content,
                   rv |-> item[r].rv, at |-> clock']
<1>1. /\ confirmations' = confirmations \cup {new}
      /\ new.section = item[r].section /\ new.content = item[r].content
      /\ new.rv = item[r].rv /\ new.at = clock + 1
      /\ clock' = clock + 1
      /\ UNCHANGED <<draft, finals, superseded, decisions, scopes, status, promoted>>
  BY DEF ConfirmInsert
<1> HIDE DEF new
<1>2. /\ pc[r] = "confirming"
      /\ \A q \in Requests : pc'[q] \in {"confirming", "inserting"} =>
            pc'[q] = pc[q] /\ item'[q] = item[q] /\ manifest'[q] = manifest[q]
      /\ \A c \in confirmations : ~Backs(c, new.section, new)
  BY <1>1 DEF ConfirmInsert, ConfirmationIsNew, Finish, TypeOK, Backs
<1>3. Active' = Active /\ (\A f : Latest(f)' <=> Latest(f))
  BY <1>1 DEF Active, Latest
<1>4. \A x \in scopes : \A content : Fresh(x, content)' <=> Fresh(x, content)
  BY <1>1, ReviewFacts DEF Fresh, ScopesInOrder
<1>5. SubmittedWasConfirmed'
  <2>1. \A c \in confirmations' : c.content \in Complete /\ c.at <= clock'
    BY <1>1, <1>2, ReviewFacts DEF SubmittedWasConfirmed
  <2>2. \A c, e \in confirmations' : Backs(c, e.section, e) => c = e
    BY <1>1, <1>2 DEF SubmittedWasConfirmed, Backs
  <2>3. \A q \in Requests : pc'[q] = "confirming" => item'[q].content \in Complete
    BY <1>2 DEF SubmittedWasConfirmed
  <2>4. \A q \in Requests, s \in Sections : pc'[q] = "inserting" =>
          \E c \in confirmations' : Backs(c, s, manifest'[q][s])
    BY <1>1, <1>2 DEF SubmittedWasConfirmed
  <2>5. \A f \in finals', s \in Sections :
          \E c \in confirmations' :
              c.section = s /\ c.content = f.manifest[s].content /\ c.at <= f.at
    BY <1>1 DEF SubmittedWasConfirmed
  <2> QED
    BY <2>1, <2>2, <2>3, <2>4, <2>5 DEF SubmittedWasConfirmed, Backs
<1>6. FinalsInOrder'
  BY <1>1, <1>3 DEF FinalsInOrder
<1>7. ScopesInOrder'
  BY <1>1, ReviewFacts DEF ScopesInOrder
<1>8. ReturnedContentIsFresh'
  <2>1. \A x \in scopes', g \in finals' :
          g.at > x.at => Fresh(x, g.manifest[x.section].content)'
    BY <1>1, <1>4 DEF ReturnedContentIsFresh
  <2>2. \A x \in scopes', c \in confirmations' :
          c.section = x.section /\ c.rv > x.at => Fresh(x, c.content)'
    BY <1>1, <1>2, <1>4 DEF ReturnedContentIsFresh
  <2>3. \A x \in scopes', q \in Requests :
          (pc'[q] = "confirming" /\ item'[q].section = x.section /\ item'[q].rv > x.at)
              => Fresh(x, item[q].content)'
    BY <1>1, <1>2, <1>4 DEF ReturnedContentIsFresh
  <2>4. \A x \in scopes' : ~x.open => draft'[x.section].rv > x.at
    BY <1>1 DEF ReturnedContentIsFresh
  <2>5. ASSUME NEW q \in Requests, pc'[q] = "inserting", Doomed(q) PROVE Doomed(q)'
    <3>1. pc[q] = "inserting" /\ manifest'[q] = manifest[q]
      BY <1>2, <2>5
    <3>2. PICK x \in scopes : x.open /\ \A c \in confirmations :
              Backs(c, x.section, manifest[q][x.section]) => c.at <= x.at
      BY <2>5 DEF Doomed
    <3>3. PICK c \in confirmations : Backs(c, x.section, manifest[q][x.section])
      BY <3>1, ReviewFacts DEF SubmittedWasConfirmed
    <3>4. ~Backs(new, x.section, manifest[q][x.section])
      BY <1>2, <3>3 DEF Backs
    <3> QED
      BY <1>1, <3>1, <3>2, <3>4 DEF Doomed, Backs
  <2>6. \A q \in Requests : pc'[q] = "inserting" =>
          \/ Active' # {}
          \/ Doomed(q)'
          \/ \A x \in scopes' : ~x.open => manifest'[q][x.section].rv > x.at
    BY <1>1, <1>2, <1>3, <2>5 DEF ReturnedContentIsFresh
  <2> QED
    BY <1>2, <2>1, <2>2, <2>3, <2>4, <2>6 DEF ReturnedContentIsFresh, Fresh
<1> QED
  BY <1>5, <1>6, <1>7, <1>8 DEF ReturnInv

\* A submission that passes the trigger has fresh content for every section
\* that was ever returned: of the open scope by the trigger's own checks, of
\* the closed ones because its manifest was compared with newer drafts.
LEMMA InsertedIsFresh ==
    ASSUME TypeOK, ReturnInv, NEW r \in Requests, SubmitInsert(r), NEW x \in scopes
    PROVE  Fresh(x, manifest[r][x.section].content)
<1> SubmittedWasConfirmed /\ ReturnedContentIsFresh
  BY DEF ReturnInv
<1>1. x.section \in Sections /\ x.at \in Nat
  BY ReviewFacts
<1>2. CASE x.open
  BY <1>2 DEF SubmitInsert, ReopenValidation, Fresh
<1>3. CASE ~x.open
  <2>1. ~Doomed(r)
    BY ReviewFacts DEF SubmitInsert, ReopenValidation, Doomed, Backs
  <2>2. manifest[r][x.section].rv > x.at
    BY <1>3, <2>1 DEF SubmitInsert, ReturnedContentIsFresh
  <2>3. PICK c \in confirmations : Backs(c, x.section, manifest[r][x.section])
    BY <1>1 DEF SubmitInsert, SubmittedWasConfirmed
  <2> QED
    BY <2>2, <2>3 DEF ReturnedContentIsFresh, Backs
<1> QED
  BY <1>2, <1>3

\* The INSERT of a submission closes the scopes and becomes the latest.
LEMMA ReturnSubmitInsert ==
    ASSUME TypeOK, TypeOK', ReturnInv, BooksInv, RecordedInThePast,
           NEW r \in Requests, SubmitInsert(r)
    PROVE  ReturnInv'
<1> SubmittedWasConfirmed /\ FinalsInOrder /\ ScopesInOrder /\ ReturnedContentIsFresh
  BY DEF ReturnInv
<1> DEFINE new == [at |-> clock', manifest |-> manifest[r], documents |-> documents[r]]
<1>1. /\ finals' = finals \cup {new}
      /\ new.at = clock + 1 /\ new.manifest = manifest[r]
      /\ clock' = clock + 1 /\ pc[r] = "inserting"
      /\ UNCHANGED <<draft, confirmations, superseded, decisions>>
  BY DEF SubmitInsert, sectionVars
<1> HIDE DEF new
<1>2. \A q \in Requests : pc'[q] \in {"confirming", "inserting"} =>
          pc'[q] = pc[q] /\ item'[q] = item[q] /\ manifest'[q] = manifest[q]
  BY DEF SubmitInsert, Finish, TypeOK
<1>3. \A x \in scopes' : ~x.open /\ \E y \in scopes : x.at = y.at /\ x.section = y.section
  BY DEF SubmitInsert, ClosedScopes, TypeOK, Scopes
<1>4. \A x, content : Fresh(x, content)' <=> Fresh(x, content)
  BY <1>1 DEF Fresh
<1>5. \A x \in scopes', y \in scopes : \A content : x.at = y.at /\ x.section = y.section =>
          (Fresh(x, content) <=> Fresh(y, content))
  BY DEF Fresh
<1>6. \A f \in finals : f.at < new.at
  BY <1>1, ReviewFacts DEF RecordedInThePast
<1>7. SubmittedWasConfirmed'
  <2>1. \A c \in confirmations' : c.content \in Complete /\ c.at <= clock'
    BY <1>1, ReviewFacts DEF SubmittedWasConfirmed
  <2>2. \A s \in Sections : \E c \in confirmations :
              c.section = s /\ c.content = new.manifest[s].content /\ c.at <= new.at
    BY <1>1, ReviewFacts DEF SubmittedWasConfirmed, Backs
  <2>3. \A f \in finals', s \in Sections : \E c \in confirmations' :
              c.section = s /\ c.content = f.manifest[s].content /\ c.at <= f.at
    BY <1>1, <2>2 DEF SubmittedWasConfirmed
  <2>4. \A q \in Requests, s \in Sections : pc'[q] = "inserting" =>
          \E c \in confirmations' : Backs(c, s, manifest'[q][s])
    BY <1>1, <1>2 DEF SubmittedWasConfirmed
  <2>5. \A q \in Requests : pc'[q] = "confirming" => item'[q].content \in Complete
    BY <1>2 DEF SubmittedWasConfirmed
  <2>6. \A c, e \in confirmations' : Backs(c, e.section, e) => c = e
    BY <1>1 DEF SubmittedWasConfirmed
  <2> QED
    BY <2>1, <2>3, <2>4, <2>5, <2>6 DEF SubmittedWasConfirmed, Backs
<1>8. FinalsInOrder'
  <2>1. new \in finals' /\ \A g \in finals' : g.at <= new.at
    BY <1>1, <1>6, ReviewFacts
  <2>2. \A f \in Active' : f = new
    BY <1>1 DEF SubmitInsert, Active
  <2>3. \A f, g \in finals' : f.at = g.at => f = g
    BY <1>1, <1>6, ReviewFacts DEF FinalsInOrder
  <2> QED
    BY <1>1, <2>1, <2>2, <2>3 DEF FinalsInOrder, Latest
<1>9. ScopesInOrder'
  BY <1>1, <1>3, ReviewFacts DEF ScopesInOrder
<1>10. ReturnedContentIsFresh'
  <2>1. \A x \in scopes', g \in finals' :
          g.at > x.at => Fresh(x, g.manifest[x.section].content)
    BY <1>1, <1>3, <1>5, InsertedIsFresh DEF ReturnedContentIsFresh
  <2>2. \A x \in scopes', c \in confirmations :
          c.section = x.section /\ c.rv > x.at => Fresh(x, c.content)
    BY <1>3, <1>5 DEF ReturnedContentIsFresh
  <2>3. \A x \in scopes', q \in Requests :
          (pc'[q] = "confirming" /\ item'[q].section = x.section /\ item'[q].rv > x.at)
              => Fresh(x, item[q].content)
    BY <1>2, <1>3, <1>5 DEF ReturnedContentIsFresh
  <2>4. \A x \in scopes' : draft[x.section].rv > x.at
    BY <1>3 DEF SubmitInsert, ReopenValidation, ReturnedContentIsFresh
  <2>5. new \in Active'
    <3>1. \A t \in superseded : t < new.at
      BY <1>1, <1>6 DEF BooksInv, DecisionsNameFinals
    <3> QED
      BY <1>1, <3>1, ReviewFacts DEF Active
  <2> QED
    BY <1>1, <1>2, <1>4, <2>1, <2>2, <2>3, <2>4, <2>5 DEF ReturnedContentIsFresh
<1> QED
  BY <1>7, <1>8, <1>9, <1>10 DEF ReturnInv

\* A return is later than everything confirmed, saved and submitted, so that
\* whatever was checked before it is doomed.
LEMMA ReturnReturn ==
    ASSUME TypeOK, TypeOK', ReturnInv, BooksInv, RecordedInThePast,
           NEW f \in finals, NEW s \in Sections, Return(f, s)
    PROVE  ReturnInv'
<1> SubmittedWasConfirmed /\ FinalsInOrder /\ ScopesInOrder /\ ReturnedContentIsFresh
  BY DEF ReturnInv
<1> USE DEF sectionVars, requestVars
<1> DEFINE new == [section |-> s, at |-> clock', open |-> TRUE]
           verdict == [final |-> f.at, decision |-> "REJECTED", at |-> clock']
<1>1. /\ scopes' = scopes \cup {new}
      /\ new.section = s /\ new.at = clock + 1 /\ new.open
      /\ decisions' = decisions \cup {verdict}
      /\ verdict.final = f.at /\ verdict.at = clock + 1
      /\ superseded' = superseded \cup {f.at} /\ f \in Active
      /\ clock' = clock + 1
      /\ UNCHANGED <<draft, confirmations, finals, pc, item, manifest>>
  BY DEF Return
<1> HIDE DEF new, verdict
<1>2. \A x \in scopes : ~x.open
  BY <1>1 DEF BooksInv, ReviewStateConsistent
<1>3. Active' = {}
  BY <1>1 DEF Active, BooksInv, ReviewStateConsistent
<1>4. \A x, content : Fresh(x, content)' <=> Fresh(x, content)
  BY <1>1 DEF Fresh
<1>5. SubmittedWasConfirmed'
  <2>1. \A c \in confirmations' : c.content \in Complete /\ c.at <= clock'
    BY <1>1, ReviewFacts DEF SubmittedWasConfirmed
  <2> QED
    BY <1>1, <2>1 DEF SubmittedWasConfirmed, Backs
<1>6. FinalsInOrder'
  <2>1. \A g : Latest(g)' <=> Latest(g)
    BY <1>1 DEF Latest
  <2>2. f.at <= clock + 1
    BY ReviewFacts DEF RecordedInThePast
  <2> QED
    BY <1>1, <1>3, <2>1, <2>2 DEF FinalsInOrder
<1>7. ScopesInOrder'
  <2>1. \A x \in scopes' : x.at <= clock'
    BY <1>1, ReviewFacts DEF ScopesInOrder
  <2>2. \A x \in scopes' : x.open => x = new
    BY <1>1, <1>2
  <2>3. \A g \in finals : g.at <= new.at
    BY <1>1, ReviewFacts DEF RecordedInThePast
  <2> QED
    BY <1>1, <2>1, <2>2, <2>3 DEF ScopesInOrder
<1>8. ReturnedContentIsFresh'
  <2>1. \A g \in finals : ~(g.at > new.at)
    BY <1>1, ReviewFacts DEF RecordedInThePast
  <2>2. \A c \in confirmations : ~(c.rv > new.at) /\ c.at <= new.at
    BY <1>1, ReviewFacts DEF RecordedInThePast, SubmittedWasConfirmed
  <2>3. \A q \in Requests : ~(item[q].rv > new.at)
    BY <1>1, ClockFacts DEF RecordedInThePast
  <2>4. \A q \in Requests : Doomed(q)'
    BY <1>1, <2>2 DEF Doomed
  <2> QED
    BY <1>1, <1>4, <2>1, <2>2, <2>3, <2>4 DEF ReturnedContentIsFresh
<1> QED
  BY <1>5, <1>6, <1>7, <1>8 DEF ReturnInv

\* An approval decides a submission that was made before.
LEMMA ReturnApprove ==
    ASSUME TypeOK, ReturnInv, RecordedInThePast, NEW f \in finals, Approve(f)
    PROVE  ReturnInv'
<1> USE DEF sectionVars, requestVars
<1> DEFINE verdict == [final |-> f.at, decision |-> "APPROVED", at |-> clock]
<1>1. /\ decisions' = decisions \cup {verdict}
      /\ verdict.final = f.at /\ verdict.at = clock
      /\ UNCHANGED <<clock, draft, confirmations, finals, superseded, scopes, pc, item,
                     manifest>>
  BY DEF Approve
<1> HIDE DEF verdict
<1>2. Active' = Active /\ (\A g : Latest(g)' <=> Latest(g))
  BY <1>1 DEF Active, Latest
<1>3. FinalsInOrder'
  BY <1>1, <1>2 DEF ReturnInv, FinalsInOrder, RecordedInThePast
<1>4. SubmittedWasConfirmed' /\ ScopesInOrder'
  BY <1>1 DEF ReturnInv, SubmittedWasConfirmed, ScopesInOrder, Backs
<1>5. ReturnedContentIsFresh'
  BY <1>1, <1>2 DEF ReturnInv, ReturnedContentIsFresh, Fresh, Doomed, Backs
<1> QED
  BY <1>3, <1>4, <1>5 DEF ReturnInv

\* Every action keeps what is known of returns.
LEMMA ReturnStep ==
    ASSUME VersionsInv, BooksInv, ReturnInv, [Next]_vars PROVE ReturnInv'
<1> TypeOK /\ RecordedInThePast /\ VersionNamesContent
  BY DEF VersionsInv
<1> TypeOK'
  BY TypeStep
<1> clock \in Nat /\ \A s \in Sections : draft[s].rv \in Nat
  BY ClockFacts
<1> USE DEF slotVars, sectionVars, reviewVars, requestVars
<1>1. ASSUME NEW r \in Requests, Finish(r), UNCHANGED <<clock, confirmations, draft, reviewVars>>
      PROVE  ReturnInv'
  BY <1>1, FinishGoesOn, ReturnFrame
<1>2. ASSUME NEW r \in Requests, NEW content \in Contents, Save(r, content)
      PROVE  ReturnInv'
  <2>1. clock' = clock + 1 /\ item[r].section \in Sections
    BY <1>2, ClockFacts DEF Save
  <2>2. \A s \in Sections : draft'[s].rv >= draft[s].rv
    BY <1>2, <2>1 DEF Save, TypeOK, RecordedInThePast
  <2> QED
    BY <1>2, <2>1, <2>2, FinishGoesOn, ReturnFrame DEF Save
<1>3. ASSUME NEW r \in Requests,
             ConfirmCheck(r) \/ SubmitCheck(r) \/ Abandon(r) \/ ReadDocuments(r)
      PROVE  ReturnInv'
  <2>1. \A q \in Requests : RequestGoesOn(q)
    BY <1>3, FinishGoesOn, ConfirmCheckGoesOn, SubmitCheckGoesOn
    DEF Abandon, ReadDocuments, RequestGoesOn, TypeOK
  <2> QED
    BY <1>3, <2>1, ReturnFrame DEF ConfirmCheck, SubmitCheck, Abandon, ReadDocuments
<1>4. ASSUME NEW r \in Requests, NEW s \in Sections, Load(r, s) \/ ReadSection(r, s)
      PROVE  ReturnInv'
  <2>1. \A q \in Requests : RequestGoesOn(q)
    BY <1>4 DEF Load, ReadSection, RequestGoesOn, TypeOK
  <2> QED
    BY <1>4, <2>1, ReturnFrame DEF Load, ReadSection
<1>5. CASE DocumentNext \/ UNCHANGED vars
  <2>1. \A q \in Requests : RequestGoesOn(q)
    BY <1>5 DEF DocumentNext, RequestGoesOn, vars
  <2>2. clock' = clock \/ clock' = clock + 1
    BY <1>5 DEF DocumentNext, SlotsNext, RegisterApplicantDocumentSubmission,
       ReviewApplicantDocumentSubmission, vars
  <2> QED
    BY <1>5, <2>1, <2>2, ReturnFrame DEF DocumentNext, vars
<1> QED
  BY <1>2, <1>3, <1>4, <1>5, ReturnConfirmInsert, ReturnSubmitInsert, ReturnReturn,
     ReturnApprove
  DEF Next, RequestNext, ReviewNext

\* The inductive invariant of the review cycle, for any number of sessions.
THEOREM RecordsHold == Spec => []RecordsInv
<1>1. Init => RecordsInv
  BY VersionsInit, BooksInit, ReturnInit DEF RecordsInv
<1>2. RecordsInv /\ [Next]_vars => RecordsInv'
  BY VersionsStep, BooksStep, ReturnStep DEF RecordsInv
<1> QED
  BY <1>1, <1>2, PTL DEF Spec

\* A section returned for correction is never submitted again with the
\* content it was returned for, in any later round and whatever requests
\* were in flight when the reviewer returned it.
THEOREM ReturnedIsChanged == Spec => []ReturnedSectionWasChanged
<1>1. RecordsInv => ReturnedSectionWasChanged
  <2> SUFFICES ASSUME RecordsInv,
                      NEW d \in decisions, NEW x \in scopes, NEW f \in finals, NEW g \in finals,
                      x.at = d.at, f.at = d.final, g.at > d.at,
                      g.manifest[x.section].content = f.manifest[x.section].content
               PROVE  FALSE
    BY DEF ReturnedSectionWasChanged
  <2> TypeOK /\ SubmittedWasConfirmed /\ FinalsInOrder /\ ReturnedContentIsFresh
    BY DEF RecordsInv, VersionsInv, ReturnInv
  <2>1. PICK c \in confirmations : /\ c.section = x.section
                                   /\ c.content = f.manifest[x.section].content
                                   /\ c.at <= f.at
    BY ReviewFacts DEF SubmittedWasConfirmed
  <2>2. c.at <= x.at
    BY <2>1, ReviewFacts DEF FinalsInOrder
  <2>3. Fresh(x, g.manifest[x.section].content)
    BY DEF ReturnedContentIsFresh
  <2> QED
    BY <2>1, <2>2, <2>3 DEF Fresh
<1> QED
  BY <1>1, RecordsHold, PTL

-----------------------------------------------------------------------------
(* The refinement, with one session.                                       *)

\* With one session a section that is not open for correction keeps the
\* content submitted last.
LEMMA KeptStep ==
    ASSUME RecordsInv, LockInv, UnreturnedSectionIsKept, [Next]_vars
    PROVE  UnreturnedSectionIsKept'
<1> TypeOK /\ RecordedInThePast
  BY DEF RecordsInv, VersionsInv
<1> USE DEF slotVars, sectionVars, reviewVars, requestVars
<1>1. ASSUME UNCHANGED <<draft, finals, scopes>> PROVE UnreturnedSectionIsKept'
  BY <1>1 DEF UnreturnedSectionIsKept, Latest, OpenScopes
<1>2. ASSUME NEW r \in Requests, NEW content \in Contents, Save(r, content)
      PROVE  UnreturnedSectionIsKept'
  <2>1. \A s \in Sections : draft'[s] = draft[s] \/ s = item[r].section
    BY <1>2 DEF Save, TypeOK
  <2>2. finals' = finals /\ scopes' = scopes
          /\ (finals # {} => OpenScopes(item[r].section) # {})
    BY <1>2 DEF Save, Editable
  <2> QED
    BY <2>1, <2>2 DEF UnreturnedSectionIsKept, Latest, OpenScopes
<1>3. ASSUME NEW r \in Requests, SubmitInsert(r) PROVE UnreturnedSectionIsKept'
  <2> DEFINE new == [at |-> clock', manifest |-> manifest[r], documents |-> documents[r]]
  <2>1. /\ finals' = finals \cup {new} /\ new.at = clock + 1
        /\ new.manifest = draft /\ draft' = draft
    BY <1>3 DEF SubmitInsert, LockInv, CheckedManifestHolds
  <2> HIDE DEF new
  <2>2. \A f \in finals' : (\A g \in finals' : g.at <= f.at) => f = new
    BY <2>1, ReviewFacts DEF RecordedInThePast
  <2> QED
    BY <2>1, <2>2 DEF UnreturnedSectionIsKept, Latest
<1>4. ASSUME NEW f \in finals, NEW s \in Sections, Return(f, s)
      PROVE  UnreturnedSectionIsKept'
  <2>1. UNCHANGED <<draft, finals>> /\ scopes \subseteq scopes'
    BY <1>4 DEF Return
  <2> QED
    BY <2>1 DEF UnreturnedSectionIsKept, Latest, OpenScopes
<1> QED
  BY <1>1, <1>2, <1>3, <1>4
  DEF Next, RequestNext, ReviewNext, DocumentNext, Load, ConfirmCheck, ConfirmInsert,
      ReadSection, ReadDocuments, SubmitCheck, Abandon, Approve, vars

\* With one session, the invariant behind the refinement.
THEOREM LifecycleHolds == ASSUME SharedSession PROVE Spec => []LifecycleInv
<1>1. Init => LifecycleInv
  <2>1. Init => UnreturnedSectionIsKept
    BY DEF Init, UnreturnedSectionIsKept
  <2> QED
    BY <2>1, VersionsInit, BooksInit, ReturnInit, LockInit DEF LifecycleInv, RecordsInv
<1>2. LifecycleInv /\ [Next]_vars => LifecycleInv'
  BY SharedSession, VersionsStep, BooksStep, ReturnStep, LockStep, KeptStep
  DEF LifecycleInv, RecordsInv
<1> QED
  BY <1>1, <1>2, PTL DEF Spec

\* The row with the latest time is well defined.
LEMMA LastIsUnique ==
    ASSUME NEW S, NEW f \in S,
           \A g \in S : g.at \in Nat /\ g.at <= f.at,
           \A g, h \in S : g.at = h.at => g = h
    PROVE  (CHOOSE h \in S : \A g \in S : g.at <= h.at) = f
<1> DEFINE last == CHOOSE h \in S : \A g \in S : g.at <= h.at
<1>1. last \in S /\ \A g \in S : g.at <= last.at
  OBVIOUS
<1> HIDE DEF last
<1>2. last.at = f.at
  BY <1>1
<1>3. last = f
  BY <1>1, <1>2
<1> QED
  BY <1>3 DEF last

\* The submission last made, by its sections.
LEMMA LatestContentIs ==
    ASSUME TypeOK, FinalsInOrder, NEW f \in finals, Latest(f)
    PROVE  LatestContent = ContentOf(f.manifest)
<1>1. (CHOOSE h \in finals : \A g \in finals : g.at <= h.at) = f
  BY LastIsUnique, ReviewFacts DEF Latest, FinalsInOrder
<1> QED
  BY <1>1 DEF LatestContent

Returned == {x.section : x \in {y \in scopes : y.open}}

\* The tables of a new application are those of the abstract initial state.
LEMMA LifecycleInit == Init => Lifecycle!Init
BY DEF Init, Lifecycle!Init, Lifecycle!Nothing, Phase, LatestContent

\* A first INSERT is the abstract submission; a later one is a resubmission
\* that changes the returned section and no other.
LEMMA InsertRefines ==
    ASSUME LifecycleInv, LifecycleInv', NEW r \in Requests, SubmitInsert(r)
    PROVE  Lifecycle!Next
<1> RecordsInv /\ RecordsInv' /\ TypeOK /\ SubmittedWasConfirmed /\ FinalsInOrder
      /\ ScopesInOrder /\ RecordedInThePast
  BY DEF LifecycleInv, RecordsInv, VersionsInv, ReturnInv
<1> DEFINE new == [at |-> clock', manifest |-> manifest[r], documents |-> documents[r]]
           content == ContentOf(draft)
<1>1. /\ finals' = finals \cup {new} /\ new.at = clock + 1
      /\ new.manifest = draft /\ manifest[r] = draft /\ draft' = draft
      /\ status' = "IN_REVIEW" /\ promoted' = promoted /\ Active = {}
      /\ superseded' = superseded /\ pc[r] = "inserting"
  BY DEF SubmitInsert, LifecycleInv, LockInv, CheckedManifestHolds, sectionVars
<1> HIDE DEF new
<1>2. new \in finals' /\ \A g \in finals' : g.at <= new.at
  BY <1>1, ReviewFacts DEF RecordedInThePast
<1>3. LatestContent' = content
  <2>1. \A g \in finals' : g.at \in Nat
    BY <1>1, ReviewFacts
  <2>2. \A g, h \in finals' : g.at = h.at => g = h
    BY DEF RecordsInv, ReturnInv, FinalsInOrder
  <2>3. (CHOOSE h \in finals' : \A g \in finals' : g.at <= h.at) = new
    BY <1>2, <2>1, <2>2, LastIsUnique
  <2> QED
    BY <1>1, <1>2, <2>3 DEF LatestContent, ContentOf
<1>4. content \in [Sections -> Contents]
  BY <1>1, ContentsAssumption DEF SubmittedWasConfirmed, Backs, ContentOf
<1>5. Phase' = "submitted"
  <2>1. \A t \in superseded : t # new.at
    BY <1>1, ReviewFacts DEF RecordsInv, BooksInv, DecisionsNameFinals, RecordedInThePast
  <2>2. new \in Active'
    BY <1>1, <2>1 DEF Active
  <2> QED
    BY <1>1, <2>2 DEF Phase
<1>6. Returned' = {}
  BY DEF SubmitInsert, ClosedScopes, TypeOK, Scopes, Returned
<1>7. CASE finals = {}
  <2>1. Phase = "drafting" /\ Returned = {}
    BY <1>7 DEF Phase, ScopesInOrder, Returned
  <2>2. Lifecycle!Submit(content)
    BY <1>1, <1>3, <1>5, <1>6, <2>1 DEF Lifecycle!Submit, Returned
  <2> QED
    BY <1>4, <2>2 DEF Lifecycle!Next
<1>8. CASE finals # {}
  <2>1. Phase = "returned"
    BY <1>1, <1>8 DEF Phase
  <2>2. PICK f \in finals : Latest(f)
    BY <1>8 DEF FinalsInOrder
  <2>3. LatestContent = ContentOf(f.manifest)
    BY <2>2, LatestContentIs
  <2>4. ASSUME NEW s \in Sections, s \notin Returned
        PROVE  content[s] = LatestContent[s]
    <3>1. OpenScopes(s) = {}
      BY <2>4 DEF OpenScopes, Returned
    <3>2. draft[s] = f.manifest[s]
      BY <2>2, <3>1 DEF LifecycleInv, UnreturnedSectionIsKept
    <3> QED
      BY <2>3, <3>2 DEF ContentOf
  <2>5. ASSUME NEW s \in Sections, s \in Returned
        PROVE  content[s] # LatestContent[s]
    <3>1. PICK x \in scopes : x.open /\ x.section = s
      BY <2>5 DEF Returned
    <3>2. Fresh(x, draft[s].content)
      BY <1>1, <3>1, InsertedIsFresh DEF RecordsInv
    <3>3. PICK c \in confirmations :
              c.section = s /\ c.content = f.manifest[s].content /\ c.at <= f.at
      BY <2>2 DEF SubmittedWasConfirmed
    <3>4. c.at <= x.at
      BY <2>2, <3>1, <3>3, ReviewFacts DEF ScopesInOrder
    <3> QED
      BY <2>3, <3>1, <3>2, <3>3, <3>4 DEF Fresh, ContentOf
  <2>6. Lifecycle!Resubmit(content)
    BY <1>1, <1>3, <1>5, <1>6, <2>1, <2>4, <2>5 DEF Lifecycle!Resubmit, Returned
  <2> QED
    BY <1>4, <2>6 DEF Lifecycle!Next, Lifecycle!Resubmit
<1> QED
  BY <1>7, <1>8

\* A decision is of the active submission, which no decision was made of yet.
LEMMA UndecidedIsSubmitted ==
    ASSUME LifecycleInv, NEW f \in Active, ~Decided(f)
    PROVE  /\ Phase = "submitted"
           /\ LatestContent = ContentOf(f.manifest)
           /\ Returned = {}
           /\ f.manifest = draft
<1> BooksInv /\ TypeOK /\ FinalsInOrder
  BY DEF LifecycleInv, RecordsInv, VersionsInv, ReturnInv
<1>1. f \in finals /\ \A g \in Active : g = f
  BY DEF Active, BooksInv, ReviewStateConsistent
<1>2. status # "CONFIRMED"
  BY <1>1, ApprovedIsActive DEF BooksInv, ReviewStateConsistent, Decided
<1>3. LatestContent = ContentOf(f.manifest)
  BY <1>1, LatestContentIs DEF FinalsInOrder
<1>4. Returned = {}
  BY DEF BooksInv, ReviewStateConsistent, Returned
<1>5. f.manifest = draft
  BY DEF LifecycleInv, LockInv, ActiveManifestMatchesDrafts
<1> QED
  BY <1>1, <1>2, <1>3, <1>4, <1>5 DEF Phase

\* Every step of the workflow is a step of the lifecycle or changes nothing
\* of it.
LEMMA LifecycleStep ==
    ASSUME LifecycleInv, LifecycleInv', [Next]_vars
    PROVE  [Lifecycle!Next]_(Lifecycle!lifecycleVars)
<1> RecordsInv /\ BooksInv /\ TypeOK
  BY DEF LifecycleInv, RecordsInv, VersionsInv
<1> USE DEF slotVars, sectionVars, reviewVars, requestVars
<1>1. ASSUME UNCHANGED reviewVars PROVE UNCHANGED Lifecycle!lifecycleVars
  BY <1>1 DEF Lifecycle!lifecycleVars, Phase, Active, LatestContent, ContentOf
<1>2. ASSUME NEW f \in finals, Approve(f) PROVE Lifecycle!Next
  <2>1. /\ f \in Active /\ ~Decided(f)
        /\ promoted' = ContentOf(draft) /\ status' = "CONFIRMED"
        /\ UNCHANGED <<finals, superseded, scopes>>
    BY <1>2 DEF Approve, PromoteApprovedApplicantDrafts, ContentOf
  <2>2. /\ Phase = "submitted" /\ LatestContent = ContentOf(draft)
    BY <2>1, UndecidedIsSubmitted
  <2>3. /\ Phase' = "approved" /\ LatestContent' = LatestContent /\ Returned' = Returned
    BY <2>1 DEF Phase, Active, LatestContent, ContentOf, Returned
  <2> QED
    BY <2>1, <2>2, <2>3 DEF Lifecycle!Next, Lifecycle!Approve, Returned
<1>3. ASSUME NEW f \in finals, NEW s \in Sections, Return(f, s) PROVE Lifecycle!Next
  <2> DEFINE new == [section |-> s, at |-> clock', open |-> TRUE]
  <2>1. /\ f \in Active /\ ~Decided(f)
        /\ superseded' = superseded \cup {f.at}
        /\ scopes' = scopes \cup {new} /\ new.section = s /\ new.open
        /\ UNCHANGED <<finals, promoted>>
    BY <1>3 DEF Return
  <2> HIDE DEF new
  <2>2. /\ Phase = "submitted" /\ Returned = {}
    BY <2>1, UndecidedIsSubmitted
  <2>3. Phase' = "returned"
    BY <2>1 DEF Phase, Active, BooksInv, ReviewStateConsistent
  <2>4. LatestContent' = LatestContent
    BY <2>1 DEF LatestContent, ContentOf
  <2>5. Returned' = {s}
    BY <2>1, <2>2 DEF Returned
  <2> QED
    BY <2>1, <2>2, <2>3, <2>4, <2>5 DEF Lifecycle!Next, Lifecycle!Return, Returned
<1> QED
  BY <1>1, <1>2, <1>3, InsertRefines
  DEF Next, RequestNext, ReviewNext, DocumentNext, Load, Save, ConfirmCheck,
      ConfirmInsert, ReadSection, ReadDocuments, SubmitCheck, Abandon, vars

\* With one session, the interleaved requests and decisions implement the
\* lifecycle: whole submissions, approved as submitted, and resubmissions
\* that change the returned section and nothing else.
THEOREM WorkflowImplementsLifecycle ==
    ASSUME SharedSession PROVE Spec => ImplementsLifecycle
<1>1. LifecycleInv /\ LifecycleInv' /\ [Next]_vars
          => [Lifecycle!Next]_(Lifecycle!lifecycleVars)
  BY LifecycleStep
<1>2. Spec => []LifecycleInv
  BY SharedSession, LifecycleHolds
<1> QED
  BY <1>1, <1>2, LifecycleInit, PTL DEF Spec, ImplementsLifecycle, Lifecycle!Spec
=============================================================================
