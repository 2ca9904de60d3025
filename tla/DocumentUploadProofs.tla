------------------------ MODULE DocumentUploadProofs ------------------------
(***************************************************************************)
(* Proofs about the upload path, for every number of workers, uploads and  *)
(* crashes.  A step of the route only touches files and rows that carry    *)
(* the key of its own upload; the lemmas Continues and Ends say what such  *)
(* a step has to show of its own key, and give the invariant for the rest. *)
(***************************************************************************)
EXTENDS DocumentUpload, TLAPS

\* A running upload is a typed record and its key is its number.
LEMMA RunningUpload ==
    ASSUME UploadTypeOK, NEW w \in Busy
    PROVE  /\ w \in Workers
           /\ upload[w] \in Uploads
           /\ Key(w) = upload[w].number
           /\ Key(w) \in 1..started
           /\ upload[w].content \in Contents
BY DEF UploadTypeOK, Busy, NoUpload, Uploads, Key, ObjectKey

\* A step that goes on moves one upload and leaves every key as it was.
LEMMA GotoKeepsKeys ==
    ASSUME UploadTypeOK, NEW w \in Busy, NEW step \in UploadSteps, Goto(w, step),
           started' = started
    PROVE  /\ upload' \in [Workers -> {NoUpload} \cup Uploads']
           /\ Busy' = Busy
           /\ upload'[w].step = step
           /\ \A v \in Busy : Key(v)' = Key(v) /\ upload'[v].content = upload[v].content
           /\ \A v \in Busy : v # w => upload'[v] = upload[v]
<1>1. w \in Workers /\ upload[w] \in Uploads
  BY RunningUpload
<1>2. /\ upload' = [upload EXCEPT ![w] = [upload[w] EXCEPT !.step = step]]
      /\ DOMAIN upload = Workers
  BY DEF Goto, UploadTypeOK
<1>3. [upload[w] EXCEPT !.step = step] \in Uploads
  BY <1>1 DEF Uploads
<1>4. upload' \in [Workers -> {NoUpload} \cup Uploads']
  BY <1>1, <1>2, <1>3 DEF UploadTypeOK, Uploads
<1>5. \A v \in Workers : v # w => upload'[v] = upload[v]
  BY <1>1, <1>2
<1>6. /\ upload'[w].step = step
      /\ upload'[w].number = upload[w].number
      /\ upload'[w].content = upload[w].content
  BY <1>1, <1>2 DEF Uploads
<1>7. Busy' = Busy
  BY <1>1, <1>5, <1>6 DEF Busy, UploadSteps
<1>8. \A v \in Busy : /\ upload'[v].number = upload[v].number
                      /\ upload'[v].content = upload[v].content
  BY <1>5, <1>6 DEF Busy
<1> QED
  BY <1>4, <1>5, <1>6, <1>7, <1>8 DEF Key, ObjectKey, Busy

\* An upload that goes on preserves the invariant if it touched nothing of
\* another key and its own files and rows fit its new step.
LEMMA Continues ==
    ASSUME StoreInv, NEW w \in Busy, NEW step \in UploadSteps, Goto(w, step),
           UNCHANGED <<hashes, historyVars>>,
           clock' \in 0..MaxClock, SlotsTypeOK',
           {f \in files' : f.key # Key(w)} = {f \in files : f.key # Key(w)},
           {f \in files' : f.key = Key(w)} = FilesOf(w)',
           {x \in stored' : x.key # Key(w)} = {x \in stored : x.key # Key(w)},
           step = "registered" => \E x \in stored' : x.key = Key(w),
           \A x \in stored' : x.key = Key(w) =>
              /\ x \in [version : 0..MaxClock, key : 1..started,
                        content : Contents, answered : BOOLEAN]
              /\ step \in {"registered", "raised"}
              /\ x.content = upload[w].content
              /\ ~x.answered
    PROVE  StoreInv'
<1> USE DEF historyVars
<1>1. UploadTypeOK
  BY DEF StoreInv
<1>2. /\ upload' \in [Workers -> {NoUpload} \cup Uploads']
      /\ Busy' = Busy
      /\ upload'[w].step = step
      /\ \A v \in Busy : Key(v)' = Key(v) /\ upload'[v].content = upload[v].content
      /\ \A v \in Busy : v # w => upload'[v] = upload[v]
  BY <1>1, GotoKeepsKeys
<1>3. /\ w \in Workers
      /\ Key(w) \in 1..started
      /\ upload[w].content \in Contents
  BY <1>1, RunningUpload
<1>4. /\ \A f : f.key # Key(w) => (f \in files' <=> f \in files)
      /\ \A x : x.key # Key(w) => (x \in stored' <=> x \in stored)
  OBVIOUS
<1>5. files' \subseteq [dir : {"q", "tmp", "o"}, key : 1..started, content : Contents]
  <2>1. FilesOf(w)' \subseteq [dir : {"q", "tmp", "o"}, key : 1..started, content : Contents]
    BY <1>2, <1>3 DEF FilesOf, Quarantined, Temporary, Object
  <2>2. SUFFICES ASSUME NEW f \in files'
                 PROVE  f \in [dir : {"q", "tmp", "o"}, key : 1..started, content : Contents]
    OBVIOUS
  <2>3. CASE f.key = Key(w)
    BY <2>1, <2>3
  <2>4. CASE f.key # Key(w)
    BY <1>1, <1>4, <2>4 DEF UploadTypeOK
  <2> QED
    BY <2>3, <2>4
<1>6. stored' \subseteq [version : 0..MaxClock, key : 1..started,
                         content : Contents, answered : BOOLEAN]
  <2>1. SUFFICES ASSUME NEW x \in stored'
                 PROVE  x \in [version : 0..MaxClock, key : 1..started,
                               content : Contents, answered : BOOLEAN]
    OBVIOUS
  <2> QED
    BY <1>1, <1>4 DEF UploadTypeOK
<1>7. UploadTypeOK'
  BY <1>1, <1>2, <1>5, <1>6 DEF UploadTypeOK
<1>8. UploadsOwnTheirKeys'
  BY <1>2 DEF StoreInv, UploadsOwnTheirKeys
<1>9. \A v \in Busy : v # w => Key(v) # Key(w)
  BY DEF StoreInv, UploadsOwnTheirKeys
<1>10. FilesFollowTheSteps'
  <2>1. SUFFICES ASSUME NEW v \in Busy
                 PROVE  {f \in files' : f.key = Key(v)} = FilesOf(v)'
    BY <1>2 DEF FilesFollowTheSteps
  <2>2. CASE v = w
    BY <2>2
  <2>3. CASE v # w
    <3>1. FilesOf(v)' = FilesOf(v)
      BY <1>2, <2>3 DEF FilesOf, Quarantined, Temporary, Object
    <3>2. {f \in files : f.key = Key(v)} = FilesOf(v)
      BY DEF StoreInv, FilesFollowTheSteps
    <3> QED
      BY <1>4, <1>9, <2>3, <3>1, <3>2
  <2> QED
    BY <2>2, <2>3
<1>11. RowsFollowTheSteps'
  <2>1. SUFFICES ASSUME NEW v \in Busy
                 PROVE  /\ upload'[v].step = "registered" => \E x \in stored' : x.key = Key(v)
                        /\ \A x \in stored' : x.key = Key(v) =>
                              /\ upload'[v].step \in {"registered", "raised"}
                              /\ x.content = upload'[v].content
                              /\ ~x.answered
    BY <1>2 DEF RowsFollowTheSteps
  <2>2. CASE v = w
    BY <1>2, <2>2
  <2>3. CASE v # w
    BY <1>2, <1>4, <1>9, <2>3 DEF StoreInv, RowsFollowTheSteps
  <2> QED
    BY <2>2, <2>3
<1>12. AnsweredUploadIsReadable'
  <2>1. SUFFICES ASSUME NEW x \in stored', x.answered
                 PROVE  [dir |-> "o", key |-> x.key, content |-> x.content] \in files'
    BY DEF AnsweredUploadIsReadable
  <2>2. x.key # Key(w)
    BY <2>1
  <2>3. x \in stored
    BY <1>4, <2>2
  <2>4. [dir |-> "o", key |-> x.key, content |-> x.content] \in files
    BY <2>1, <2>3 DEF StoreInv, AnsweredUploadIsReadable
  <2>5. [dir |-> "o", key |-> x.key, content |-> x.content].key = x.key
    OBVIOUS
  <2> QED
    BY <1>4, <2>2, <2>4, <2>5
<1>13. LeftoversOnlyAfterCrash'
  <2>1. SUFFICES ASSUME NEW f \in files'
                 PROVE  \/ \E x \in stored' : f.dir = "o" /\ f.key = x.key
                        \/ \E v \in Busy : f.key = Key(v)
                        \/ f.key \in interrupted
    BY <1>2 DEF LeftoversOnlyAfterCrash
  <2>2. CASE f.key = Key(w)
    BY <2>2
  <2>3. CASE f.key # Key(w)
    BY <1>4, <2>3 DEF StoreInv, LeftoversOnlyAfterCrash
  <2> QED
    BY <2>2, <2>3
<1> QED
  BY <1>7, <1>8, <1>10, <1>11, <1>12, <1>13 DEF StoreInv

\* An upload that ends preserves the invariant if it touched nothing of
\* another key, leaves no file that is neither its row's nor interrupted, and
\* the object of a row it answered is in place.
LEMMA Ends ==
    ASSUME StoreInv, NEW w \in Busy, upload' = [upload EXCEPT ![w] = NoUpload],
           UNCHANGED <<clock, slotVars, started>>,
           hashes' \in [Workers -> SUBSET Contents],
           crashes' \in [Workers -> 0..MaxCrashes],
           interrupted' \in {interrupted, interrupted \cup {Key(w)}},
           {f \in files' : f.key # Key(w)} = {f \in files : f.key # Key(w)},
           {f \in files' : f.key = Key(w)} \subseteq FilesOf(w),
           {x \in stored' : x.key # Key(w)} = {x \in stored : x.key # Key(w)},
           \A x \in stored' : x.key = Key(w) =>
              /\ x \in [version : 0..MaxClock, key : 1..started,
                        content : Contents, answered : BOOLEAN]
              /\ x.answered => Object(w) \in files' /\ x.content = upload[w].content,
           \A f \in files' : f.key = Key(w) =>
              \/ Key(w) \in interrupted'
              \/ f.dir = "o" /\ \E x \in stored' : x.key = Key(w)
    PROVE  StoreInv'
<1>1. UploadTypeOK
  BY DEF StoreInv
<1>2. /\ w \in Workers
      /\ Key(w) \in 1..started
      /\ upload[w].content \in Contents
  BY <1>1, RunningUpload
<1>3. /\ upload' \in [Workers -> {NoUpload} \cup Uploads']
      /\ Busy' = Busy \ {w}
      /\ \A v \in Busy : v # w => upload'[v] = upload[v] /\ Key(v)' = Key(v)
  BY <1>1, <1>2 DEF UploadTypeOK, Uploads, Busy, NoUpload, Key, ObjectKey
<1>4. /\ \A f : f.key # Key(w) => (f \in files' <=> f \in files)
      /\ \A x : x.key # Key(w) => (x \in stored' <=> x \in stored)
  OBVIOUS
<1>5. files' \subseteq [dir : {"q", "tmp", "o"}, key : 1..started, content : Contents]
  <2>1. FilesOf(w) \subseteq [dir : {"q", "tmp", "o"}, key : 1..started, content : Contents]
    BY <1>2 DEF FilesOf, Quarantined, Temporary, Object
  <2>2. SUFFICES ASSUME NEW f \in files'
                 PROVE  f \in [dir : {"q", "tmp", "o"}, key : 1..started, content : Contents]
    OBVIOUS
  <2>3. CASE f.key = Key(w)
    BY <2>1, <2>3
  <2>4. CASE f.key # Key(w)
    BY <1>1, <1>4, <2>4 DEF UploadTypeOK
  <2> QED
    BY <2>3, <2>4
<1>6. stored' \subseteq [version : 0..MaxClock, key : 1..started,
                         content : Contents, answered : BOOLEAN]
  <2>1. SUFFICES ASSUME NEW x \in stored'
                 PROVE  x \in [version : 0..MaxClock, key : 1..started,
                               content : Contents, answered : BOOLEAN]
    OBVIOUS
  <2> QED
    BY <1>1, <1>4 DEF UploadTypeOK
<1>7. interrupted' \subseteq 1..started
  BY <1>1, <1>2 DEF UploadTypeOK
<1>8. SlotsTypeOK'
  BY <1>1 DEF UploadTypeOK, SlotsTypeOK, slotVars
<1>9. UploadTypeOK'
  BY <1>1, <1>3, <1>5, <1>6, <1>7, <1>8 DEF UploadTypeOK
<1>10. \A v \in Busy : v # w => Key(v) # Key(w)
  BY DEF StoreInv, UploadsOwnTheirKeys
<1>11. UploadsOwnTheirKeys'
  BY <1>3, <1>10 DEF StoreInv, UploadsOwnTheirKeys
<1>12. FilesFollowTheSteps'
  <2>1. SUFFICES ASSUME NEW v \in Busy, v # w
                 PROVE  {f \in files' : f.key = Key(v)} = FilesOf(v)'
    BY <1>3 DEF FilesFollowTheSteps
  <2>2. FilesOf(v)' = FilesOf(v)
    BY <1>3, <2>1 DEF FilesOf, Quarantined, Temporary, Object
  <2>3. {f \in files : f.key = Key(v)} = FilesOf(v)
    BY DEF StoreInv, FilesFollowTheSteps
  <2> QED
    BY <1>4, <1>10, <2>1, <2>2, <2>3
<1>13. RowsFollowTheSteps'
  <2>1. SUFFICES ASSUME NEW v \in Busy, v # w
                 PROVE  /\ upload[v].step = "registered" => \E x \in stored' : x.key = Key(v)
                        /\ \A x \in stored' : x.key = Key(v) =>
                              /\ upload[v].step \in {"registered", "raised"}
                              /\ x.content = upload[v].content
                              /\ ~x.answered
    BY <1>3 DEF RowsFollowTheSteps
  <2> QED
    BY <1>4, <1>10, <2>1 DEF StoreInv, RowsFollowTheSteps
<1>14. AnsweredUploadIsReadable'
  <2>1. SUFFICES ASSUME NEW x \in stored', x.answered
                 PROVE  [dir |-> "o", key |-> x.key, content |-> x.content] \in files'
    BY DEF AnsweredUploadIsReadable
  <2>2. CASE x.key = Key(w)
    BY <2>1, <2>2 DEF Object
  <2>3. CASE x.key # Key(w)
    <3>1. [dir |-> "o", key |-> x.key, content |-> x.content] \in files
      BY <1>4, <2>1, <2>3 DEF StoreInv, AnsweredUploadIsReadable
    <3>2. [dir |-> "o", key |-> x.key, content |-> x.content].key = x.key
      OBVIOUS
    <3> QED
      BY <1>4, <2>3, <3>1, <3>2
  <2> QED
    BY <2>2, <2>3
<1>15. LeftoversOnlyAfterCrash'
  <2>1. SUFFICES ASSUME NEW f \in files'
                 PROVE  \/ \E x \in stored' : f.dir = "o" /\ f.key = x.key
                        \/ \E v \in Busy : v # w /\ f.key = Key(v)
                        \/ f.key \in interrupted'
    BY <1>3 DEF LeftoversOnlyAfterCrash
  <2>2. CASE f.key = Key(w)
    BY <2>2
  <2>3. CASE f.key # Key(w)
    BY <1>4, <2>3 DEF StoreInv, LeftoversOnlyAfterCrash
  <2> QED
    BY <2>2, <2>3
<1> QED
  BY <1>9, <1>11, <1>12, <1>13, <1>14, <1>15 DEF StoreInv

-----------------------------------------------------------------------------
(* The transactions of the database and the start of an upload.            *)

\* A registration writes a typed slot and a typed row.
LEMMA RegistrationTyped ==
    ASSUME clock \in 0..MaxClock, SlotsTypeOK, NEW d \in Slots, NEW expected,
           RegisterApplicantDocumentSubmission(d, expected)
    PROVE  clock' \in 0..MaxClock /\ SlotsTypeOK'
<1>1. clock' \in 0..MaxClock
  BY MaxClockAssumption DEF RegisterApplicantDocumentSubmission
<1>2. slot' \in [Slots -> SlotRows]
  BY <1>1 DEF RegisterApplicantDocumentSubmission, UploadOpen, SlotsTypeOK, SlotRows, UploadModes
<1>3. submissions' \subseteq SubmissionRows
  BY <1>1 DEF RegisterApplicantDocumentSubmission, UploadOpen, SlotsTypeOK, SubmissionRows
<1> QED
  BY <1>1, <1>2, <1>3 DEF SlotsTypeOK

\* A review keeps the slots typed and does not touch the uploads.
LEMMA ReviewKeepsStore ==
    ASSUME StoreInv, Review
    PROVE  StoreInv'
<1>1. PICK row \in submissions, decision \in {"ACCEPTED", "REJECTED"} :
         ReviewApplicantDocumentSubmission(row, decision)
  BY DEF Review
<1>2. clock \in 0..MaxClock /\ SlotsTypeOK
  BY DEF StoreInv, UploadTypeOK
<1>3. clock' \in 0..MaxClock
  BY <1>1, <1>2, MaxClockAssumption DEF ReviewApplicantDocumentSubmission
<1>4. row \in SubmissionRows
  BY <1>1, <1>2 DEF SlotsTypeOK
<1>5. slot' \in [Slots -> SlotRows]
  BY <1>1, <1>2, <1>3, <1>4
     DEF ReviewApplicantDocumentSubmission, SlotsTypeOK, SlotRows, SubmissionRows, UploadModes
<1>6. submissions' \subseteq SubmissionRows
  <2>1. [row EXCEPT !.status = decision] \in SubmissionRows
    BY <1>4 DEF SubmissionRows
  <2> QED
    BY <1>1, <1>2, <2>1 DEF ReviewApplicantDocumentSubmission, Reviewed, SlotsTypeOK
<1>7. UNCHANGED <<upload, storeVars, stored, historyVars>>
  BY DEF Review
<1> QED
  BY <1>3, <1>5, <1>6, <1>7
     DEF StoreInv, UploadTypeOK, SlotsTypeOK, Uploads, UploadsOwnTheirKeys, FilesFollowTheSteps,
         RowsFollowTheSteps, AnsweredUploadIsReadable, LeftoversOnlyAfterCrash, FilesOf, Busy, Key,
         ObjectKey, Quarantined, Temporary, Object, storeVars, historyVars

\* A new upload draws a key that no file, row, upload or crash knows.
LEMMA StartKeepsStore ==
    ASSUME StoreInv, NEW w \in Workers, NEW d \in Slots, NEW content \in Contents,
           StartUpload(w, d, content)
    PROVE  StoreInv'
<1> DEFINE new == [step |-> "admitted", slot |-> d, rv |-> slot[d].rv,
                   content |-> content, number |-> started + 1]
<1>1. UploadTypeOK
  BY DEF StoreInv
<1>2. /\ started \in Nat
      /\ started' = started + 1
      /\ started' \in 0..MaxUploads
      /\ w \notin Busy
      /\ upload' = [upload EXCEPT ![w] = new]
      /\ UNCHANGED <<clock, slotVars, storeVars, stored, crashes, interrupted>>
  BY <1>1, UploadBounds DEF StartUpload, UploadTypeOK
<1>3. 1..started \subseteq 1..started' /\ started + 1 \in 1..started' /\ started + 1 \notin 1..started
  BY <1>2
<1>4. slot[d].rv \in 0..MaxClock
  BY <1>1 DEF UploadTypeOK, SlotsTypeOK, SlotRows
<1>5. new \in Uploads'
  BY <1>3, <1>4 DEF Uploads, UploadSteps
<1>6. Uploads \subseteq Uploads'
  BY <1>3 DEF Uploads
<1>7. upload' \in [Workers -> {NoUpload} \cup Uploads']
  BY <1>1, <1>2, <1>5, <1>6 DEF UploadTypeOK
<1>8. /\ \A v \in Workers : v # w => upload'[v] = upload[v]
      /\ upload'[w] = new
  BY <1>1, <1>2 DEF UploadTypeOK
<1>9. Busy' = Busy \cup {w}
  BY <1>8 DEF Busy
<1>10. /\ \A v \in Busy : Key(v)' = Key(v) /\ Key(v) \in 1..started
       /\ Key(w)' = started + 1
  BY <1>1, <1>2, <1>8, RunningUpload DEF Busy, Key, ObjectKey
<1>11. UploadTypeOK'
  BY <1>1, <1>2, <1>3, <1>7 DEF UploadTypeOK, SlotsTypeOK, slotVars, storeVars
<1>12. \A f \in files : f.key \in 1..started
  BY <1>1 DEF UploadTypeOK
<1>13. \A x \in stored : x.key \in 1..started
  BY <1>1 DEF UploadTypeOK
<1>14. UploadsOwnTheirKeys'
  BY <1>1, <1>2, <1>3, <1>9, <1>10 DEF StoreInv, UploadsOwnTheirKeys, UploadTypeOK
<1>15. FilesFollowTheSteps'
  <2>1. {f \in files' : f.key = Key(w)'} = FilesOf(w)'
    BY <1>2, <1>3, <1>8, <1>10, <1>12 DEF FilesOf, storeVars
  <2>2. ASSUME NEW v \in Busy
        PROVE  {f \in files' : f.key = Key(v)'} = FilesOf(v)'
    <3>1. v # w /\ upload'[v] = upload[v]
      BY <1>2, <1>8 DEF Busy
    <3>2. FilesOf(v)' = FilesOf(v)
      BY <1>10, <3>1 DEF FilesOf, Quarantined, Temporary, Object
    <3> QED
      BY <1>2, <1>10, <3>2 DEF StoreInv, FilesFollowTheSteps, storeVars
  <2> QED
    BY <1>9, <2>1, <2>2 DEF FilesFollowTheSteps
<1>16. RowsFollowTheSteps'
  BY <1>2, <1>3, <1>8, <1>9, <1>10, <1>13 DEF StoreInv, RowsFollowTheSteps, Busy
<1>17. AnsweredUploadIsReadable'
  BY <1>2 DEF StoreInv, AnsweredUploadIsReadable, storeVars
<1>18. LeftoversOnlyAfterCrash'
  BY <1>2, <1>9, <1>10 DEF StoreInv, LeftoversOnlyAfterCrash, storeVars
<1> QED
  BY <1>11, <1>14, <1>15, <1>16, <1>17, <1>18 DEF StoreInv

-----------------------------------------------------------------------------
(* The steps of a running upload.                                          *)

\* What the invariant says of one running upload.
LEMMA OwnFilesAndRows ==
    ASSUME StoreInv, NEW w \in Busy
    PROVE  /\ {f \in files : f.key = Key(w)} = FilesOf(w)
           /\ upload[w].step = "registered" => \E x \in stored : x.key = Key(w)
           /\ \A x \in stored : x.key = Key(w) =>
                 /\ x \in [version : 0..MaxClock, key : 1..started,
                           content : Contents, answered : BOOLEAN]
                 /\ upload[w].step \in {"registered", "raised"}
                 /\ x.content = upload[w].content
                 /\ ~x.answered
BY DEF StoreInv, FilesFollowTheSteps, RowsFollowTheSteps, UploadTypeOK

\* The three files of an upload are different and carry its key.
LEMMA ThreeFiles ==
    ASSUME NEW w
    PROVE  /\ Quarantined(w).key = Key(w) /\ Quarantined(w).dir = "q"
           /\ Temporary(w).key = Key(w) /\ Temporary(w).dir = "tmp"
           /\ Object(w).key = Key(w) /\ Object(w).dir = "o"
BY DEF Quarantined, Temporary, Object

\* What a step that goes on leaves of its files' names.
LEMMA GotoKeepsFiles ==
    ASSUME StoreInv, NEW w \in Busy, NEW step \in UploadSteps, Goto(w, step),
           started' = started
    PROVE  /\ Quarantined(w)' = Quarantined(w)
           /\ Temporary(w)' = Temporary(w)
           /\ Object(w)' = Object(w)
           /\ upload'[w].step = step
BY GotoKeepsKeys DEF StoreInv, Quarantined, Temporary, Object

\* The slots and rows of a step that does not reach the database.
LEMMA SlotsKept ==
    ASSUME StoreInv, UNCHANGED <<clock, slotVars>>
    PROVE  clock' \in 0..MaxClock /\ SlotsTypeOK'
BY DEF StoreInv, UploadTypeOK, SlotsTypeOK, slotVars

\* An upload that ends without a kill keeps hashes, rows and history.
LEMMA EndsQuietly ==
    ASSUME StoreInv, NEW w \in Busy, upload[w].step \notin {"registered"},
           NEW left, Finish(w, left),
           left \subseteq files,
           {f \in left : f.key # Key(w)} = {f \in files : f.key # Key(w)},
           {f \in left : f.key = Key(w)} \subseteq {Quarantined(w)},
           UNCHANGED <<clock, slotVars, hashes, stored, historyVars>>
    PROVE  StoreInv'
<1>1. files' = left \ {Quarantined(w)} /\ upload' = [upload EXCEPT ![w] = NoUpload]
  BY DEF Finish
<1>2. /\ hashes' \in [Workers -> SUBSET Contents]
      /\ crashes' \in [Workers -> 0..MaxCrashes]
      /\ interrupted' = interrupted /\ started' = started
  BY DEF StoreInv, UploadTypeOK, historyVars
<1>3. /\ {f \in files' : f.key # Key(w)} = {f \in files : f.key # Key(w)}
      /\ {f \in files' : f.key = Key(w)} = {}
  BY <1>1, ThreeFiles
<1> QED
  BY <1>1, <1>2, <1>3, Ends, OwnFilesAndRows

\* The private copy.
LEMMA QuarantineKeepsStore ==
    ASSUME StoreInv, NEW w \in Workers, Quarantine(w)
    PROVE  StoreInv'
<1>1. /\ w \in Busy /\ upload[w].step = "admitted"
      /\ Goto(w, "quarantined") /\ "quarantined" \in UploadSteps
      /\ files' = files \cup {Quarantined(w)}
      /\ UNCHANGED <<clock, slotVars, hashes, stored, historyVars>>
  BY DEF Quarantine, Busy, UploadSteps
<1>2. FilesOf(w) = {} /\ FilesOf(w)' = {Quarantined(w)}
  BY <1>1, GotoKeepsFiles DEF FilesOf, historyVars
<1>3. /\ {f \in files' : f.key # Key(w)} = {f \in files : f.key # Key(w)}
      /\ {f \in files' : f.key = Key(w)} = FilesOf(w)'
  BY <1>1, <1>2, OwnFilesAndRows, ThreeFiles
<1> QED
  BY <1>1, <1>3, SlotsKept, OwnFilesAndRows, Continues

\* A refusal before the store wrote anything.
LEMMA RefuseKeepsStore ==
    ASSUME StoreInv, NEW w \in Workers, Refuse(w)
    PROVE  StoreInv'
<1>1. /\ w \in Busy /\ upload[w].step \in {"admitted", "quarantined"}
      /\ Finish(w, files)
      /\ UNCHANGED <<clock, slotVars, hashes, stored, historyVars>>
  BY DEF Refuse, Busy
<1>2. {f \in files : f.key = Key(w)} \subseteq {Quarantined(w)}
  BY <1>1, OwnFilesAndRows DEF FilesOf
<1> QED
  BY <1>1, <1>2, EndsQuietly

\* The look-up of the plaintext.
LEMMA StoreBytesKeepsStore ==
    ASSUME StoreInv, NEW w \in Workers, StoreBytes(w)
    PROVE  StoreInv'
<1>1. /\ w \in Busy /\ upload[w].step = "quarantined"
      /\ UNCHANGED <<clock, slotVars, hashes, stored, historyVars>>
  BY DEF StoreBytes, Busy
<1>2. {f \in files : f.key = Key(w)} = {Quarantined(w)}
  BY <1>1, OwnFilesAndRows DEF FilesOf
<1>3. CASE Finish(w, files)
  BY <1>1, <1>2, <1>3, EndsQuietly
<1>4. CASE Goto(w, "storing") /\ UNCHANGED files
  <2>1. "storing" \in UploadSteps
    BY DEF UploadSteps
  <2>2. FilesOf(w)' = {Quarantined(w)}
    BY <1>1, <1>4, <2>1, GotoKeepsFiles DEF FilesOf, historyVars
  <2> QED
    BY <1>1, <1>2, <1>4, <2>1, <2>2, SlotsKept, OwnFilesAndRows, Continues
<1> QED
  BY <1>3, <1>4 DEF StoreBytes

\* The temporary file.
LEMMA WriteKeepsStore ==
    ASSUME StoreInv, NEW w \in Workers, WriteTemporary(w)
    PROVE  StoreInv'
<1>1. /\ w \in Busy /\ upload[w].step = "storing"
      /\ Goto(w, "written") /\ "written" \in UploadSteps
      /\ files' = files \cup {Temporary(w)}
      /\ UNCHANGED <<clock, slotVars, hashes, stored, historyVars>>
  BY DEF WriteTemporary, Busy, UploadSteps
<1>2. FilesOf(w) = {Quarantined(w)} /\ FilesOf(w)' = {Quarantined(w), Temporary(w)}
  BY <1>1, GotoKeepsFiles DEF FilesOf, historyVars
<1>3. /\ {f \in files' : f.key # Key(w)} = {f \in files : f.key # Key(w)}
      /\ {f \in files' : f.key = Key(w)} = FilesOf(w)'
  BY <1>1, <1>2, OwnFilesAndRows, ThreeFiles
<1> QED
  BY <1>1, <1>3, SlotsKept, OwnFilesAndRows, Continues

\* The rename, or the removal of both files.
LEMMA PromoteKeepsStore ==
    ASSUME StoreInv, NEW w \in Workers, Promote(w)
    PROVE  StoreInv'
<1>1. /\ w \in Busy /\ upload[w].step = "written"
      /\ UNCHANGED <<clock, slotVars, hashes, stored, historyVars>>
  BY DEF Promote, Busy
<1>2. {f \in files : f.key = Key(w)} = {Quarantined(w), Temporary(w)}
  BY <1>1, OwnFilesAndRows DEF FilesOf
<1>3. CASE Finish(w, files \ {Temporary(w), Object(w)})
  BY <1>1, <1>2, <1>3, ThreeFiles, EndsQuietly
<1>4. CASE /\ Goto(w, "promoted")
           /\ files' = (files \ {Temporary(w)}) \cup {Object(w)}
  <2>1. "promoted" \in UploadSteps
    BY DEF UploadSteps
  <2>2. FilesOf(w)' = {Quarantined(w), Object(w)}
    BY <1>1, <1>4, <2>1, GotoKeepsFiles DEF FilesOf, historyVars
  <2>3. /\ {f \in files' : f.key # Key(w)} = {f \in files : f.key # Key(w)}
        /\ {f \in files' : f.key = Key(w)} = FilesOf(w)'
    BY <1>2, <1>4, <2>2, ThreeFiles
  <2> QED
    BY <1>1, <1>4, <2>1, <2>3, SlotsKept, OwnFilesAndRows, Continues
<1> QED
  BY <1>3, <1>4 DEF Promote

\* The transaction that registers the object.
LEMMA RegisterKeepsStore ==
    ASSUME StoreInv, NEW w \in Workers, Register(w)
    PROVE  StoreInv'
<1> DEFINE row == [version |-> clock', key |-> Key(w), content |-> upload[w].content,
                   answered |-> FALSE]
<1>1. /\ w \in Busy /\ upload[w].step = "promoted"
      /\ Goto(w, "registered") /\ "registered" \in UploadSteps
      /\ RegisterApplicantDocumentSubmission(upload[w].slot, upload[w].rv)
      /\ stored' = stored \cup {row}
      /\ UNCHANGED <<storeVars, historyVars>>
  BY DEF Register, Busy, UploadSteps
<1>2. /\ Key(w) \in 1..started
      /\ upload[w].content \in Contents
      /\ upload[w].slot \in Slots
  BY <1>1, RunningUpload DEF StoreInv, Uploads
<1>3. clock' \in 0..MaxClock /\ SlotsTypeOK'
  BY <1>1, <1>2, RegistrationTyped DEF StoreInv, UploadTypeOK
<1>4. FilesOf(w)' = FilesOf(w)
  BY <1>1, GotoKeepsFiles DEF FilesOf, historyVars
<1>5. /\ row \in [version : 0..MaxClock, key : 1..started,
                  content : Contents, answered : BOOLEAN]
      /\ row.key = Key(w) /\ row.content = upload[w].content /\ ~row.answered
  BY <1>2, <1>3
<1>6. \A x \in stored : x.key # Key(w)
  BY <1>1, OwnFilesAndRows
<1> HIDE DEF row
<1>7. UNCHANGED <<hashes, files, historyVars>>
  BY <1>1 DEF storeVars
<1>8. /\ {f \in files' : f.key # Key(w)} = {f \in files : f.key # Key(w)}
      /\ {f \in files' : f.key = Key(w)} = FilesOf(w)'
  BY <1>1, <1>4, <1>7, OwnFilesAndRows
<1>9. {x \in stored' : x.key # Key(w)} = {x \in stored : x.key # Key(w)}
  BY <1>1, <1>5
<1>10. \A x \in stored' : x.key = Key(w) => x = row
  BY <1>1, <1>6
<1> QED
  BY <1>1, <1>3, <1>5, <1>7, <1>8, <1>9, <1>10, Continues

\* An error of the registration, before or after its commit.
LEMMA RaiseKeepsStore ==
    ASSUME StoreInv, NEW w \in Workers, RegistrationRaises(w)
    PROVE  StoreInv'
<1>1. /\ w \in Busy /\ upload[w].step \in {"promoted", "registered"}
      /\ Goto(w, "raised") /\ "raised" \in UploadSteps
      /\ UNCHANGED <<clock, slotVars, hashes, files, stored, historyVars>>
  BY DEF RegistrationRaises, Busy, UploadSteps, storeVars
<1>2. FilesOf(w)' = FilesOf(w)
  BY <1>1, GotoKeepsFiles DEF FilesOf, historyVars
<1> QED
  BY <1>1, <1>2, SlotsKept, OwnFilesAndRows, Continues

\* The removal of the object after an error.
LEMMA RemoveKeepsStore ==
    ASSUME StoreInv, NEW w \in Workers, RemoveObject(w)
    PROVE  StoreInv'
<1>1. /\ w \in Busy /\ upload[w].step = "raised"
      /\ Finish(w, files \ {Object(w)})
      /\ UNCHANGED <<clock, slotVars, hashes, stored, historyVars>>
  BY DEF RemoveObject, Busy, WithoutObject
<1>2. {f \in files : f.key = Key(w)} = {Quarantined(w), Object(w)}
  BY <1>1, OwnFilesAndRows DEF FilesOf
<1> QED
  BY <1>1, <1>2, ThreeFiles, EndsQuietly

\* The answer to the applicant: the object of the row is in place.
LEMMA AcknowledgeKeepsStore ==
    ASSUME StoreInv, NEW w \in Workers, Acknowledge(w)
    PROVE  StoreInv'
<1> DEFINE mine == {x \in stored : x.key = Key(w)}
<1> DEFINE told == {[x EXCEPT !.answered = TRUE] : x \in mine}
<1>1. /\ w \in Busy /\ upload[w].step = "registered"
      /\ hashes' = HashesWith(w)
      /\ stored' = (stored \ mine) \cup told
      /\ upload' = [upload EXCEPT ![w] = NoUpload]
      /\ files' = files \ {Quarantined(w)}
      /\ UNCHANGED <<clock, slotVars, historyVars>>
  BY DEF Acknowledge, Busy, Finish
<1>2. upload[w].content \in Contents
  BY <1>1, RunningUpload DEF StoreInv
<1>3. hashes' \in [Workers -> SUBSET Contents]
  BY <1>1, <1>2 DEF HashesWith, StoreInv, UploadTypeOK
<1>4. crashes' \in [Workers -> 0..MaxCrashes] /\ interrupted' = interrupted /\ started' = started
  BY <1>1 DEF StoreInv, UploadTypeOK, historyVars
<1>5. {f \in files : f.key = Key(w)} = {Quarantined(w), Object(w)} /\ FilesOf(w) = {Quarantined(w), Object(w)}
  BY <1>1, OwnFilesAndRows DEF FilesOf
<1>6. /\ {f \in files' : f.key # Key(w)} = {f \in files : f.key # Key(w)}
      /\ {f \in files' : f.key = Key(w)} = {Object(w)}
  BY <1>1, <1>5, ThreeFiles
<1>7. \A y \in told :
         /\ y \in [version : 0..MaxClock, key : 1..started,
                   content : Contents, answered : BOOLEAN]
         /\ y.key = Key(w) /\ y.content = upload[w].content
  BY ZenonT(60), <1>1, OwnFilesAndRows
<1>8. \E y \in told : y.key = Key(w)
  BY <1>1, <1>7, OwnFilesAndRows
<1> HIDE DEF told
<1>9. {x \in stored' : x.key # Key(w)} = {x \in stored : x.key # Key(w)}
  BY <1>1, <1>7
<1>10. \A x \in stored' : x.key = Key(w) => x \in told
  BY <1>1
<1>11. \E x \in stored' : x.key = Key(w)
  BY <1>1, <1>8
<1>12. Object(w) \in files'
  BY <1>6
<1>13. \A f \in files' : f.key = Key(w) => f.dir = "o"
  BY <1>6, ThreeFiles
<1> QED
  BY <1>1, <1>3, <1>4, <1>5, <1>6, <1>7, <1>9, <1>10, <1>11, <1>12, <1>13, Ends

\* A kill leaves the files of the upload under a key recorded as interrupted.
LEMMA CrashKeepsStore ==
    ASSUME StoreInv, NEW w \in Workers, Crash(w)
    PROVE  StoreInv'
<1>1. /\ hashes' \in [Workers -> SUBSET Contents]
      /\ crashes' \in [Workers -> 0..MaxCrashes]
      /\ upload' = [upload EXCEPT ![w] = NoUpload]
      /\ interrupted' = IF w \in Busy THEN interrupted \cup {Key(w)} ELSE interrupted
      /\ UNCHANGED <<clock, slotVars, files, stored, started>>
  BY UploadBounds DEF Crash, StoreInv, UploadTypeOK
<1>2. CASE w \in Busy
  BY <1>1, <1>2, OwnFilesAndRows, Ends
<1>3. CASE w \notin Busy
  <2>1. upload[w] = NoUpload
    BY <1>3 DEF StoreInv, UploadTypeOK, Busy, Uploads, UploadSteps
  <2>2. upload' = upload
    BY <1>1, <2>1 DEF StoreInv, UploadTypeOK
  <2>3. interrupted' = interrupted
    BY <1>1, <1>3
  <2>4. UploadTypeOK'
    BY <1>1, <2>2, <2>3 DEF StoreInv, UploadTypeOK, SlotsTypeOK, Uploads, slotVars
  <2>5. (UploadsOwnTheirKeys /\ FilesFollowTheSteps /\ RowsFollowTheSteps)'
    BY <1>1, <2>2, <2>3
       DEF StoreInv, UploadsOwnTheirKeys, FilesFollowTheSteps, RowsFollowTheSteps, FilesOf, Busy,
           Key, ObjectKey, Quarantined, Temporary, Object
  <2>6. (AnsweredUploadIsReadable /\ LeftoversOnlyAfterCrash)'
    BY <1>1, <2>2, <2>3
       DEF StoreInv, AnsweredUploadIsReadable, LeftoversOnlyAfterCrash, Busy, Key, ObjectKey
  <2> QED
    BY <2>4, <2>5, <2>6 DEF StoreInv
<1> QED
  BY <1>2, <1>3

-----------------------------------------------------------------------------
\* Before the first upload the store is empty and nothing is promised.
LEMMA StoreInitially ==
    ASSUME UploadInit
    PROVE  StoreInv
<1>1. SlotsTypeOK
  <2>1. ImportedVersion \in 0..MaxClock /\ NoVersion \in 0..MaxClock
    BY MaxClockAssumption DEF ImportedVersion, NoVersion
  <2>2. 0 \in 0..MaxClock
    BY MaxClockAssumption
  <2>3. slot \in [Slots -> SlotRows]
    BY <2>1, <2>2 DEF UploadInit, SlotsInit, SlotRows, UploadModes
  <2> QED
    BY <2>3 DEF UploadInit, SlotsInit, SlotsTypeOK
<1>2. UploadTypeOK
  BY <1>1, UploadBounds, MaxClockAssumption DEF UploadInit, UploadTypeOK, ImportedVersion
<1>3. Busy = {}
  BY DEF UploadInit, Busy, NoUpload
<1> QED
  BY <1>2, <1>3 DEF UploadInit, StoreInv, UploadsOwnTheirKeys, FilesFollowTheSteps,
     RowsFollowTheSteps, AnsweredUploadIsReadable, LeftoversOnlyAfterCrash

\* Every step of every worker, and every stutter, preserves the invariant.
LEMMA StoreStep ==
    ASSUME StoreInv, [UploadNext]_uploadVars
    PROVE  StoreInv'
<1>1. CASE UNCHANGED uploadVars
  BY <1>1 DEF uploadVars, slotVars, storeVars, historyVars,
     StoreInv, UploadTypeOK, SlotsTypeOK, Uploads, UploadsOwnTheirKeys, FilesFollowTheSteps,
     RowsFollowTheSteps, AnsweredUploadIsReadable, LeftoversOnlyAfterCrash, FilesOf, Busy, Key,
     ObjectKey, Quarantined, Temporary, Object
<1>2. ASSUME NEW w \in Workers, NEW d \in Slots, NEW content \in Contents,
             StartUpload(w, d, content)
      PROVE  StoreInv'
  BY <1>2, StartKeepsStore
<1>3. ASSUME NEW w \in Workers, UploadStep(w)
      PROVE  StoreInv'
  BY <1>3, QuarantineKeepsStore, RefuseKeepsStore, StoreBytesKeepsStore, WriteKeepsStore,
     PromoteKeepsStore, RegisterKeepsStore, RaiseKeepsStore, RemoveKeepsStore,
     AcknowledgeKeepsStore DEF UploadStep
<1>4. ASSUME NEW w \in Workers, Crash(w)
      PROVE  StoreInv'
  BY <1>4, CrashKeepsStore
<1>5. CASE Review
  BY <1>5, ReviewKeepsStore
<1> QED
  BY <1>1, <1>2, <1>3, <1>4, <1>5 DEF UploadNext

\* Through every interleaving, failure and kill, a running upload's key, files
\* and row are its own (SqlApplicantDocumentService.upload over the store).
THEOREM StoreHolds == UploadSpec => []StoreInv
<1>1. UploadInit => StoreInv
  BY StoreInitially
<1>2. StoreInv /\ [UploadNext]_uploadVars => StoreInv'
  BY StoreStep
<1> QED
  BY <1>1, <1>2, PTL DEF UploadSpec

\* A version the applicant was told about can always be downloaded, for any
\* number of workers, uploads and crashes.
THEOREM AnsweredStaysReadable == UploadSpec => []AnsweredUploadIsReadable
<1>1. StoreInv => AnsweredUploadIsReadable
  BY DEF StoreInv
<1> QED
  BY <1>1, StoreHolds, PTL

\* Every file of the store has a row, a running upload or an interrupted one.
THEOREM LeftoversAreInterrupted == UploadSpec => []LeftoversOnlyAfterCrash
<1>1. StoreInv => LeftoversOnlyAfterCrash
  BY DEF StoreInv
<1> QED
  BY <1>1, StoreHolds, PTL
=============================================================================
