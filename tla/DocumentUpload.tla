--------------------------- MODULE DocumentUpload ---------------------------
(***************************************************************************)
(* Applicant uploads: the upload route and SqlApplicantDocumentService.    *)
(* upload over EncryptedObjectStore.  ehf.service starts two worker        *)
(* processes.  The route is a coroutine that runs upload() to its end on   *)
(* the event loop, so a process has one upload at a time and its store     *)
(* lock is never contended; uploads of different processes interleave.     *)
(* An upload copies the file to quarantine, validates and scans it, looks  *)
(* the plaintext up in the process's set of hashes, writes and renames the *)
(* encrypted object, registers it in the database and removes the object   *)
(* again if the registration raised.                                       *)
(*                                                                         *)
(* What can go wrong between two steps: another upload takes the slot, the *)
(* database refuses or disappears, the commit succeeds but its answer is   *)
(* lost, the worker is killed and restarted with an empty set of hashes.   *)
(* Files survive a crash; the open transaction does not.  The weakened     *)
(* twin above a definition is a mutant of it (README, Mutants).            *)
(***************************************************************************)
EXTENDS DocumentSlots

CONSTANTS
    Contents,       \* plaintexts an applicant may upload
    Workers,        \* worker processes
    MaxUploads,     \* bound on the number of uploads started
    MaxCrashes      \* bound on the number of crashes of a worker

ASSUME UploadBounds == MaxUploads \in Nat /\ MaxCrashes \in Nat

VARIABLES
    upload,         \* upload[w]: the upload the process is running
    hashes,         \* hashes[w]: plaintexts the process has registered
    files,          \* files of the store: quarantine, temporary, object
    stored,         \* StoredObject rows, with the answer the applicant got
    started,        \* uploads started so far; also the source of object keys
    crashes,        \* crashes[w]: how often the process was killed
    interrupted     \* object keys of the uploads that a crash ended

storeVars == <<hashes, files>>
historyVars == <<started, crashes, interrupted>>
uploadVars == <<clock, slotVars, upload, storeVars, stored, historyVars>>

\* object_key is secrets.token_hex(16): every upload draws its own.
KeyOfContent(n, content) == content
ObjectKey(n, content) == n

NoUpload == [step |-> "idle"]
Busy == {w \in Workers : upload[w].step # "idle"}
Key(w) == ObjectKey(upload[w].number, upload[w].content)
Quarantined(w) == [dir |-> "q", key |-> Key(w), content |-> upload[w].content]
Temporary(w) == [dir |-> "tmp", key |-> Key(w), content |-> upload[w].content]
Object(w) == [dir |-> "o", key |-> Key(w), content |-> upload[w].content]

UploadInit ==
    /\ clock = ImportedVersion
    /\ SlotsInit
    /\ upload = [w \in Workers |-> NoUpload]
    /\ hashes = [w \in Workers |-> {}]
    /\ files = {}
    /\ stored = {}
    /\ started = 0
    /\ crashes = [w \in Workers |-> 0]
    /\ interrupted = {}

-----------------------------------------------------------------------------
\* upload() finds the slot open with the row version the page showed.
StartUpload(w, d, content) ==
    /\ w \notin Busy
    /\ started < MaxUploads
    /\ slot[d].mode \in {"MISSING", "REPLACEMENT"}
    /\ started' = started + 1
    /\ upload' = [upload EXCEPT ![w] =
         [step |-> "admitted", slot |-> d, rv |-> slot[d].rv,
          content |-> content, number |-> started']]
    /\ UNCHANGED <<clock, slotVars, storeVars, stored, crashes, interrupted>>

Goto(w, step) == upload' = [upload EXCEPT ![w].step = step]

\* ingest_file: the private copy; validation and scan follow.
Quarantine(w) ==
    /\ upload[w].step = "admitted"
    /\ Goto(w, "quarantined")
    /\ files' = files \cup {Quarantined(w)}
    /\ UNCHANGED <<clock, slotVars, hashes, stored, historyVars>>

\* The end of every upload that is not killed, `finally: quarantine.unlink';
\* `left' are the files that remain otherwise.
Finish(w, left) ==
    /\ upload' = [upload EXCEPT ![w] = NoUpload]
    /\ files' = left \ {Quarantined(w)}

\* The validator, the scanner or the copy raises.
Refuse(w) ==
    /\ upload[w].step \in {"admitted", "quarantined"}
    /\ Finish(w, files)
    /\ UNCHANGED <<clock, slotVars, hashes, stored, historyVars>>

\* store_bytes looks the plaintext up; DuplicatePlaintextError ends the upload.
StoreBytes(w) ==
    /\ upload[w].step = "quarantined"
    /\ IF upload[w].content \in hashes[w]
         THEN Finish(w, files)
         ELSE Goto(w, "storing") /\ UNCHANGED files
    /\ UNCHANGED <<clock, slotVars, hashes, stored, historyVars>>

\* _encrypt_and_promote: the fsynced temporary file ...
WriteTemporary(w) ==
    /\ upload[w].step = "storing"
    /\ Goto(w, "written")
    /\ files' = files \cup {Temporary(w)}
    /\ UNCHANGED <<clock, slotVars, hashes, stored, historyVars>>

\* ... is renamed to the object, or both are unlinked on an OSError.
Promote(w) ==
    /\ upload[w].step = "written"
    /\ \/ /\ Goto(w, "promoted")
          /\ files' = (files \ {Temporary(w)}) \cup {Object(w)}
       \/ Finish(w, files \ {Temporary(w), Object(w)})
    /\ UNCHANGED <<clock, slotVars, hashes, stored, historyVars>>

\* register_submission: one transaction; the new row is named by its version.
Register(w) ==
    /\ upload[w].step = "promoted"
    /\ RegisterApplicantDocumentSubmission(upload[w].slot, upload[w].rv)
    /\ stored' = stored \cup
         {[version |-> clock', key |-> Key(w), content |-> upload[w].content,
           answered |-> FALSE]}
    /\ Goto(w, "registered")
    /\ UNCHANGED <<storeVars, historyVars>>

\* register_submission raises: the procedure refused (52650), the database
\* was unreachable, or the commit went through and its answer was lost.
RegistrationRaises(w) ==
    /\ upload[w].step \in {"promoted", "registered"}
    /\ Goto(w, "raised")
    /\ UNCHANGED <<clock, slotVars, storeVars, stored, historyVars>>

\* except Exception: path_for(object_key).unlink(missing_ok=True)
ObjectKept(w) == files
WithoutObject(w) == files \ {Object(w)}

RemoveObject(w) ==
    /\ upload[w].step = "raised"
    /\ Finish(w, WithoutObject(w))
    /\ UNCHANGED <<clock, slotVars, hashes, stored, historyVars>>

HashesWith(w) == [hashes EXCEPT ![w] = @ \cup {upload[w].content}]

\* The hash is remembered and the applicant answered.
Acknowledge(w) ==
    LET mine == {x \in stored : x.key = Key(w)} IN
    /\ upload[w].step = "registered"
    /\ hashes' = HashesWith(w)
    /\ stored' = (stored \ mine) \cup {[x EXCEPT !.answered = TRUE] : x \in mine}
    /\ Finish(w, files)
    /\ UNCHANGED <<clock, slotVars, historyVars>>

\* The process is killed and started again; its files stay.
Crash(w) ==
    /\ crashes[w] < MaxCrashes
    /\ crashes' = [crashes EXCEPT ![w] = @ + 1]
    /\ interrupted' = IF w \in Busy THEN interrupted \cup {Key(w)} ELSE interrupted
    /\ upload' = [upload EXCEPT ![w] = NoUpload]
    /\ hashes' = [hashes EXCEPT ![w] = {}]
    /\ UNCHANGED <<clock, slotVars, files, stored, started>>

\* A reviewer decides on a pending upload.
Review ==
    /\ \E row \in submissions, decision \in {"ACCEPTED", "REJECTED"} :
          ReviewApplicantDocumentSubmission(row, decision)
    /\ UNCHANGED <<upload, storeVars, stored, historyVars>>

UploadStep(w) ==
    \/ Quarantine(w)
    \/ Refuse(w)
    \/ StoreBytes(w)
    \/ WriteTemporary(w)
    \/ Promote(w)
    \/ Register(w)
    \/ RegistrationRaises(w)
    \/ RemoveObject(w)
    \/ Acknowledge(w)

UploadNext ==
    \/ \E w \in Workers, d \in Slots, content \in Contents :
          StartUpload(w, d, content)
    \/ \E w \in Workers : UploadStep(w)
    \/ \E w \in Workers : Crash(w)
    \/ Review

UploadSpec == UploadInit /\ [][UploadNext]_uploadVars

-----------------------------------------------------------------------------
\* A version the applicant was told about can always be downloaded: its
\* object is on disk, whatever other uploads failed, were cleaned up or died.
AnsweredUploadIsReadable ==
    \A x \in stored : x.answered =>
        [dir |-> "o", key |-> x.key, content |-> x.content] \in files

\* Nothing is left behind by an upload that ended: every file belongs to a
\* row, to an upload still running, or to one that a crash interrupted (which
\* is what cleanup_temporary_files and an operator have to look for).
LeftoversOnlyAfterCrash ==
    \A f \in files :
        \/ \E x \in stored : f.dir = "o" /\ f.key = x.key
        \/ \E w \in Busy : f.key = Key(w)
        \/ f.key \in interrupted

\* A failed registration removes only an object that was not registered.
RegisteredObjectIsStored ==
    \A x \in stored : [dir |-> "o", key |-> x.key, content |-> x.content] \in files

-----------------------------------------------------------------------------
(* Why the first two hold: the key of a running upload is its own,         *)
(* so no other upload touches its files or its row.                        *)

UploadSteps ==
    {"admitted", "quarantined", "storing", "written", "promoted", "registered", "raised"}

Uploads ==
    [step : UploadSteps, slot : Slots, rv : 0..MaxClock,
     content : Contents, number : 1..started]

UploadTypeOK ==
    /\ clock \in 0..MaxClock
    /\ SlotsTypeOK
    /\ upload \in [Workers -> {NoUpload} \cup Uploads]
    /\ hashes \in [Workers -> SUBSET Contents]
    /\ files \subseteq [dir : {"q", "tmp", "o"}, key : 1..started, content : Contents]
    /\ stored \subseteq [version : 0..MaxClock, key : 1..started,
                         content : Contents, answered : BOOLEAN]
    /\ started \in 0..MaxUploads
    /\ crashes \in [Workers -> 0..MaxCrashes]
    /\ interrupted \subseteq 1..started

\* The files a running upload has written and not yet removed.
FilesOf(w) ==
    LET step == upload[w].step IN
    (IF step = "admitted" THEN {} ELSE {Quarantined(w)})
        \cup (IF step = "written" THEN {Temporary(w)} ELSE {})
        \cup (IF step \in {"promoted", "registered", "raised"} THEN {Object(w)} ELSE {})

\* Two uploads never share a key, and none takes up that of a killed one.
UploadsOwnTheirKeys ==
    \A w \in Busy :
        /\ Key(w) \notin interrupted
        /\ \A v \in Busy : Key(v) = Key(w) => v = w

\* The store holds of a running upload exactly what its own steps wrote.
FilesFollowTheSteps ==
    \A w \in Busy : {f \in files : f.key = Key(w)} = FilesOf(w)

\* A running upload has a row only once it registered; the row is its own
\* and nobody has been told of it.
RowsFollowTheSteps ==
    \A w \in Busy :
        /\ upload[w].step = "registered" => \E x \in stored : x.key = Key(w)
        /\ \A x \in stored : x.key = Key(w) =>
              /\ upload[w].step \in {"registered", "raised"}
              /\ x.content = upload[w].content
              /\ ~x.answered

\* The store and the rows agree through every interleaving, failure and kill
\* of the workers: the inductive invariant of the upload path.
StoreInv ==
    /\ UploadTypeOK
    /\ UploadsOwnTheirKeys
    /\ FilesFollowTheSteps
    /\ RowsFollowTheSteps
    /\ AnsweredUploadIsReadable
    /\ LeftoversOnlyAfterCrash
=============================================================================
