--------------------------- MODULE DocumentSlots ---------------------------
(***************************************************************************)
(* The applicant-visible document slots of ONE application: the tables     *)
(* DocumentSlot, DocumentVersion and ApplicantDocumentSubmission, and the  *)
(* two stored procedures that write them, each one database transaction    *)
(* that locks the row it decides on (UPDLOCK, HOLDLOCK).                   *)
(*                                                                         *)
(* `clock' is the database's write counter.  It stands for both rowversion *)
(* (strictly increasing, database-wide) and SYSUTCDATETIME (compared only  *)
(* to order writes); the version a transaction inserts is named by the     *)
(* tick of the transaction.                                                *)
(***************************************************************************)
EXTENDS Naturals

CONSTANTS
    Slots,          \* applicant-visible slots of the application
    RequiredSlots,  \* those with RequiredForCompletion = 1
    MaxClock        \* bound on the number of database writes

ASSUME SlotsAssumption == RequiredSlots \subseteq Slots
ASSUME MaxClockAssumption == MaxClock \in Nat \ {0}

VARIABLES
    clock,          \* database write counter
    slot,           \* slot[d]: upload mode, active version, row version
    submissions     \* rows of ApplicantDocumentSubmission

slotVars == <<slot, submissions>>

NoVersion == 0        \* ActiveDocumentVersionId IS NULL
ImportedVersion == 1  \* the version the importer stored before the portal opened

UploadModes == {"MISSING", "REPLACEMENT", "CLOSED"}

SlotRows == [mode : UploadModes, active : 0..MaxClock, rv : 0..MaxClock]

SubmissionRows ==
    [slot : Slots, version : 0..MaxClock,
     status : {"PENDING", "ACCEPTED", "REJECTED"}]

SlotsTypeOK ==
    /\ slot \in [Slots -> SlotRows]
    /\ submissions \subseteq SubmissionRows

-----------------------------------------------------------------------------
(* A slot leaves preparation closed, with the imported document or without *)
(* one, or opened for a document the applicant still owes.                 *)

SlotsInit ==
    /\ slot \in [Slots -> { [mode |-> "CLOSED",  active |-> ImportedVersion, rv |-> 0],
                            [mode |-> "CLOSED",  active |-> NoVersion,       rv |-> 0],
                            [mode |-> "MISSING", active |-> NoVersion,       rv |-> 0] }]
    /\ submissions = {}

\* The slot takes uploads and is the one the upload page showed.
UploadOpenForVersion(d, expected) == slot[d].rv = expected
UploadOpen(d, expected) ==
    /\ slot[d].mode \in {"MISSING", "REPLACEMENT"}
    /\ slot[d].rv = expected

(* RegisterApplicantDocumentSubmission: the stored object, its UNREVIEWED  *)
(* version and the PENDING submission are inserted and the slot closes.    *)
RegisterApplicantDocumentSubmission(d, expected) ==
    /\ clock < MaxClock
    /\ UploadOpen(d, expected)
    /\ clock' = clock + 1
    /\ submissions' = submissions \cup
                        {[slot |-> d, version |-> clock', status |-> "PENDING"]}
    /\ slot' = [slot EXCEPT ![d].mode = "CLOSED", ![d].rv = clock']

\* Only an upload that awaits review can be decided.
ReviewableAgain(row) == TRUE
Reviewable(row) == row.status = "PENDING"

Reviewed(row, decision) ==
    (submissions \ {row}) \cup {[row EXCEPT !.status = decision]}

(* ReviewApplicantDocumentSubmission: only a PENDING row is reviewed; the  *)
(* accepted version becomes the slot's active one, a rejected one reopens  *)
(* the slot for a replacement.                                             *)
ReviewApplicantDocumentSubmission(row, decision) ==
    /\ clock < MaxClock
    /\ Reviewable(row)
    /\ clock' = clock + 1
    /\ submissions' = Reviewed(row, decision)
    /\ slot' = IF decision = "ACCEPTED"
                 THEN [slot EXCEPT ![row.slot].active = row.version,
                                   ![row.slot].rv = clock']
                 ELSE [slot EXCEPT ![row.slot].mode = "REPLACEMENT",
                                   ![row.slot].rv = clock']

SlotsNext ==
    \/ \E d \in Slots, expected \in 0..MaxClock :
          RegisterApplicantDocumentSubmission(d, expected)
    \/ \E row \in submissions, decision \in {"ACCEPTED", "REJECTED"} :
          ReviewApplicantDocumentSubmission(row, decision)

-----------------------------------------------------------------------------
(* What finalization reads of the slots.                                   *)

\* A PENDING or REJECTED submission with no later one for its slot.
Unresolved(row) ==
    /\ row.status \in {"PENDING", "REJECTED"}
    /\ \A later \in submissions :
          later.slot = row.slot => later.version <= row.version

\* GetApplicantFinalDocumentIssues: nothing is open, unresolved or missing.
NoDocumentIssues ==
    /\ \A d \in Slots : slot[d].mode = "CLOSED"
    /\ \A row \in submissions : ~Unresolved(row)
    /\ \A d \in RequiredSlots : slot[d].active # NoVersion

\* GetApplicantFinalDocuments: the active version of every filled slot.
FinalDocuments == [d \in Slots |-> slot[d].active]

\* ValidateApplicantFinalDocuments: no issue, and the manifest lists
\* exactly the active versions.
ValidateApplicantFinalDocuments(documents) ==
    /\ NoDocumentIssues
    /\ documents = FinalDocuments

-----------------------------------------------------------------------------
(* Invariants of the slots.                                                *)

\* Between two reviews a slot carries at most one upload awaiting review,
\* and it is closed while it does: what makes the slot's upload mode a lock
\* although ReviewApplicantDocumentSubmission never looks at it.
OnePendingUploadPerSlot ==
    \A row \in submissions : row.status = "PENDING" =>
        /\ slot[row.slot].mode = "CLOSED"
        /\ \A other \in submissions :
              other.slot = row.slot => other = row \/ other.version < row.version

\* The document shown as current was imported or passed a review: no
\* interleaving of uploads and reviews activates a pending or rejected file.
ActiveVersionWasAccepted ==
    \A d \in Slots :
        slot[d].active \in {NoVersion, ImportedVersion}
            \cup {row.version : row \in {x \in submissions :
                                    x.slot = d /\ x.status = "ACCEPTED"}}
=============================================================================
