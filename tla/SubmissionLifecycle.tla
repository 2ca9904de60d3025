------------------------- MODULE SubmissionLifecycle -------------------------
(***************************************************************************)
(* What the submission workflow promises, without requests, versions or    *)
(* clocks: an application is drafted, submitted as a whole, then approved  *)
(* as submitted or returned for ONE section; a resubmission changes that   *)
(* section and nothing else.                                               *)
(***************************************************************************)
CONSTANTS Sections, Contents, NoContent

VARIABLES
    phase,          \* where the application stands
    submission,     \* the content last submitted, by section
    returned,       \* the section to correct, while phase = "returned"
    record          \* the approved application record

lifecycleVars == <<phase, submission, returned, record>>

Nothing == [s \in Sections |-> NoContent]

Init ==
    /\ phase = "drafting"
    /\ submission = Nothing
    /\ returned = {}
    /\ record = Nothing

Submit(content) ==
    /\ phase = "drafting"
    /\ phase' = "submitted"
    /\ submission' = content
    /\ UNCHANGED <<returned, record>>

Resubmit(content) ==
    /\ phase = "returned"
    /\ \A s \in Sections : content[s] = submission[s] <=> s \notin returned
    /\ phase' = "submitted"
    /\ submission' = content
    /\ returned' = {}
    /\ UNCHANGED record

Return(s) ==
    /\ phase = "submitted"
    /\ phase' = "returned"
    /\ returned' = {s}
    /\ UNCHANGED <<submission, record>>

Approve ==
    /\ phase = "submitted"
    /\ phase' = "approved"
    /\ record' = submission
    /\ UNCHANGED <<submission, returned>>

Next ==
    \/ \E content \in [Sections -> Contents] : Submit(content) \/ Resubmit(content)
    \/ \E s \in Sections : Return(s)
    \/ Approve

Spec == Init /\ [][Next]_lifecycleVars
=============================================================================
