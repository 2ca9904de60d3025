------------------------ MODULE MCSubmissionWorkflow ------------------------
(* Small instances of the submission workflow for TLC. *)
EXTENDS SubmissionWorkflow, TLC

\* The requests all carry the cookie of one session, or each its own.
OneSession == [r \in Requests |-> 1]
OwnSessions == [r \in Requests |-> r]

\* Requests are interchangeable, and so are the contents that final validation
\* accepts, in an instance whose promotion refuses none.
RequestSymmetry == Permutations(Requests)
Symmetry == RequestSymmetry \cup Permutations(Complete)
=============================================================================
