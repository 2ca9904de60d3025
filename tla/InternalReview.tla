--------------------------- MODULE InternalReview ---------------------------
(***************************************************************************)
(* The internal side of a call: its evaluation, the users' navigation      *)
(* preference and the reviewed extracts.  The three share no table, so a   *)
(* behaviour exercises one of them.                                        *)
(***************************************************************************)
EXTENDS CallEvaluation, CallNavigation, ReviewArtifacts

VARIABLE part

vars == <<part, evaluationVars, navigationVars, artifactVars>>

Init ==
  /\ part \in {"evaluation", "navigation", "artifacts"}
  /\ EvaluationInit /\ NavigationInit /\ ArtifactInit

Next ==
  \/ part = "evaluation" /\ EvaluationNext /\ UNCHANGED <<part, navigationVars, artifactVars>>
  \/ part = "navigation" /\ NavigationNext /\ UNCHANGED <<part, evaluationVars, artifactVars>>
  \/ part = "artifacts" /\ ArtifactNext /\ UNCHANGED <<part, evaluationVars, navigationVars>>

Spec == Init /\ [][Next]_vars

\* In every interleaving of trustees, tabs, importers and faults: the inductive
\* invariants of the three parts.
ReviewInv == EvaluationInv /\ NavigationInv /\ ArtifactInv
=============================================================================
