-------------------------- MODULE MCInternalReview --------------------------
(* A small instance of the internal side of a call for TLC. *)
EXTENDS InternalReview

CONSTANTS ricky, magda, adriano, x1, x2, p1, p2

\* The roster of migration 049.
Order == <<ricky, magda, adriano>>

\* The second page of the second text is a recommendation.
Letters == {<<x2, p2>>}
=============================================================================
