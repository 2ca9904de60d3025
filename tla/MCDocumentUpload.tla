-------------------------- MODULE MCDocumentUpload --------------------------
(* Small instances of the upload path for TLC. *)
EXTENDS DocumentUpload, TLC

Symmetry == Permutations(Workers) \cup Permutations(Contents)
=============================================================================
