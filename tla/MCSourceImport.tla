--------------------------- MODULE MCSourceImport ---------------------------
(* A small instance of the source import for TLC. *)
EXTENDS SourceImport, TLC

CONSTANTS c1, c2, c3

\* The folder of the first applicant holds both paths, that of the second is
\* empty; c1 and c2 are documents of one type.
Folders == 1 :> 1 @@ 2 :> 1
Types == c1 :> "CV" @@ c2 :> "CV" @@ c3 :> "OTHER"

\* Neither the register's values nor the two contents of one type differ.
Symmetry == Permutations(RowValues) \cup Permutations({c1, c2})
=============================================================================
