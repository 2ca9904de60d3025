------------------------ MODULE MCApplicantIdentity ------------------------
EXTENDS ApplicantIdentity, TLC

MCIssued == [t \in Tokens |-> t]
MCExpires == [i \in Invitations |-> 3]
MCEvidence == [Emails ->
    [docs : 0..3, cv : BOOLEAN, family : BOOLEAN, given : BOOLEAN, initial : BOOLEAN]]
Symmetry == Permutations(Applications) \cup Permutations(Emails) \cup Permutations(Actors)
=============================================================================
