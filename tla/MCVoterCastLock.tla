-------------------------- MODULE MCVoterCastLock --------------------------
(***************************************************************************)
(* A small installation for VoterCastLock: one credential that can prepare *)
(* two ballots and one that can prepare a single one.                      *)
(***************************************************************************)
EXTENDS VoterCastLock, TLC

CONSTANTS k1, k2, b1, b2, c1

MCCredentials == {k1, k2}
MCPackages == {b1, b2, c1}
MCProver == [p \in MCPackages |-> IF p = c1 THEN k2 ELSE k1]
\* The two ballots of k1 are interchangeable.
MCSymmetry == Permutations({b1, b2})

=============================================================================
