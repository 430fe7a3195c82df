-------------------------- MODULE MCElectionSession --------------------------
(***************************************************************************)
(* ElectionSession with two voters.  The first voter has two valid         *)
(* packages (a choice changed between two submissions), the second has an  *)
(* abstention; one package does not verify.                                *)
(***************************************************************************)
EXTENDS ElectionSession

CONSTANTS a1, a2, b0, bad, va, vb, alice, bob

MCPackages == {a1, a2, b0, bad}
MCValidPackages == {a1, a2, b0}
MCVoters == {va, vb}
MCNullifierOf == [p \in MCValidPackages |-> IF p = b0 THEN vb ELSE va]
MCCandidates == {alice, bob}
MCSelectionsOf ==
    [p \in MCValidPackages |-> CASE p = a1 -> {alice, bob} [] p = a2 -> {bob} [] p = b0 -> {}]

=============================================================================
