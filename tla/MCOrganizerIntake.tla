-------------------------- MODULE MCOrganizerIntake --------------------------
(***************************************************************************)
(* OrganizerIntake with two voters: va has two different packages, vb one. *)
(* One more package does not verify.                                       *)
(***************************************************************************)
EXTENDS OrganizerIntake

CONSTANTS a1, a2, b1, bad, va, vb, c1

MCPackages == {a1, a2, b1, bad}
MCValidPackages == {a1, a2, b1}
MCVoters == {va, vb}
MCNullifierOf == (a1 :> va) @@ (a2 :> va) @@ (b1 :> vb)
MCCandidates == {c1}
MCSelectionsOf == [p \in MCValidPackages |-> {c1}]
=============================================================================
