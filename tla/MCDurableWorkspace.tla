------------------------- MODULE MCDurableWorkspace -------------------------
(***************************************************************************)
(* DurableWorkspace with a draft, an open session before and after a       *)
(* ballot, a finalized one, and two clock readings.                        *)
(***************************************************************************)
EXTENDS DurableWorkspace

CONSTANTS draft, open0, open1, final

MCBodies == {draft, open0, open1, final}
MCRankOf ==
    [b \in MCBodies |-> CASE b = draft -> 0 [] b = final -> 5 [] OTHER -> 2]

=============================================================================
