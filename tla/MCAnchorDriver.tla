--------------------------- MODULE MCAnchorDriver ---------------------------
(***************************************************************************)
(* Two drivers for AnchorDriver, on one snapshot path or on two.           *)
(***************************************************************************)
EXTENDS AnchorDriver

CONSTANTS d1, d2, p1, p2

OnePath == [d \in Drivers |-> p1]
TwoPaths == [d \in Drivers |-> IF d = d1 THEN p1 ELSE p2]

=============================================================================
