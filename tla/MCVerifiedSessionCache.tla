----------------------- MODULE MCVerifiedSessionCache -----------------------
(***************************************************************************)
(* VerifiedSessionCache with two threads that resume one workspace while   *)
(* two commands commit to it or delete it.  The cache holds one session,   *)
(* so the session of an old head and that of a new one push each other out.*)
(***************************************************************************)
EXTENDS VerifiedSessionCache

=============================================================================
