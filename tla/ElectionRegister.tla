--------------------------- MODULE ElectionRegister ---------------------------
(***************************************************************************)
(* What an election promises, without ledgers, transcripts or packages:    *)
(* a register with one slot per voter that is filled at most once, while   *)
(* voting is open or draining, and never changes after the result is       *)
(* sealed.                                                                 *)
(***************************************************************************)
CONSTANTS
    Voters,
    Votes,
    VoterOf,  \* a function from Votes to Voters
    NoVote    \* not one of the Votes

VARIABLES phase, counted

Init ==
    /\ phase = "setup"
    /\ counted = [v \in Voters |-> NoVote]

StartVoting == phase = "setup" /\ phase' = "voting" /\ UNCHANGED counted

StopVoting == phase = "voting" /\ phase' = "draining" /\ UNCHANGED counted

Seal == phase = "draining" /\ phase' = "sealed" /\ UNCHANGED counted

Count(vote) ==
    /\ phase \in {"voting", "draining"}
    /\ counted[VoterOf[vote]] = NoVote
    /\ counted' = [counted EXCEPT ![VoterOf[vote]] = vote]
    /\ UNCHANGED phase

Next == StartVoting \/ StopVoting \/ Seal \/ \E vote \in Votes : Count(vote)

Spec == Init /\ [][Next]_<<phase, counted>>

=============================================================================
