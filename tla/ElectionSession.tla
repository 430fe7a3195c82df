---------------------------- MODULE ElectionSession ----------------------------
(***************************************************************************)
(* One organizer session (GuiElectionSessionV1): the lifecycle commands    *)
(* and the two ways a package enters it, file intake while OPEN and        *)
(* reconciliation of the durable inbox while OPEN or CLOSED.               *)
(***************************************************************************)
EXTENDS ElectionOps

CONSTANTS
    NoVote,         \* the empty register slot of the abstract specification
    MaxPackages     \* bound on the packages one session processes

ASSUME SessionAssumption == NoVote \notin ValidPackages /\ MaxPackages \in Nat

VARIABLE session

Init == session = NewSession

OpenVoting ==
    /\ CanTransition(session, "FROZEN")
    /\ session' = Transition(session, "OPEN")

CloseVoting ==
    /\ CanTransition(session, "OPEN")
    /\ session' = Transition(session, "CLOSED")

MarkVerified ==
    /\ CanTransition(session, "CLOSED")
    /\ session' = Transition(session, "VERIFIED")

Finalize ==
    /\ CanTransition(session, "VERIFIED")
    /\ session' = Transition(session, "FINALIZED")

IntakePackage(p) ==
    /\ CanIntake(session)
    /\ Len(session.packages) < MaxPackages
    /\ session' = Process(session, p)

ReconcileFromInbox(p) ==
    /\ CanReconcile(session)
    /\ Len(session.packages) < MaxPackages
    /\ session' = Reconcile(session, p)

Next ==
    \/ OpenVoting
    \/ CloseVoting
    \/ MarkVerified
    \/ Finalize
    \/ \E p \in Packages : IntakePackage(p) \/ ReconcileFromInbox(p)

Spec == Init /\ [][Next]_session

-----------------------------------------------------------------------------
Sessions ==
    [lifecycle  : LifecycleStates,
     seen       : SUBSET Voters,
     ledger     : Seq(ValidPackages),
     transcript : Seq([digest : Packages, outcome : Outcomes]),
     packages   : Seq(Packages),
     index      : [Packages -> [sequence : Nat, outcome : Outcomes \cup {"NONE"}]]]

\* The session record is well formed and holds no more packages than the bound.
TypeOK == session \in Sessions /\ Len(session.packages) <= MaxPackages

\* No two accepted ballots carry one nullifier, and the nullifier set of the
\* ledger is exactly the nullifiers of its ballots (accept_verified).
OneVotePerNullifier ==
    /\ session.seen = {NullifierOf[session.ledger[i]] : i \in DOMAIN session.ledger}
    /\ \A i, j \in DOMAIN session.ledger :
          NullifierOf[session.ledger[i]] = NullifierOf[session.ledger[j]] => i = j

\* The positions of the packages the first-valid rule counts: valid, and no
\* earlier valid package has the nullifier.
FirstValidPositions(packages) ==
    {i \in DOMAIN packages :
        /\ packages[i] \in ValidPackages
        /\ \A j \in 1..(i - 1) :
              packages[j] \in ValidPackages => NullifierOf[packages[j]] # NullifierOf[packages[i]]}

\* The ledger, grown one package at a time over file intake and inbox drains,
\* is the first-valid-ballot-counts rule applied to the whole package list
\* (docs: "first valid ballot for this nullifier already counts"), in order.
FirstValidCounts ==
    LET positions == SetToSortSeq(FirstValidPositions(session.packages), <)
    IN  session.ledger = [i \in DOMAIN positions |-> session.packages[positions[i]]]

\* Replaying the durable snapshot rebuilds this very session: ledger, transcript
\* order, nullifiers and index (from_durable_snapshot of to_durable_snapshot),
\* also for packages that were drained after close.
ReplayReconstructs ==
    /\ SnapshotLoads(ToDurableSnapshot(session))
    /\ FromDurableSnapshot(ToDurableSnapshot(session)) = session

\* An inbox lookup never meets the GUI_PRIVATE_INTAKE_DIGEST_INDEX_INCONSISTENT
\* error: every index entry points at its own decision, the first for that
\* digest, and every decided package has one.
DigestIndexConsistent ==
    /\ \A p \in Packages :
          session.index[p] # NoIndexEntry => IndexEntryAgrees(session, p)
    /\ \A i \in DOMAIN session.transcript :
          LET entry == session.index[session.transcript[i].digest]
          IN  entry # NoIndexEntry /\ entry.sequence <= i

\* Approvals of a candidate counted directly over the voters of the register.
ReferenceCount(c) ==
    Cardinality({v \in Voters :
        \E i \in DOMAIN session.ledger :
            NullifierOf[session.ledger[i]] = v /\ c \in SelectionsOf[session.ledger[i]]})

\* Once a tally may be taken it agrees with counting the voters who approved
\* each candidate, it never counts more ballots than there are voters, and the
\* reported leaders are the approved candidates no other candidate beats
\* (ApprovalTally::from_ballots, leading_result).
TallyCountsVoters ==
    CanTally(session) =>
        LET tally == Tally(session)
        IN  /\ \A c \in Candidates : tally.counts[c] = ReferenceCount(c)
            /\ tally.ballots <= Cardinality(Voters)
            /\ tally.abstentions <= tally.ballots
            /\ LeadingCandidates(tally) =
                  {c \in Candidates : ReferenceCount(c) > 0
                      /\ \A d \in Candidates : ReferenceCount(d) <= ReferenceCount(c)}

\* A step from VERIFIED on changes neither ledger, transcript nor packages, and
\* no step takes an accepted ballot back or moves the lifecycle backwards.
SealedStep ==
    /\ session.lifecycle \in {"VERIFIED", "FINALIZED"} =>
          /\ session'.ledger = session.ledger
          /\ session'.transcript = session.transcript
          /\ session'.packages = session.packages
    /\ Len(session.ledger) <= Len(session'.ledger)
    /\ \A i \in DOMAIN session.ledger : session'.ledger[i] = session.ledger[i]
    /\ LifecycleRank[session.lifecycle] <= LifecycleRank[session'.lifecycle]

\* Results are sealed from VERIFIED on and the ledger is append-only
\* (ensure_inbox_reconciliation_lifecycle, accept_verified, transition).
SealedAndAppendOnly == [][SealedStep]_session

-----------------------------------------------------------------------------
\* The abstract phase of a lifecycle state.
PhaseOf ==
    [FROZEN |-> "setup", OPEN |-> "voting", CLOSED |-> "draining",
     VERIFIED |-> "sealed", FINALIZED |-> "sealed"]

\* The accepted package that carries nullifier v.
LedgerVote(s, v) ==
    CHOOSE p \in ValidPackages :
        NullifierOf[p] = v /\ \E i \in DOMAIN s.ledger : s.ledger[i] = p

CountedVote(s) ==
    [v \in Voters |-> IF v \in s.seen THEN LedgerVote(s, v) ELSE NoVote]

Register == INSTANCE ElectionRegister
                WITH Votes <- ValidPackages, VoterOf <- NullifierOf,
                     phase <- PhaseOf[session.lifecycle],
                     counted <- CountedVote(session)

\* The session implements the register: one slot per voter, filled once, only
\* while voting is open or draining.
ImplementsRegister == Register!Spec

=============================================================================
