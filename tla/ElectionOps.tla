----------------------------- MODULE ElectionOps -----------------------------
(***************************************************************************)
(* The organizer's election session as a value, and the operations on it.  *)
(*                                                                         *)
(* A session is a record of                                                *)
(*   lifecycle   the append-only ElectionLifecycleV1 state,                *)
(*   seen        the nullifiers of BallotAcceptanceLedger,                 *)
(*   ledger      the accepted ballots, in acceptance order,                *)
(*   transcript  one decision per processed package, in intake order,      *)
(*   packages    the exact bytes of every processed package,               *)
(*   index       the first decision per package digest (derived).          *)
(*                                                                         *)
(* A package stands for its canonical bytes and so for its BLAKE3 digest   *)
(* too (two packages with one digest are one package).  ValidPackages are  *)
(* the packages that pass decoding, manifest binding and proof             *)
(* verification; the proof determines the voter's nullifier and the        *)
(* payload the selections.  The operators are values, not actions, because *)
(* the code clones a session, mutates the clone and installs it later: the *)
(* modules that compose components hold several copies at once.            *)
(***************************************************************************)
EXTENDS Naturals, Sequences, FiniteSets, SequencesExt

CONSTANTS
    Packages,       \* canonical ballot packages
    ValidPackages,  \* those whose binding and proof verify
    Voters,         \* registry-scoped nullifiers
    NullifierOf,    \* the nullifier a valid package's proof carries
    Candidates,     \* the frozen candidate set
    SelectionsOf    \* the candidates a valid package approves

ASSUME PackagesAssumption ==
    /\ ValidPackages \subseteq Packages
    /\ NullifierOf \in [ValidPackages -> Voters]
    /\ SelectionsOf \in [ValidPackages -> SUBSET Candidates]

LifecycleRank ==
    [FROZEN |-> 1, OPEN |-> 2, CLOSED |-> 3, VERIFIED |-> 4, FINALIZED |-> 5]

LifecycleStates == {"FROZEN", "OPEN", "CLOSED", "VERIFIED", "FINALIZED"}

Outcomes == {"ACCEPTED", "DUPLICATE", "NOT_OPEN", "INVALID"}

NoIndexEntry == [sequence |-> 0, outcome |-> "NONE"]

\* GuiElectionSessionV1::new: the lifecycle is frozen at once.
NewSession ==
    [lifecycle  |-> "FROZEN",
     seen       |-> {},
     ledger     |-> <<>>,
     transcript |-> <<>>,
     packages   |-> <<>>,
     index      |-> [p \in Packages |-> NoIndexEntry]]

-----------------------------------------------------------------------------
\* Faulty variant: a transition that does not check the state it leaves.
CanTransitionFromAny(s, from) == s.lifecycle \in LifecycleStates

\* ElectionLifecycleV1::transition
CanTransition(s, from) == s.lifecycle = from

Transition(s, to) == [s EXCEPT !.lifecycle = to]

\* Faulty variant: no drain window after close.
AdmitsOnlyWhileOpen(s) == s.lifecycle = "OPEN"

\* ElectionLifecycleV1::validate_ballot_statement: open, or the drain window.
AdmitsStatements(s) == s.lifecycle \in {"OPEN", "CLOSED"}

\* Faulty variant: the nullifier is not looked up.
IngestIgnoringNullifier(s, p) ==
    IF p \notin ValidPackages THEN "INVALID"
    ELSE IF ~AdmitsStatements(s) THEN "NOT_OPEN"
    ELSE "ACCEPTED"

\* ingest_approval_ballot_package_v1 and BallotAcceptanceLedger::accept_verified:
\* proof first, then the lifecycle, then the nullifier.
IngestOutcome(s, p) ==
    IF p \notin ValidPackages THEN "INVALID"
    ELSE IF ~AdmitsStatements(s) THEN "NOT_OPEN"
    ELSE IF NullifierOf[p] \in s.seen THEN "DUPLICATE"
    ELSE "ACCEPTED"

\* Faulty variant: the index keeps the latest decision.
IndexLatestDecision(index, p, entry) == [index EXCEPT ![p] = entry]

\* record_private_intake_digest_index_entry keeps the first decision.
IndexDecision(index, p, entry) ==
    IF index[p] = NoIndexEntry THEN [index EXCEPT ![p] = entry] ELSE index

\* Faulty variant: the ballot is pushed whatever the decision.
ProcessPushingAlways(s, p) ==
    [s EXCEPT !.ledger = Append(@, p), !.packages = Append(@, p)]

\* Faulty variant: only accepted packages are kept for replay.
ProcessKeepingAccepted(s, p) ==
    LET outcome == IngestOutcome(s, p)
        accepted == outcome = "ACCEPTED"
        sequence == Len(s.transcript) + 1
    IN  [s EXCEPT
            !.seen = IF accepted THEN @ \cup {NullifierOf[p]} ELSE @,
            !.ledger = IF accepted THEN Append(@, p) ELSE @,
            !.transcript = Append(@, [digest |-> p, outcome |-> outcome]),
            !.packages = IF accepted THEN Append(@, p) ELSE @,
            !.index = IndexDecision(@, p, [sequence |-> sequence, outcome |-> outcome])]

\* process_intake_package_with_digest: every processed package is recorded in
\* the transcript, the index and the package list; only an accepted one
\* reaches the ledger.
Process(s, p) ==
    LET outcome == IngestOutcome(s, p)
        accepted == outcome = "ACCEPTED"
        sequence == Len(s.transcript) + 1
    IN  [lifecycle  |-> s.lifecycle,
         seen       |-> IF accepted THEN s.seen \cup {NullifierOf[p]} ELSE s.seen,
         ledger     |-> IF accepted THEN Append(s.ledger, p) ELSE s.ledger,
         transcript |-> Append(s.transcript, [digest |-> p, outcome |-> outcome]),
         packages   |-> Append(s.packages, p),
         index      |-> IndexDecision(s.index, p,
                                      [sequence |-> sequence, outcome |-> outcome])]

\* intake_ballot_package_bytes refuses, recording nothing, unless OPEN.
CanIntake(s) == s.lifecycle = "OPEN"

\* Faulty variant: a verified election still reconciles.
ReconcilesAfterVerified(s) == s.lifecycle \in {"OPEN", "CLOSED", "VERIFIED"}

\* ensure_inbox_reconciliation_lifecycle
CanReconcile(s) == s.lifecycle \in {"OPEN", "CLOSED"}

\* indexed_inbox_reconciliation_result: whether the entry matches the decision
\* it points at; a mismatch is the INDEX_INCONSISTENT error.
IndexEntryAgrees(s, p) ==
    LET entry == s.index[p]
    IN  /\ entry.sequence \in DOMAIN s.transcript
        /\ s.transcript[entry.sequence] = [digest |-> p, outcome |-> entry.outcome]

\* reconcile_accepted_package_bytes_from_inbox: a package already decided is
\* answered from the index and leaves the session alone.
Reconcile(s, p) ==
    IF s.index[p] # NoIndexEntry THEN s ELSE Process(s, p)

\* update_sync_summary: newly_accepted counts only first acceptances.
NewlyAccepts(s, p) ==
    s.index[p] = NoIndexEntry /\ IngestOutcome(s, p) = "ACCEPTED"

-----------------------------------------------------------------------------
\* to_durable_snapshot: the lifecycle and the package bytes, nothing derived.
ToDurableSnapshot(s) == [lifecycle |-> s.lifecycle, packages |-> s.packages]

\* A FROZEN snapshot that holds packages is refused.
SnapshotLoads(d) == d.lifecycle = "FROZEN" => d.packages = <<>>

\* from_durable_snapshot: open a new session, replay every package through
\* live intake, then step the lifecycle to the recorded state.
FromDurableSnapshot(d) ==
    IF d.lifecycle = "FROZEN" THEN NewSession
    ELSE Transition(FoldLeft(Process, Transition(NewSession, "OPEN"), d.packages),
                    d.lifecycle)

-----------------------------------------------------------------------------
\* GuiElectionSessionV1::tally is refused before close.
CanTally(s) == s.lifecycle \in {"CLOSED", "VERIFIED", "FINALIZED"}

\* ApprovalTally::from_ballots over the accepted ballots.
EmptyTally ==
    [ballots |-> 0, abstentions |-> 0, counts |-> [c \in Candidates |-> 0]]

CountBallot(t, p) ==
    [ballots |-> t.ballots + 1,
     abstentions |-> t.abstentions + (IF SelectionsOf[p] = {} THEN 1 ELSE 0),
     counts |-> [c \in Candidates |->
                    t.counts[c] + (IF c \in SelectionsOf[p] THEN 1 ELSE 0)]]

Tally(s) == FoldLeft(CountBallot, EmptyTally, s.ledger)

\* Faulty variant: a zero maximum still has leaders.
LeadersWithoutApprovals(t) ==
    LET maximum == Max({t.counts[c] : c \in Candidates} \cup {0})
    IN  {c \in Candidates : t.counts[c] = maximum}

\* ApprovalTally::leading_result: the candidates at the maximum count, none when
\* that maximum is zero.
LeadingCandidates(t) ==
    LET maximum == Max({t.counts[c] : c \in Candidates} \cup {0})
    IN  IF maximum = 0 THEN {} ELSE {c \in Candidates : t.counts[c] = maximum}

=============================================================================
