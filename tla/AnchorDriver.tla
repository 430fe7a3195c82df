----------------------------- MODULE AnchorDriver -----------------------------
(***************************************************************************)
(* Publishing the anchor of one finalized archive: the live driver         *)
(* (crates/ootle-anchor-app/src/driver.rs), the lifecycle orchestrator it  *)
(* steps (crates/ootle-anchor-lifecycle), the wallet and receipt           *)
(* coordinators under that, and the files they leave: the snapshot, the    *)
(* pre-create intent, the evidence and the terminal index.                 *)
(*                                                                         *)
(* A driver is one invocation: the desktop makes one per step, the command *)
(* line one per run.  All of them work on one election, so they share the  *)
(* publish lock and the terminal index; the other files belong to the path *)
(* the operator chose.  A step of the model lies between two effects that  *)
(* outlive the driver (a file written, a call that reached the wallet), so *)
(* a crash can fall on every boundary.  A failed file write ends the       *)
(* invocation where a crash would, and is covered by it.                   *)
(***************************************************************************)
EXTENDS Naturals, Sequences, FiniteSets

CONSTANTS
    Drivers,        \* invocations that can be under way
    Paths,          \* snapshot paths in use for this election
    PathOf,         \* the path each driver is configured with
    Loops,          \* entry points: TRUE is `run`, FALSE is `run_single_step`
    NoDriver, NoRecord,
    MaxAttempts,    \* the polling policy's attempt bound
    MaxRequests,    \* bound on the requests the wallet holds
    MaxCrashes,     \* how often an invocation crashes
    MaxFailures,    \* how many calls fail or lose their answer
    MaxMoves        \* how often the wallet's owner or clock acts

ASSUME AnchorAssumption ==
    /\ PathOf \in [Drivers -> Paths]
    /\ Loops \subseteq BOOLEAN
    /\ NoDriver \notin Drivers
    /\ {MaxAttempts, MaxRequests, MaxCrashes, MaxFailures, MaxMoves} \subseteq Nat

VARIABLES
    op,         \* per driver: where it is, its entry point and decision
    mem,        \* per driver: the orchestrator it restored
    lock,       \* who holds the publish lock of this election
    disk,       \* per path: the persisted snapshot
    intent,     \* per path: whether a pre-create intent is on disk
    gate,       \* per path: whether the poll gate's deadline is ahead
    evidence,   \* per path: the evidence file
    index,      \* the terminal index record of this election
    wallet,     \* the requests the wallet holds, in order of creation
    ledger,     \* what the ledger says of each request's transaction
    late,       \* submit calls that timed out and are still on their way
    open,       \* requests with a submit call no status lookup followed
    polls,      \* receipt queries made for each request
    used        \* what is spent of each bound

files == <<disk, intent, gate, evidence, index>>
outside == <<wallet, ledger, late, open, polls>>
vars == <<op, mem, lock, disk, intent, gate, evidence, index, wallet, ledger,
          late, open, polls, used>>

Finalized == {"FinalizedAccept", "FinalizedFeeOnly", "FinalizedReject",
              "FinalizedVerificationFailed"}
Terminal == Finalized \cup {"RejectedByApprover"}
Polling == {"Submitted", "PollingInProgress"}
Phases == {"NotPrepared", "Prepared", "Approved", "Unknown"} \cup Polling \cup Terminal
Open == "NotFinalized"
Receipts == {"none", "SubmittedNotQueried", Open} \cup Finalized
Decisions == {"none", "Prepared", "Approved", "Rejected", "Expired"}
Submissions == {"NotSubmitted", "TimedOutUnknown", "Submitted"}
Statuses == {"Pending", "Approved", "Rejected", "Expired", "Submitting", "Submitted"}
Requests == 1 .. MaxRequests

\* The orchestrator of a path with no snapshot file, and so the file's absence.
\* `request` is the wallet's request and its transaction; `handle` the cached
\* submitted request; not found, pending and unreachable receipts are one.
Fresh == [phase |-> "NotPrepared", request |-> 0, decision |-> "none",
          submission |-> "NotSubmitted", handle |-> FALSE, receipt |-> "none",
          attempts |-> 0]
Idle == [at |-> "idle", loop |-> FALSE, decision |-> "None", next |-> "end"]

Init ==
    /\ op = [d \in Drivers |-> Idle]
    /\ mem = [d \in Drivers |-> Fresh]
    /\ lock = NoDriver
    /\ disk = [p \in Paths |-> Fresh]
    /\ intent = [p \in Paths |-> FALSE]
    /\ gate = [p \in Paths |-> FALSE]
    /\ evidence = [p \in Paths |-> NoRecord]
    /\ index = NoRecord
    /\ wallet = <<>>
    /\ ledger = [r \in Requests |-> "absent"]
    /\ late = {}
    /\ open = {}
    /\ polls = [r \in Requests |-> 0]
    /\ used = [crashes |-> 0, failures |-> 0, moves |-> 0]

\* validate_reconstruction: the declared phase must fit the parts.
Reconstructs(s) ==
    /\ s.receipt # "none" => s.handle
    /\ s.handle => s.submission = "Submitted"
    /\ CASE s.phase = "NotPrepared" -> s.request = 0
         [] s.phase = "Prepared" ->
                s.decision = "Prepared" /\ s.submission = "NotSubmitted" /\ ~s.handle
         [] s.phase = "Approved" ->
                s.decision = "Approved" /\ s.submission = "NotSubmitted" /\ ~s.handle
         [] s.phase = "RejectedByApprover" -> s.decision = "Rejected" /\ ~s.handle
         [] s.phase = "Submitted" ->
                s.handle /\ s.receipt \in {"none", "SubmittedNotQueried"}
         [] s.phase = "PollingInProgress" ->
                s.handle /\ s.receipt \in {"SubmittedNotQueried", Open} /\ s.attempts > 0
         [] s.phase = "Unknown" ->
                IF s.handle THEN s.receipt # "FinalizedAccept"
                            ELSE s.submission = "TimedOutUnknown"
         [] s.phase \in Finalized -> s.handle /\ s.receipt = s.phase

----------------------------------------------------------------------------
\* Entering and leaving an invocation.

At(d, place) == op[d].at = place
Exhausted(s) == s.attempts >= MaxAttempts
Spend(field) == used' = [used EXCEPT ![field] = @ + 1]
CanFail == used.failures < MaxFailures

\* restore_live: a driver reads the snapshot before it takes the lock.
Restore(d) ==
    /\ At(d, "idle")
    /\ Reconstructs(disk[PathOf[d]])
    /\ op' = [op EXCEPT ![d].at = "ready"]
    /\ mem' = [mem EXCEPT ![d] = disk[PathOf[d]]]
    /\ UNCHANGED <<lock, files, outside, used>>

Accepted(record) == record # NoRecord /\ record.evidence.phase = "FinalizedAccept"

\* Faulty variant: the terminal index is not consulted.
AdmitsUnindexed(s, p) ==
    /\ Reconstructs(s)
    /\ s.phase = "NotPrepared" => ~intent[p]

\* What a locked body checks before it advances: the reload, the terminal
\* index, and an intent without a prepared snapshot.
Admits(s, p) ==
    /\ Reconstructs(s)
    /\ index = NoRecord
    /\ s.phase = "NotPrepared" => ~intent[p]

\* Faulty variant: the locked body keeps what was restored before the lock.
BeginStale(d, loop, decision) ==
    /\ At(d, "ready")
    /\ lock = NoDriver
    /\ Admits(mem[d], PathOf[d])
    /\ ~loop /\ mem[d].phase \in Polling => ~gate[PathOf[d]]
    /\ op' = [op EXCEPT ![d] = [@ EXCEPT !.at = "advance", !.loop = loop,
                                         !.decision = decision]]
    /\ lock' = d
    /\ UNCHANGED <<mem, files, outside, used>>

\* Faulty variant: the publish lock is not taken.
BeginUnlocked(d, loop, decision) ==
    LET s == disk[PathOf[d]]
    IN /\ At(d, "ready")
       /\ Admits(s, PathOf[d])
       /\ ~loop /\ s.phase \in Polling => ~gate[PathOf[d]]
       /\ op' = [op EXCEPT ![d] = [@ EXCEPT !.at = "advance", !.loop = loop,
                                            !.decision = decision]]
       /\ mem' = [mem EXCEPT ![d] = s]
       /\ lock' = d
       /\ UNCHANGED <<files, outside, used>>

\* run and run_single_step up to the first advance: the lock, the reload, the
\* preflight and, for a single step, the poll gate.
Begin(d, loop, decision) ==
    LET s == disk[PathOf[d]]
    IN /\ At(d, "ready")
       /\ lock = NoDriver
       /\ Admits(s, PathOf[d])
       /\ ~loop /\ s.phase \in Polling => ~gate[PathOf[d]]
       /\ op' = [op EXCEPT ![d] = [@ EXCEPT !.at = "advance", !.loop = loop,
                                            !.decision = decision]]
       /\ mem' = [mem EXCEPT ![d] = s]
       /\ lock' = d
       /\ UNCHANGED <<files, outside, used>>

\* The same, when one of those checks ends it: busy, a snapshot that does not
\* reload, a conflicting or an accepted index, an uncertain create, or a poll
\* that is not due.
Refuse(d, loop) ==
    LET s == disk[PathOf[d]]
    IN /\ At(d, "ready")
       /\ \/ lock # NoDriver
          \/ ~Admits(s, PathOf[d])
          \/ ~loop /\ s.phase \in Polling /\ gate[PathOf[d]]
       /\ op' = [op EXCEPT ![d] = Idle]
       /\ mem' = [mem EXCEPT ![d] = Fresh]
       /\ gate' = IF lock = NoDriver /\ Reconstructs(s) /\ Accepted(index) /\ ~loop
                  THEN [gate EXCEPT ![PathOf[d]] = FALSE] ELSE gate
       /\ UNCHANGED <<lock, disk, intent, evidence, index, outside, used>>

\* Where an invocation goes after a transition: `Continue` ends a single step
\* and loops a run.  What was not persisted is lost with the driver.
Goes(d, next) ==
    IF next = "end" \/ (next = "continue" /\ ~op[d].loop)
    THEN /\ op' = [op EXCEPT ![d] = Idle]
         /\ mem' = [mem EXCEPT ![d] = Fresh]
         /\ lock' = NoDriver
    ELSE /\ op' = [op EXCEPT ![d].at = IF next = "continue" THEN "advance" ELSE next]
         /\ UNCHANGED <<mem, lock>>

\* A call that fails, or whose answer ends the step with an error.
Fails(d) == Goes(d, "end") /\ UNCHANGED used
Breaks(d) == CanFail /\ Goes(d, "end") /\ Spend("failures")

\* A state the next step persists, and where it goes from there.
Becomes(d, s, next) ==
    /\ mem' = [mem EXCEPT ![d] = s]
    /\ op' = [op EXCEPT ![d].at = "persist", ![d].next = next]
    /\ UNCHANGED <<lock, used>>

Advancing(d, phases) == At(d, "advance") /\ mem[d].phase \in phases

----------------------------------------------------------------------------
\* Preparing: the intent, the wallet's CREATE, the snapshot, the intent again.

\* step_prepare up to the CREATE call: epoch and inputs are looked up, then the
\* intent is made durable.
WriteIntent(d) ==
    /\ Advancing(d, {"NotPrepared"})
    /\ intent' = [intent EXCEPT ![PathOf[d]] = TRUE]
    /\ Goes(d, "create")
    /\ UNCHANGED <<disk, gate, evidence, index, outside, used>>

\* The epoch or the dependency closure cannot be had: nothing was written.
LookupFails(d) ==
    /\ Advancing(d, {"NotPrepared"})
    /\ Breaks(d)
    /\ UNCHANGED <<files, outside>>

AddRequest(d) ==
    /\ Len(wallet) < MaxRequests
    /\ wallet' = Append(wallet, [status |-> "Pending", path |-> PathOf[d]])

\* The CREATE call is answered: the request is registered as prepared.
Create(d) ==
    /\ At(d, "create")
    /\ AddRequest(d)
    /\ Becomes(d, [mem[d] EXCEPT !.phase = "Prepared", !.request = Len(wallet'),
                                 !.decision = "Prepared"], "clearIntent")
    /\ UNCHANGED <<files, ledger, late, open, polls>>

\* The CREATE call fails: refused, which proves it had no effect and clears the
\* intent, or unanswered, which proves nothing.
CreateFails(d) ==
    /\ At(d, "create")
    /\ Breaks(d)
    /\ \/ /\ UNCHANGED wallet
          /\ intent' = [intent EXCEPT ![PathOf[d]] = FALSE]
       \/ /\ AddRequest(d) \/ UNCHANGED wallet
          /\ UNCHANGED intent
    /\ UNCHANGED <<disk, gate, evidence, index, ledger, late, open, polls>>

\* persist_snapshot, and the writes after it that no crash is worth telling
\* apart from: the poll gate before a wait.
Persist(d) ==
    /\ At(d, "persist")
    /\ disk' = [disk EXCEPT ![PathOf[d]] = mem[d]]
    /\ gate' = IF op[d].next = "wait" THEN [gate EXCEPT ![PathOf[d]] = TRUE] ELSE gate
    /\ Goes(d, IF op[d].next = "wait" THEN "continue" ELSE op[d].next)
    /\ UNCHANGED <<intent, evidence, index, outside, used>>

\* The intent goes once the prepared snapshot is durable.
ClearIntent(d) ==
    /\ At(d, "clearIntent")
    /\ intent' = [intent EXCEPT ![PathOf[d]] = FALSE]
    /\ Goes(d, "continue")
    /\ UNCHANGED <<disk, gate, evidence, index, outside, used>>

----------------------------------------------------------------------------
\* Deciding a prepared request.

Status(d) == wallet[mem[d].request].status
SetStatus(d, s) == wallet' = [wallet EXCEPT ![mem[d].request].status = s]

\* The wallet takes a decision on a pending request, and may repeat an answer.
Approve(d) ==
    /\ Advancing(d, {"Prepared"}) /\ op[d].decision = "Approve"
    /\ Status(d) \in {"Pending", "Approved"}
    /\ SetStatus(d, "Approved")
    /\ Becomes(d, [mem[d] EXCEPT !.phase = "Approved", !.decision = "Approved"],
               "continue")
    /\ UNCHANGED <<files, ledger, late, open, polls>>

Reject(d) ==
    /\ Advancing(d, {"Prepared"}) /\ op[d].decision = "Reject"
    /\ Status(d) \in {"Pending", "Rejected"}
    /\ SetStatus(d, "Rejected")
    /\ Becomes(d, [mem[d] EXCEPT !.phase = "RejectedByApprover",
                                 !.decision = "Rejected"], "evidence")
    /\ UNCHANGED <<files, ledger, late, open, polls>>

\* The wallet answers with another status: an error, and nothing is persisted.
DecisionRefused(d) ==
    /\ Advancing(d, {"Prepared"})
    /\ \/ op[d].decision = "Approve" /\ Status(d) # "Pending"
       \/ op[d].decision = "Reject" /\ Status(d) # "Pending"
    /\ Fails(d)
    /\ UNCHANGED <<files, outside>>

\* The call fails; the wallet may have taken the decision all the same.
DecisionFails(d) ==
    /\ Advancing(d, {"Prepared"}) /\ op[d].decision # "None"
    /\ Breaks(d)
    /\ \/ UNCHANGED wallet
       \/ /\ Status(d) = "Pending"
          /\ SetStatus(d, IF op[d].decision = "Approve" THEN "Approved" ELSE "Rejected")
    /\ UNCHANGED <<files, ledger, late, open, polls>>

NoDecision(d) ==
    /\ Advancing(d, {"Prepared"}) /\ op[d].decision = "None"
    /\ Becomes(d, mem[d], "end")
    /\ UNCHANGED <<files, outside>>

----------------------------------------------------------------------------
\* Submitting, and finding out what became of a submission.

\* Faulty variant: the submission is not announced on disk.
WriteAheadOmitted(d) ==
    /\ Advancing(d, {"Approved"})
    /\ Goes(d, "submit")
    /\ UNCHANGED <<files, outside, used>>

\* Faulty variant: the announced snapshot keeps the old submission state.
WriteAheadPhaseOnly(d) ==
    /\ Advancing(d, {"Approved"})
    /\ disk' = [disk EXCEPT ![PathOf[d]] = [mem[d] EXCEPT !.phase = "Unknown"]]
    /\ Goes(d, "submit")
    /\ UNCHANGED <<intent, gate, evidence, index, outside, used>>

\* persist_submit_write_ahead_snapshot: before the call, disk says Unknown.
WriteAhead(d) ==
    /\ Advancing(d, {"Approved"})
    /\ disk' = [disk EXCEPT ![PathOf[d]] =
                  [mem[d] EXCEPT !.phase = "Unknown", !.submission = "TimedOutUnknown"]]
    /\ Goes(d, "submit")
    /\ UNCHANGED <<intent, gate, evidence, index, outside, used>>

Sealed(r) == ledger' = [ledger EXCEPT ![r] = "pending"]

\* register_submitted keeps a receipt record that is already there.
WithSubmitted(s) ==
    [s EXCEPT !.phase = "Submitted", !.submission = "Submitted", !.handle = TRUE,
              !.receipt = IF @ = "none" THEN "SubmittedNotQueried" ELSE @]

\* The submit call is answered with the sealed transaction.
Submit(d) ==
    /\ At(d, "submit")
    /\ Status(d) = "Approved"
    /\ SetStatus(d, "Submitted")
    /\ Sealed(mem[d].request)
    /\ open' = open \cup {mem[d].request}
    /\ Becomes(d, WithSubmitted(mem[d]), "continue")
    /\ UNCHANGED <<files, late, polls>>

\* The wallet lets only an approved request through.
SubmitRefused(d) ==
    /\ At(d, "submit")
    /\ Status(d) # "Approved"
    /\ open' = open \cup {mem[d].request}
    /\ Fails(d)
    /\ UNCHANGED <<files, wallet, ledger, late, polls>>

\* The call fails: it never arrived, is still on its way, left the wallet
\* submitting, or sealed the transaction and lost its answer.
SubmitFails(d) ==
    /\ At(d, "submit")
    /\ Breaks(d)
    /\ open' = open \cup {mem[d].request}
    /\ \/ UNCHANGED <<wallet, ledger, late>>
       \/ /\ late' = late \cup {mem[d].request}
          /\ UNCHANGED <<wallet, ledger>>
       \/ /\ Status(d) = "Approved"
          /\ SetStatus(d, "Submitting")
          /\ UNCHANGED <<ledger, late>>
       \/ /\ Status(d) = "Approved"
          /\ SetStatus(d, "Submitted")
          /\ Sealed(mem[d].request)
          /\ UNCHANGED late
    /\ UNCHANGED <<files, polls>>

\* Faulty variant: a recovered submission is polled for from the start.
RecoveredAnew(s, status) ==
    IF status = "Submitted"
    THEN [WithSubmitted(s) EXCEPT !.receipt = "SubmittedNotQueried", !.attempts = 0]
    ELSE s

\* recover: the lifecycle after each status the wallet can report.
Recovered(s, status) ==
    CASE status = "Submitted" -> WithSubmitted(s)
      [] status = "Approved" -> [s EXCEPT !.phase = "Approved",
                                          !.submission = "NotSubmitted"]
      [] status = "Rejected" -> [s EXCEPT !.phase = "RejectedByApprover",
                                          !.decision = "Rejected"]
      [] status = "Expired" -> [s EXCEPT !.decision = "Expired"]
      [] OTHER -> s

Recover(d) ==
    /\ Advancing(d, {"Unknown"})
    /\ open' = open \ {mem[d].request}
    /\ Becomes(d, Recovered(mem[d], Status(d)), "continue")
    /\ UNCHANGED <<files, wallet, ledger, late, polls>>

RecoverFails(d) ==
    /\ Advancing(d, {"Unknown"})
    /\ Breaks(d)
    /\ UNCHANGED <<files, outside>>

----------------------------------------------------------------------------
\* Polling for the receipt.

\* A receipt query's answer, from what the ledger says.
Receipt(status) == IF status \in Finalized THEN status ELSE Open

\* advance_one_poll with the bound already reached: no query is made.
PollExhausted(d) ==
    /\ Advancing(d, Polling) /\ ~gate[PathOf[d]]
    /\ Exhausted(mem[d])
    /\ Becomes(d, [mem[d] EXCEPT !.phase = "Unknown"], "evidence")
    /\ UNCHANGED <<files, outside>>

\* The lifecycle after one query.
Polled(s, receipt) ==
    LET t == [s EXCEPT !.receipt = receipt, !.attempts = @ + 1]
    IN [t EXCEPT !.phase = IF receipt # Open THEN receipt
                           ELSE IF Exhausted(t) THEN "Unknown" ELSE "PollingInProgress"]

\* advance_once after a query: an unfinished poll waits behind the gate, or goes
\* on at once when the policy's delay is zero.
AfterPoll(s) ==
    IF s.phase = "PollingInProgress" THEN {"wait", "continue"} ELSE {"evidence"}

\* advance_one_poll: one query, one attempt.  A full acceptance is looked up
\* once more before anything is persisted; every other outcome is persisted.
Poll(d, receipt) ==
    LET s == Polled(mem[d], receipt)
    IN /\ Advancing(d, Polling) /\ ~gate[PathOf[d]]
       /\ ~Exhausted(mem[d])
       /\ polls' = [polls EXCEPT ![mem[d].request] = @ + 1]
       /\ IF s.phase = "FinalizedAccept"
          THEN /\ mem' = [mem EXCEPT ![d] = s]
               /\ op' = [op EXCEPT ![d].at = "verify"]
               /\ UNCHANGED <<lock, used>>
          ELSE \E next \in AfterPoll(s) : Becomes(d, s, next)
       /\ UNCHANGED <<files, wallet, ledger, late, open>>

\* The indexer answers, or cannot be reached, which is an answer as well.
PollOnce(d) ==
    /\ Advancing(d, Polling)
    /\ \E receipt \in {Receipt(ledger[mem[d].request]), Open} : Poll(d, receipt)

\* The query does not match the submitted request or its transaction id cannot be
\* converted: an error before the indexer is asked, and no attempt is consumed.
PollFails(d) ==
    /\ Advancing(d, Polling) /\ ~gate[PathOf[d]]
    /\ ~Exhausted(mem[d])
    /\ Breaks(d)
    /\ UNCHANGED <<files, outside>>

\* requery_verified_indexer_anchor: right after the poll, or on re-driving a
\* snapshot that is already FinalizedAccept.
Requery(d) ==
    /\ At(d, "verify") \/ Advancing(d, {"FinalizedAccept"})
    /\ ledger[mem[d].request] = "FinalizedAccept"
    /\ \/ At(d, "verify") /\ Becomes(d, mem[d], "evidence")
       \/ Advancing(d, {"FinalizedAccept"}) /\ Goes(d, "evidence") /\ UNCHANGED used
    /\ UNCHANGED <<files, outside>>

RequeryFails(d) ==
    /\ At(d, "verify") \/ Advancing(d, {"FinalizedAccept"})
    /\ Breaks(d)
    /\ UNCHANGED <<files, outside>>

----------------------------------------------------------------------------
\* The files of a terminal outcome.

\* Faulty variant: a terminal snapshot is taken to have its evidence already.
RedriveIndexed(d) ==
    /\ Advancing(d, Terminal \ {"FinalizedAccept"})
    /\ Goes(d, "index")
    /\ UNCHANGED <<files, outside, used>>

\* Any other terminal phase goes straight to its evidence.
Redrive(d) ==
    /\ Advancing(d, Terminal \ {"FinalizedAccept"})
    /\ Goes(d, "evidence")
    /\ UNCHANGED <<files, outside, used>>

\* Evidence holds the outcome, the transaction and the snapshot's digest.
EvidenceOf(s) == s

WriteEvidence(d) ==
    /\ At(d, "evidence")
    /\ evidence' = [evidence EXCEPT ![PathOf[d]] = EvidenceOf(mem[d])]
    /\ Goes(d, "index")
    /\ UNCHANGED <<disk, intent, gate, index, outside, used>>

\* write_terminal_index: the first record stays.
Indexed(record) == IF index = NoRecord THEN record ELSE index

\* The gate is cleared with the outcome; another record in the index is a
\* conflict, an error that leaves the gate alone.
WriteIndex(d) ==
    LET record == [path |-> PathOf[d], evidence |-> EvidenceOf(mem[d])]
    IN /\ At(d, "index")
       /\ index' = Indexed(record)
       /\ gate' = [gate EXCEPT ![PathOf[d]] = @ /\ Indexed(record) # record]
       /\ Goes(d, "end")
       /\ UNCHANGED <<disk, intent, evidence, outside, used>>

----------------------------------------------------------------------------
\* Crashes, the wallet, the ledger and the clock.

Crash(d) ==
    /\ ~At(d, "idle")
    /\ used.crashes < MaxCrashes
    /\ Spend("crashes")
    /\ op' = [op EXCEPT ![d] = Idle]
    /\ mem' = [mem EXCEPT ![d] = Fresh]
    /\ lock' = IF lock = d THEN NoDriver ELSE lock
    /\ UNCHANGED <<files, outside>>

\* The wallet's owner decides on their own, or the request's lifetime ends.
WalletMoves(r, status) ==
    /\ used.moves < MaxMoves
    /\ \/ wallet[r].status = "Pending" /\ status \in {"Approved", "Rejected", "Expired"}
       \/ wallet[r].status = "Approved" /\ status \in {"Rejected", "Expired"}
    /\ wallet' = [wallet EXCEPT ![r].status = status]
    /\ Spend("moves")
    /\ UNCHANGED <<op, mem, lock, files, ledger, late, open, polls>>

\* A submission under way ends: sealed, or back to approved.
WalletSettles(r) ==
    /\ wallet[r].status = "Submitting"
    /\ \/ wallet' = [wallet EXCEPT ![r].status = "Submitted"] /\ Sealed(r)
       \/ wallet' = [wallet EXCEPT ![r].status = "Approved"] /\ UNCHANGED ledger
    /\ UNCHANGED <<op, mem, lock, files, late, open, polls, used>>

\* A submit call that timed out arrives after all.
LateSubmit(r) ==
    /\ r \in late
    /\ late' = late \ {r}
    /\ IF wallet[r].status = "Approved"
       THEN wallet' = [wallet EXCEPT ![r].status = "Submitted"] /\ Sealed(r)
       ELSE UNCHANGED <<wallet, ledger>>
    /\ UNCHANGED <<op, mem, lock, files, open, polls, used>>

LedgerFinalizes(r, status) ==
    /\ ledger[r] = "pending"
    /\ ledger' = [ledger EXCEPT ![r] = status]
    /\ UNCHANGED <<op, mem, lock, files, wallet, late, open, polls, used>>

GateOpens(p) ==
    /\ gate[p]
    /\ gate' = [gate EXCEPT ![p] = FALSE]
    /\ UNCHANGED <<op, mem, lock, disk, intent, evidence, index, outside, used>>

----------------------------------------------------------------------------
Advance(d) ==
    \/ WriteIntent(d) \/ LookupFails(d) \/ Create(d) \/ CreateFails(d)
    \/ Persist(d) \/ ClearIntent(d)
    \/ Approve(d) \/ Reject(d) \/ DecisionRefused(d) \/ DecisionFails(d) \/ NoDecision(d)
    \/ WriteAhead(d) \/ Submit(d) \/ SubmitRefused(d) \/ SubmitFails(d)
    \/ Recover(d) \/ RecoverFails(d)
    \/ PollExhausted(d) \/ PollOnce(d) \/ PollFails(d) \/ Requery(d) \/ RequeryFails(d)
    \/ Redrive(d) \/ WriteEvidence(d) \/ WriteIndex(d)

Invoke(d) ==
    \/ Restore(d)
    \/ \E loop \in Loops, decision \in {"Approve", "Reject", "None"} :
          Begin(d, loop, decision)
    \/ \E loop \in Loops : Refuse(d, loop)

Settle(r) ==
    \/ WalletSettles(r)
    \/ \E status \in Finalized : LedgerFinalizes(r, status)

Next ==
    \/ \E d \in Drivers : Invoke(d) \/ Advance(d) \/ Crash(d)
    \/ \E r \in DOMAIN wallet :
          \/ Settle(r)
          \/ LateSubmit(r)
          \/ \E status \in {"Approved", "Rejected", "Expired"} : WalletMoves(r, status)
    \/ \E p \in Paths : GateOpens(p)

Spec == Init /\ [][Next]_vars

\* A started invocation runs on, the clock moves, and the wallet and the ledger
\* finish what they have begun.  Nobody is bound to start an invocation.
Fairness ==
    /\ \A d \in Drivers : WF_vars(Advance(d))
    /\ \A r \in Requests : WF_vars(r \in DOMAIN wallet /\ Settle(r))
    /\ \A p \in Paths : WF_vars(GateOpens(p))

FairSpec == Spec /\ Fairness

----------------------------------------------------------------------------
\* Properties.

Snapshots == [phase : Phases, request : 0 .. MaxRequests, decision : Decisions,
              submission : Submissions, handle : BOOLEAN, receipt : Receipts,
              attempts : 0 .. MaxAttempts]
Places == {"idle", "ready", "advance", "create", "persist", "clearIntent", "submit",
           "verify", "evidence", "index"}

\* Every variable has its type, the lock is held exactly by the driver that is
\* advancing, and no request is spoken of that the wallet does not hold.
TypeOK ==
    /\ op \in [Drivers -> [at : Places, loop : BOOLEAN,
                           decision : {"Approve", "Reject", "None"},
                           next : {"end", "continue", "wait", "clearIntent", "evidence"}]]
    /\ mem \in [Drivers -> Snapshots]
    /\ disk \in [Paths -> Snapshots]
    /\ lock \in Drivers \cup {NoDriver}
    /\ \A d \in Drivers : (lock = d) = (op[d].at \notin {"idle", "ready"})
    /\ intent \in [Paths -> BOOLEAN] /\ gate \in [Paths -> BOOLEAN]
    /\ \A p \in Paths : evidence[p] # NoRecord => evidence[p] \in Snapshots
    /\ index # NoRecord => index.path \in Paths /\ index.evidence \in Snapshots
    /\ \A r \in DOMAIN wallet : wallet[r] \in [status : Statuses, path : Paths]
    /\ \A p \in Paths : disk[p].request <= Len(wallet)
    /\ ledger \in [Requests -> {"absent", "pending"} \cup Finalized]
    /\ late \subseteq DOMAIN wallet /\ open \subseteq DOMAIN wallet

\* A path never gets a second request out of the wallet: through lost CREATE
\* answers, crashes between the intent, the call and the snapshot, and a driver
\* that restored before another one finished.
OneRequest ==
    \A r, q \in DOMAIN wallet : wallet[r].path = wallet[q].path => r = q

\* No submit call is made while an earlier one is unaccounted for: a status
\* lookup always comes in between, across crashes and restarts too.
NoBlindSubmit == \A d \in Drivers : At(d, "submit") => mem[d].request \notin open

\* What the files claim has happened: a submitted handle means a sealed
\* transaction, a final phase the ledger's own verdict, a rejection a request
\* the wallet will never let through.  The terminal record finds the evidence it
\* was made from, and an accepted one names a transaction the ledger accepted.
FilesAreTrue ==
    /\ \A p \in Paths :
          LET s == disk[p]
          IN /\ s.handle => ledger[s.request] # "absent"
             /\ s.phase \in Finalized => ledger[s.request] = s.phase
             /\ s.phase = "RejectedByApprover" => wallet[s.request].status = "Rejected"
    /\ index # NoRecord =>
          /\ evidence[index.path] = index.evidence
          /\ Accepted(index) => ledger[index.evidence.request] = "FinalizedAccept"

\* A snapshot whose attempts are not used up can be read back by the next
\* invocation, whatever step a crash or an error cut short.
SnapshotReloads == \A p \in Paths : ~Exhausted(disk[p]) => Reconstructs(disk[p])

SnapshotForwardStep ==
    \A p \in Paths :
       /\ disk[p].phase \in Terminal => disk'[p] = disk[p]
       /\ disk[p].request # 0 => disk'[p].request = disk[p].request
       /\ disk[p].handle => disk'[p].handle
       /\ disk[p].attempts <= disk'[p].attempts

\* The persisted lifecycle never goes back: a terminal snapshot stays as it is,
\* a known submission stays known, and attempts are not given back.
SnapshotForward == [][SnapshotForwardStep]_vars

AcceptedStopsStep ==
    Accepted(index) => Len(wallet') = Len(wallet) /\ open' = open /\ index' = index

\* Once an election is anchored, a driver with any other snapshot or evidence
\* path neither creates nor submits anything (PHASE4_FIRST_TESTNET_ANCHOR_RUNBOOK.md:212).
AcceptedStops == [][AcceptedStopsStep]_vars

----------------------------------------------------------------------------
\* What the documentation says and the code does not do.

\* crates/ootle-anchor-lifecycle/src/policy.rs:12: "On exhaustion the lifecycle
\* transitions to a resumable Unknown, never to a permanent-failure terminal."
\* The live driver writes a terminal record for it, which stops every later
\* invocation.
UnknownIsResumable ==
    \A p \in Paths : disk[p].phase = "Unknown" /\ lock = NoDriver =>
       Admits(disk[p], p) \/ Accepted(index)

\* docs/PHASE4_FIRST_TESTNET_ANCHOR_RUNBOOK.md:222: "Interrupted nonterminal
\* snapshots for the same intended anchor remain recoverable when no terminal
\* index exists yet."  Recovering an exhausted snapshot persists a Submitted
\* phase over a receipt record that was already queried.
InterruptedIsRecoverable ==
    index = NoRecord => \A p \in Paths : Reconstructs(disk[p])

\* crates/ootle-anchor-app/src/driver.rs:807: "Polling attempts are tracked by
\* the orchestrator either way, so immediate re-invocation can never skip policy
\* bounds."  An attempt whose step fails before the snapshot is not tracked.
PollsWithinPolicy == \A r \in Requests : polls[r] <= MaxAttempts

\* crates/ootle-anchor-app/src/publish_lock.rs:25: within a process the lock "is a
\* short blocking wait that always makes progress because each step is bounded
\* and never sleeps under the lock".  A run sleeps and recovers under it.
LockIsReleased == \A d \in Drivers : (lock = d) ~> (lock # d)

=============================================================================
