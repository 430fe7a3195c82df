--------------------------- MODULE OrganizerIntake ---------------------------
(***************************************************************************)
(* The ballot office: the organizer GUI, its durable workspace and the     *)
(* private-intake worker, composed over the session values of ElectionOps. *)
(*                                                                         *)
(* Every GUI command clones the active session, mutates the clone, commits *)
(* it as a workspace revision and only then installs it; the steps of one  *)
(* command interleave with those of the others.  The operator runs one     *)
(* command at a time; the inbox sync and the status heartbeat run on       *)
(* timers beside it.  The worker is one thread with its own session: it    *)
(* checks the lifecycle fence, then validates the ballot, writes it to the *)
(* content-addressed inbox and signs a receipt.  GUI and worker are one    *)
(* process: a crash ends both and leaves the workspace head and the inbox. *)
(*                                                                         *)
(* A workspace append is one step here (DurableWorkspace has its parts).   *)
(***************************************************************************)
EXTENDS ElectionOps

CONSTANTS
    NoPackage,     \* no request in flight
    MaxImports,    \* bound on offline imports
    MaxRequests,   \* bound on envelopes the worker admits
    MaxStarts,     \* bound on starts of the worker
    MaxCrashes     \* bound on crashes

ASSUME IntakeAssumption ==
    {MaxImports, MaxRequests, MaxStarts, MaxCrashes} \subseteq Nat

VARIABLES
    active,     \* the session AppState holds
    durable,    \* the newest committed workspace revision
    inbox,      \* packages of the durable private-intake inbox
    receipts,   \* packages an ACCEPTED receipt was signed for
    fence,      \* the worker's AuthoritativeLifecycleFenceV1 state
    worker,     \* "off", "starting", "serving", "installed" or "stopping"
    accepted,   \* packages the worker's own session accepted in this run
    batches,    \* batches sealed by the worker's gateway in this run
    request,    \* the envelope being handled: [package, step]
    commands,   \* the running command of each slot: [op, step, next]
    heartbeat,  \* the lifecycle a running heartbeat has read
    archive,    \* the last finalized archive written
    used        \* how much of each bound is used

vars == <<active, durable, inbox, receipts, fence, worker, accepted, batches,
          request, commands, heartbeat, archive, used>>

workerVars == <<fence, worker, accepted, batches, request>>

Slots == {"operator", "sync"}
Idle == [op |-> "idle", step |-> "idle", next |-> NewSession]
NoRequest == [package |-> NoPackage, step |-> "idle"]
NoArchive == [counted |-> {}, bound |-> {}, source |-> "none"]
NoLifecycle == "none"

Running(slot, op, step, next) ==
    commands' = [commands EXCEPT ![slot] = [op |-> op, step |-> step, next |-> next]]

Done(slot) == commands' = [commands EXCEPT ![slot] = Idle]

Counted(s) == ToSet(s.ledger)

Init ==
    /\ active = NewSession
    /\ durable = ToDurableSnapshot(NewSession)
    /\ inbox = {}
    /\ receipts = {}
    /\ fence = "FROZEN"
    /\ worker = "off"
    /\ accepted = {}
    /\ batches = <<>>
    /\ request = NoRequest
    /\ commands = [slot \in Slots |-> Idle]
    /\ heartbeat = NoLifecycle
    /\ archive = NoArchive
    /\ used = [imports |-> 0, requests |-> 0, starts |-> 0, crashes |-> 0]

-----------------------------------------------------------------------------
\* GUI commands.

\* Faulty variant: the fence keeps the state the worker started with.
PublishNothing(lifecycle) == UNCHANGED fence

\* reconcile_intake_lifecycle on the installed intake.
Publish(lifecycle) ==
    fence' = IF worker = "installed" THEN lifecycle ELSE fence

\* mutate_session_transactionally: clone under the session lock and mutate.
CloneAndMutate(slot, op, next) ==
    /\ commands[slot] = Idle
    /\ Running(slot, op, "commit", next)
    /\ UNCHANGED <<active, durable, inbox, receipts, workerVars, heartbeat, archive>>

OpenVoting ==
    /\ CanTransition(active, "FROZEN")
    /\ CloneAndMutate("operator", "open", Transition(active, "OPEN"))
    /\ UNCHANGED used

\* fence_close_before_commit, when the active session is OPEN.
FenceClose ==
    /\ commands["operator"] = Idle
    /\ active.lifecycle = "OPEN"
    /\ Running("operator", "close", "clone", NewSession)
    /\ Publish("CLOSED")
    /\ UNCHANGED <<active, durable, inbox, receipts, worker, accepted, batches,
                   request, heartbeat, archive, used>>

CloseVoting ==
    /\ commands["operator"].step = "clone"
    /\ IF CanTransition(active, "OPEN")
       THEN Running("operator", "close", "commit", Transition(active, "CLOSED"))
       ELSE Done("operator")
    /\ UNCHANGED <<active, durable, inbox, receipts, workerVars, heartbeat,
                   archive, used>>

MarkVerified ==
    /\ CanTransition(active, "CLOSED")
    /\ CloneAndMutate("operator", "verify", Transition(active, "VERIFIED"))
    /\ UNCHANGED used

FinalizeElection ==
    /\ CanTransition(active, "VERIFIED")
    /\ CloneAndMutate("operator", "finalize", Transition(active, "FINALIZED"))
    /\ UNCHANGED used

\* intake_ballot_package: an offline ballot file.
ImportPackage(p) ==
    /\ used.imports < MaxImports
    /\ CanIntake(active)
    /\ CloneAndMutate("operator", "import", Process(active, p))
    /\ used' = [used EXCEPT !.imports = @ + 1]

\* sync_private_intake clones the session ...
SyncPrivateIntake ==
    /\ commands["sync"] = Idle
    /\ Running("sync", "sync", "ingest", active)
    /\ UNCHANGED <<active, durable, inbox, receipts, workerVars, heartbeat,
                   archive, used>>

\* ... and ingests the inbox into the clone, in the order of the digests; a
\* sealed session, or nothing newly accepted, ends it.
IngestInbox ==
    LET command == commands["sync"]
        next == FoldLeft(Reconcile, command.next, SetToSeq(inbox))
    IN  /\ command.step = "ingest"
        /\ IF CanReconcile(command.next) /\ Counted(next) # Counted(command.next)
           THEN Running("sync", "sync", "commit", next)
           ELSE Done("sync")
        /\ UNCHANGED <<active, durable, inbox, receipts, workerVars, heartbeat,
                       archive, used>>


\* enforce_session_lifecycle_append
AppendAllowed(head, next) ==
    /\ head.lifecycle # "FINALIZED"
    /\ LifecycleRank[next.lifecycle] >= LifecycleRank[head.lifecycle]

\* write_session_workspace_revision_v1: an equal body is a success, a body the
\* workspace refuses ends the command.
Commit(slot) ==
    LET command == commands[slot]
        body == ToDurableSnapshot(command.next)
    IN  /\ command.step = "commit"
        /\ \/ /\ body = durable \/ AppendAllowed(durable, body)
              /\ durable' = body
              /\ Running(slot, command.op, "install", command.next)
           \/ /\ body # durable
              /\ ~AppendAllowed(durable, body)
              /\ Done(slot)
              /\ UNCHANGED durable
        /\ UNCHANGED <<active, inbox, receipts, workerVars, heartbeat, archive, used>>

\* replace_active_session; open, verify and finalize then publish.
Install(slot) ==
    LET command == commands[slot]
    IN  /\ command.step = "install"
        /\ active' = command.next
        /\ IF command.op \in {"open", "verify", "finalize"}
           THEN Running(slot, command.op, "publish", command.next)
           ELSE Done(slot)
        /\ UNCHANGED <<durable, inbox, receipts, workerVars, heartbeat, archive, used>>

PublishCommitted ==
    /\ commands["operator"].step = "publish"
    /\ Publish(commands["operator"].next.lifecycle)
    /\ Done("operator")
    /\ UNCHANGED <<active, durable, inbox, receipts, worker, accepted, batches,
                   request, heartbeat, archive, used>>

\* organizer_tor_status: bound_election reads the lifecycle ...
HeartbeatRead ==
    /\ heartbeat = NoLifecycle
    /\ heartbeat' = active.lifecycle
    /\ UNCHANGED <<active, durable, inbox, receipts, workerVars, commands,
                   archive, used>>

\* ... and the fence converges to it later.
HeartbeatPublish ==
    /\ heartbeat # NoLifecycle
    /\ Publish(heartbeat)
    /\ heartbeat' = NoLifecycle
    /\ UNCHANGED <<active, durable, inbox, receipts, worker, accepted, batches,
                   request, commands, archive, used>>

-----------------------------------------------------------------------------
\* The intake worker.

\* authoritative_lifecycle_snapshot, taken before Tor and the worker start.
StartIntake ==
    /\ worker = "off"
    /\ used.starts < MaxStarts
    /\ worker' = "starting"
    /\ fence' = active.lifecycle
    /\ used' = [used EXCEPT !.starts = @ + 1]
    /\ UNCHANGED <<active, durable, inbox, receipts, accepted, batches, request,
                   commands, heartbeat, archive>>

\* start_collector_service_shared: a fresh session and gateway serve requests.
ServeIntake ==
    /\ worker = "starting"
    /\ worker' = "serving"
    /\ accepted' = {}
    /\ batches' = <<>>
    /\ UNCHANGED <<active, durable, inbox, receipts, fence, request, commands,
                   heartbeat, archive, used>>

\* The running intake is stored where publications find it.
InstallIntake ==
    /\ worker = "serving"
    /\ worker' = "installed"
    /\ UNCHANGED <<active, durable, inbox, receipts, fence, accepted, batches,
                   request, commands, heartbeat, archive, used>>

\* Tor or the worker does not come up.
StartFails ==
    /\ worker = "starting"
    /\ worker' = "off"
    /\ UNCHANGED <<active, durable, inbox, receipts, fence, accepted, batches,
                   request, commands, heartbeat, archive, used>>

\* stop_private_intake takes the intake out of the shared state ...
StopIntake ==
    /\ worker = "installed"
    /\ worker' = "stopping"
    /\ UNCHANGED <<active, durable, inbox, receipts, fence, accepted, batches,
                   request, commands, heartbeat, archive, used>>

\* ... and joins the thread, which finishes the request in flight.
JoinWorker ==
    /\ worker = "stopping"
    /\ request = NoRequest
    /\ worker' = "off"
    /\ UNCHANGED <<active, durable, inbox, receipts, fence, accepted, batches,
                   request, commands, heartbeat, archive, used>>

\* ThreadSafeCollectorHandlerV1: the fence is checked first.
AdmitEnvelope(p) ==
    /\ worker \in {"serving", "installed", "stopping"}
    /\ request = NoRequest
    /\ used.requests < MaxRequests
    /\ fence = "OPEN"
    /\ request' = [package |-> p, step |-> "deliver"]
    /\ used' = [used EXCEPT !.requests = @ + 1]
    /\ UNCHANGED <<active, durable, inbox, receipts, fence, worker, accepted,
                   batches, commands, heartbeat, archive>>

\* Digests accepted in this run and not yet in a batch: pending_digests.
Unsealed == accepted \ UNION ToSet(batches)

\* Faulty variant: a package whose proof does not verify is accepted.
AcceptsDeliveryUnverified(p) ==
    p \in ValidPackages => \A q \in accepted : NullifierOf[q] # NullifierOf[p]

\* deliver_admitted in the worker's session, which is always OPEN: a first
\* ballot of a nullifier, or an exact retry of a package still pending.
AcceptsDelivery(p) ==
    /\ p \in ValidPackages
    /\ \/ \A q \in accepted : NullifierOf[q] # NullifierOf[p]
       \/ p \in Unsealed

\* Faulty variant: the receipt is signed before the hand-off.
DeliverWithoutHandOff ==
    /\ request.step = "deliver"
    /\ AcceptsDelivery(request.package)
    /\ accepted' = accepted \cup {request.package}
    /\ request' = [request EXCEPT !.step = "receipt"]
    /\ UNCHANGED <<active, durable, inbox, receipts, fence, worker, batches,
                   commands, heartbeat, archive, used>>

\* The accepted package reaches the inbox before the worker's state and the
\* receipt; a failed inbox write fails the request and changes nothing.
DeliverEnvelope ==
    /\ request.step = "deliver"
    /\ \/ /\ AcceptsDelivery(request.package)
          /\ inbox' = inbox \cup {request.package}
          /\ accepted' = accepted \cup {request.package}
          /\ request' = [request EXCEPT !.step = "receipt"]
       \/ /\ request' = NoRequest
          /\ UNCHANGED <<inbox, accepted>>
    /\ UNCHANGED <<active, durable, receipts, fence, worker, batches, commands,
                   heartbeat, archive, used>>

SignReceipt ==
    /\ request.step = "receipt"
    /\ receipts' = receipts \cup {request.package}
    /\ request' = NoRequest
    /\ UNCHANGED <<active, durable, inbox, fence, worker, accepted, batches,
                   commands, heartbeat, archive, used>>

-----------------------------------------------------------------------------
\* seal_pending_batch(final = true)
SealedBatches == IF Unsealed = {} THEN batches ELSE Append(batches, Unsealed)

\* write_finalized_archive with a running intake: the gateway seals before the
\* session's lifecycle is looked at; the writer wants FINALIZED and a binding.
WriteArchiveLive ==
    /\ commands["operator"] = Idle
    /\ worker = "installed"
    /\ request.step # "receipt"
    /\ SealedBatches # <<>>
    /\ batches' = SealedBatches
    /\ archive' = IF active.lifecycle = "FINALIZED"
                  THEN [counted |-> Counted(active),
                        bound |-> UNION ToSet(SealedBatches),
                        source |-> "live"]
                  ELSE archive
    /\ UNCHANGED <<active, durable, inbox, receipts, fence, worker, accepted,
                   request, commands, heartbeat, used>>

\* Faulty variant: a VERIFIED session is archived too.
WriteArchiveRecoveredEarly ==
    /\ commands["operator"] = Idle
    /\ worker # "installed" \/ SealedBatches = <<>>
    /\ active.lifecycle \in {"VERIFIED", "FINALIZED"}
    /\ inbox # {}
    /\ Cardinality(inbox) = Len(active.ledger)
    /\ archive' = [counted |-> Counted(active), bound |-> inbox,
                   source |-> "recovered"]
    /\ UNCHANGED <<active, durable, inbox, receipts, workerVars, commands,
                   heartbeat, used>>

\* recover_finalized_transport_binding_from_durable_state: no running intake
\* (or one that sealed nothing); the inbox must match the accepted count.
WriteArchiveRecovered ==
    /\ commands["operator"] = Idle
    /\ worker # "installed" \/ SealedBatches = <<>>
    /\ active.lifecycle = "FINALIZED"
    /\ inbox # {}
    /\ Cardinality(inbox) = Len(active.ledger)
    /\ archive' = [counted |-> Counted(active), bound |-> inbox,
                   source |-> "recovered"]
    /\ UNCHANGED <<active, durable, inbox, receipts, workerVars, commands,
                   heartbeat, used>>

\* The same without a requirement for a binding, when there is none to recover:
\* no transport was provisioned, or nothing was collected and nothing counted.
WriteArchiveUnbound ==
    /\ commands["operator"] = Idle
    /\ worker # "installed" \/ SealedBatches = <<>>
    /\ active.lifecycle = "FINALIZED"
    /\ used.starts = 0 \/ (inbox = {} /\ active.ledger = <<>>)
    /\ archive' = [counted |-> Counted(active), bound |-> {}, source |-> "unbound"]
    /\ UNCHANGED <<active, durable, inbox, receipts, workerVars, commands,
                   heartbeat, used>>

\* The process dies and the workspace is resumed by replaying its head.
CrashAndResume ==
    /\ used.crashes < MaxCrashes
    /\ used' = [used EXCEPT !.crashes = @ + 1]
    /\ active' = FromDurableSnapshot(durable)
    /\ fence' = "FROZEN"
    /\ worker' = "off"
    /\ accepted' = {}
    /\ batches' = <<>>
    /\ request' = NoRequest
    /\ commands' = [slot \in Slots |-> Idle]
    /\ heartbeat' = NoLifecycle
    /\ UNCHANGED <<durable, inbox, receipts, archive>>

-----------------------------------------------------------------------------
Next ==
    \/ OpenVoting
    \/ FenceClose
    \/ CloseVoting
    \/ MarkVerified
    \/ FinalizeElection
    \/ \E p \in Packages : ImportPackage(p)
    \/ SyncPrivateIntake
    \/ IngestInbox
    \/ \E slot \in Slots : Commit(slot) \/ Install(slot)
    \/ PublishCommitted
    \/ HeartbeatRead
    \/ HeartbeatPublish
    \/ StartIntake
    \/ ServeIntake
    \/ InstallIntake
    \/ StartFails
    \/ StopIntake
    \/ JoinWorker
    \/ \E p \in Packages : AdmitEnvelope(p)
    \/ DeliverEnvelope
    \/ SignReceipt
    \/ WriteArchiveLive
    \/ WriteArchiveRecovered
    \/ WriteArchiveUnbound
    \/ CrashAndResume

Spec == Init /\ [][Next]_vars

\* The organizer's screen polls the status every few seconds, but only while
\* voting is open and the intake runs (autoSyncActive of ManageElection.tsx); a
\* status command that has begun ends.  Nothing else need happen.
TimerRead == active.lifecycle = "OPEN" /\ worker = "installed" /\ HeartbeatRead

FairSpec == Spec /\ WF_vars(TimerRead) /\ WF_vars(HeartbeatPublish)

-----------------------------------------------------------------------------
\* Every variable has the shape its declaration says.
TypeOK ==
    /\ active.lifecycle \in LifecycleStates
    /\ durable.lifecycle \in LifecycleStates
    /\ ToSet(active.packages) \cup ToSet(durable.packages) \subseteq Packages
    /\ inbox \cup receipts \cup accepted \subseteq ValidPackages
    /\ fence \in LifecycleStates
    /\ worker \in {"off", "starting", "serving", "installed", "stopping"}
    /\ ToSet(batches) \subseteq SUBSET Packages
    /\ request.package \in Packages \cup {NoPackage}
    /\ DOMAIN commands = Slots
    /\ heartbeat \in LifecycleStates \cup {NoLifecycle}

\* A voter who holds an ACCEPTED receipt has a package in the durable inbox:
\* no crash or failed write between delivery and receipt can lose it
\* (handle_opaque_envelope hands off before it signs).
ReceiptedIsInInbox == receipts \subseteq inbox

\* Once the close is committed, only ballots the collector took into its inbox
\* can still enter the committed session.  A sync that committed before the
\* close and installs after it brings the active session back to OPEN, where
\* file intake is offered again; no ballot file imported there is ever
\* committed, and no stale clone brings one in (intake_ballot_package,
\* enforce_session_lifecycle_append, reconcile_accepted_package_bytes_from_inbox).
NoLateFileBallotStep ==
    (durable' # durable /\ LifecycleRank[durable.lifecycle] >= LifecycleRank["CLOSED"]) =>
        Counted(FromDurableSnapshot(durable'))
            \subseteq Counted(FromDurableSnapshot(durable)) \cup inbox

\* A finalized archive that was written counts exactly the ballots of the
\* committed final session, for good: no stale clone, second finalization or
\* crash leaves a workspace that disagrees with the published record
\* (write_finalized_archive wants FINALIZED, which is committed before it is
\* installed and never overwritten).
PublishedArchiveIsFinal ==
    archive.source # "none" =>
        /\ durable.lifecycle = "FINALIZED"
        /\ archive.counted = Counted(FromDurableSnapshot(durable))

\* While voting is open a lost, early or overtaken publication heals: the fence
\* of a running intake comes back to OPEN, so the office does not refuse ballots
\* for good (organizer_tor_status reconciles it).
FenceConverges ==
    []<>(worker # "installed" \/ active.lifecycle # "OPEN" \/ fence = "OPEN")

-----------------------------------------------------------------------------
\* What the documentation says and the code does not do.

\* service_loop.rs: "A receipt can therefore never claim acceptance outside
\* the authoritative open state."
ReceiptOnlyWhileOpenStep == receipts' # receipts => fence = "OPEN"
ReceiptOnlyWhileOpen == [][ReceiptOnlyWhileOpenStep]_vars

\* close_voting: "a submission whose admission begins after this command's
\* close can never pass an OPEN fence".
NoAdmissionAfterCloseStep ==
    used'.requests > used.requests =>
        LifecycleRank[durable.lifecycle] <= LifecycleRank["OPEN"]
NoAdmissionAfterClose == [][NoAdmissionAfterCloseStep]_vars

\* sync_private_intake: "The accepted Tor ballot thereby becomes part of the
\* ONE authoritative durable organizer workspace ... and survives restart."
CommittedBallotStaysStep ==
    Counted(FromDurableSnapshot(durable)) \subseteq Counted(FromDurableSnapshot(durable'))
CommittedBallotStays == [][CommittedBallotStaysStep]_vars

\* TRANSPORT_ADMISSION_AND_CLOSE_V1.md: "one AUTHORITATIVE append-only election
\* lifecycle".
ActiveForwardStep ==
    LifecycleRank[active'.lifecycle] >= LifecycleRank[active.lifecycle]
ActiveLifecycleForward == [][ActiveForwardStep]_vars

\* collector.rs: "A genuine different-ballot duplicate returns `Rejected` here
\* and is NOT handed off."
OneReceiptPerVoter ==
    \A p, q \in receipts : NullifierOf[p] = NullifierOf[q] => p = q

\* recover_finalized_transport_binding_from_durable_state: "the reconstructed
\* binding is byte-identical to a live finalize over the same accepted set".
LiveBindingIsRecoverable ==
    (archive.source = "live" /\ archive.counted = inbox)
        => archive.bound = inbox

=============================================================================
