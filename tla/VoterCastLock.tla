---------------------------- MODULE VoterCastLock ----------------------------
(***************************************************************************)
(* The voter's side of a cast: the voter session                           *)
(* (crates/gui-core/src/voter_session.rs), the durable cast lock           *)
(* (crates/gui-core/src/voter_cast_lock.rs) and the desktop commands that  *)
(* call them (gui/src-tauri/src/lib.rs, managed_tor.rs), for one election. *)
(*                                                                         *)
(* A ballot leaves the installation in one of two ways: as a file, exposed *)
(* under the name the voter chose, or as an opaque envelope handed to the  *)
(* Tor carrier.  Both first write a PENDING record for the pair of election*)
(* and credential, and end by marking it CAST.  A step of the model is a   *)
(* stretch between two durable effects, so that a crash can fall on every  *)
(* boundary.  A running command holds the voter mutex: within an instance  *)
(* only commands that wait for that mutex can be overtaken.                *)
(***************************************************************************)
EXTENDS Naturals, FiniteSets

CONSTANTS
    Instances,      \* running copies of the application on one data directory
    Credentials,    \* credentials used here; each has a record of its own
    Shared,         \* those that another device holds as well
    Packages,       \* ballot packages; each preparation makes a new one
    Prover,         \* the credential a package's proof is made with
    Paths,          \* export locations
    Descriptors,    \* transport descriptors the voter can configure
    NoCredential, NoPackage, NoPath, NoDescriptor,
    Foreign,        \* any other file at a path, or another device's ballot
    MaxCrashes,     \* how often an instance crashes
    MaxFailures,    \* how many durable writes and deliveries fail
    MaxMeddling,    \* how often the voter moves files about
    MaxResets,      \* how often the organizer seals a batch or restarts intake
    MaxMishaps      \* how many of these four together

ASSUME CastLockAssumption ==
    /\ Prover \in [Packages -> Credentials]
    /\ Shared \subseteq Credentials
    /\ NoCredential \notin Credentials
    /\ NoPackage \notin Packages /\ Foreign \notin Packages /\ NoPackage # Foreign
    /\ NoPath \notin Paths
    /\ NoDescriptor \notin Descriptors
    /\ {MaxCrashes, MaxFailures, MaxMeddling, MaxResets, MaxMishaps} \subseteq Nat

VARIABLES
    app,        \* per instance: credential, cached lock, prepared ballot, ...
    record,     \* the cast record on disk, per credential
    temp,       \* the ".castpart" file next to each export path
    final,      \* the file at each export path
    staged,     \* the staged envelope on disk, per credential
    receipt,    \* the persisted receipt on disk, per credential
    lifecycle,  \* the lifecycle of the voter's election session
    collector,  \* what the running intake worker has seen, per credential:
                \* nothing, a package that is still pending, or (Foreign)
                \* another device's ballot or one sealed in a batch
    accepted,   \* the packages of this installation ever accepted
    intake,     \* whether the organizer's collector takes ballots
    released,   \* every package that has left, per credential
    made,       \* every package that was prepared
    used        \* what is spent of each bound

vars == <<app, record, temp, final, staged, receipt, lifecycle, collector,
          accepted, intake, released, made, used>>
disk == <<record, temp, final, staged, receipt>>
organizer == <<collector, accepted>>

NoRecord == [kind |-> "none", package |-> NoPackage, cast |-> FALSE,
             path |-> NoPath, descriptor |-> NoDescriptor]
Idle == [step |-> "idle", package |-> NoPackage, path |-> NoPath,
         descriptor |-> NoDescriptor]
NotWaiting == [command |-> "none", lifecycle |-> "OPEN",
               descriptor |-> NoDescriptor]
Launched == [credential |-> NoCredential, lock |-> "NOT_CAST",
             prepared |-> NoPackage, tor |-> NoDescriptor,
             waiting |-> NotWaiting, op |-> Idle]

Init ==
    /\ app = [i \in Instances |-> Launched]
    /\ record = [k \in Credentials |-> NoRecord]
    /\ temp = [p \in Paths |-> NoPackage]
    /\ final = [p \in Paths |-> NoPackage]
    /\ staged = [k \in Credentials |-> NoPackage]
    /\ receipt = [k \in Credentials |-> NoPackage]
    /\ lifecycle = "OPEN"
    /\ collector = [k \in Credentials |-> NoPackage]
    /\ accepted = [k \in Credentials |-> {}]
    /\ intake = "OPEN"
    /\ released = [k \in Credentials |-> {}]
    /\ made = {}
    /\ used = [crashes |-> 0, failures |-> 0, meddling |-> 0, resets |-> 0]

-----------------------------------------------------------------------------
\* The voter session and the commands around it.

Free(i) == app[i].op = Idle
Credential(i) == app[i].credential

Bounded ==
    used.crashes + used.failures + used.meddling + used.resets < MaxMishaps

\* A write or a delivery fails.
Fails ==
    /\ used.failures < MaxFailures /\ Bounded
    /\ used' = [used EXCEPT !.failures = @ + 1]

\* apply_voter_cast_lock_at reads the record before every gated command and
\* the command goes on only when there is none.  With a record the command is
\* refused, having done what a status refresh does: see RefreshStatus.
NotLocked(i) ==
    Credential(i) # NoCredential => record[Credential(i)].kind = "none"

\* install_credential, generate_credential: the prepared ballot is dropped.
\* The cached lock is left as it was until the next gated command.
LoadCredential(i, k) ==
    /\ Free(i)
    /\ app' = [app EXCEPT ![i].credential = k, ![i].prepared = NoPackage]
    /\ UNCHANGED <<disk, lifecycle, organizer, intake, released, made, used>>

\* reset_credential, reset_workflow, clear_credential_from_memory.
ClearCredential(i) ==
    /\ Free(i)
    /\ app' = [app EXCEPT ![i].credential = NoCredential,
                          ![i].prepared = NoPackage]
    /\ UNCHANGED <<disk, lifecycle, organizer, intake, released, made, used>>

\* configure_managed_tor.
ConfigureTor(i, d) ==
    /\ app' = [app EXCEPT ![i].tor = d]
    /\ UNCHANGED <<disk, lifecycle, organizer, intake, released, made, used>>

\* set_selection, clear_selection and discard_prepared_ballot all drop the
\* prepared ballot, and are refused once there is a record.  The two that
\* change the selection also need the election open; discarding does not.
ChangeChoice(i) ==
    /\ Free(i)
    /\ NotLocked(i)
    /\ app' = [app EXCEPT ![i].lock = "NOT_CAST", ![i].prepared = NoPackage]
    /\ UNCHANGED <<disk, lifecycle, organizer, intake, released, made, used>>

\* Preparing, releasing and retrying read the lifecycle under the session
\* lock, and the descriptor under the Tor lock, before they wait for the voter.
BeginCommand(i, command) ==
    /\ app[i].waiting = NotWaiting
    /\ command \in {"release", "retry"} => app[i].tor # NoDescriptor
    /\ app' = [app EXCEPT ![i].waiting = [command |-> command,
                                          lifecycle |-> lifecycle,
                                          descriptor |-> app[i].tor]]
    /\ UNCHANGED <<disk, lifecycle, organizer, intake, released, made, used>>

\* prepare_voter_ballot_in_state with the voter mutex: the proof is made and
\* checked while the mutex is held, and installed if the token still matches.
PrepareBallot(i, p) ==
    /\ Free(i)
    /\ app[i].waiting.command = "prepare"
    /\ app[i].waiting.lifecycle = "OPEN"
    /\ NotLocked(i)
    /\ p \notin made
    /\ Prover[p] = Credential(i)
    /\ made' = made \cup {p}
    /\ app' = [app EXCEPT ![i].lock = "NOT_CAST", ![i].prepared = p,
                          ![i].waiting = NotWaiting]
    /\ UNCHANGED <<disk, lifecycle, organizer, intake, released, used>>

\* A waiting command that is refused: it leaves no trace but the cached lock,
\* which the next status refresh sets anyway.
Refused(i) ==
    /\ Free(i)
    /\ app[i].waiting # NotWaiting
    /\ app' = [app EXCEPT ![i].waiting = NotWaiting]
    /\ UNCHANGED <<disk, lifecycle, organizer, intake, released, made, used>>

-----------------------------------------------------------------------------
\* Offline export: export_and_cast_prepared_ballot.

Op(i, step) == [app EXCEPT ![i].op.step = step]

\* A command that fails leaves the voter locked once the record is written.
Stop(i, lock) == [app EXCEPT ![i].op = Idle, ![i].lock = lock]

\* The command ends with the ballot cast.
Done(i) == [app EXCEPT ![i].op = Idle, ![i].lock = "CAST",
                       ![i].prepared = NoPackage]

\* Guards up to the destination probe.  The session lock is held from here to
\* the end, so the lifecycle cannot change under an export.
BeginExport(i, path) ==
    /\ Free(i)
    /\ NotLocked(i)
    /\ lifecycle = "OPEN"
    /\ Credential(i) # NoCredential
    /\ app[i].prepared # NoPackage
    /\ final[path] = NoPackage
    /\ app' = [app EXCEPT ![i].lock = "NOT_CAST",
                          ![i].op = [step |-> "temp", path |-> path,
                                     package |-> app[i].prepared,
                                     descriptor |-> NoDescriptor]]
    /\ UNCHANGED <<disk, lifecycle, organizer, intake, released, made, used>>

\* An old temp file is removed, the package written, synced and read back.
WriteTemp(i) ==
    /\ app[i].op.step = "temp"
    /\ \/ /\ temp' = [temp EXCEPT ![app[i].op.path] = app[i].op.package]
          /\ app' = Op(i, "pending_export")
          /\ UNCHANGED used
       \/ /\ Fails
          /\ temp' = [temp EXCEPT ![app[i].op.path] = Foreign]
          /\ app' = Stop(i, app[i].lock)
    /\ UNCHANGED <<record, final, staged, receipt, lifecycle, organizer, intake,
                   released, made>>

\* Faulty variant: the file is exposed though the record was not written.
WritePendingExportOptional(i) ==
    /\ app[i].op.step = "pending_export"
    /\ Fails
    /\ app' = Op(i, "link")
    /\ UNCHANGED <<disk, lifecycle, organizer, intake, released, made>>

\* write_cast_record_pending_v1.  write_record_bytes_atomic replaces the file
\* in one rename, whether or not a record appeared since it was looked for.
WritePendingExport(i) ==
    /\ app[i].op.step = "pending_export"
    /\ \/ /\ record' = [record EXCEPT ![Credential(i)] =
                          [kind |-> "offline", package |-> app[i].op.package,
                           cast |-> FALSE, path |-> app[i].op.path,
                           descriptor |-> NoDescriptor]]
          /\ app' = Op(i, "link")
          /\ UNCHANGED used
       \/ Fails /\ app' = Stop(i, app[i].lock) /\ UNCHANGED record
    /\ UNCHANGED <<temp, final, staged, receipt, lifecycle, organizer, intake,
                   released, made>>

\* Faulty variant: a rename, which replaces.
LinkReplacing(path) ==
    /\ temp[path] # NoPackage
    /\ final' = [final EXCEPT ![path] = temp[path]]
    /\ temp' = [temp EXCEPT ![path] = NoPackage]

\* finalize_verified_cast_temp_without_overwrite: a hard link fails when the
\* name is taken; the temp name is removed afterwards, best effort.
Link(path) ==
    /\ final[path] = NoPackage
    /\ temp[path] # NoPackage
    /\ final' = [final EXCEPT ![path] = temp[path]]
    /\ \/ temp' = [temp EXCEPT ![path] = NoPackage]
       \/ UNCHANGED temp

ExposeFinal(i) ==
    LET path == app[i].op.path IN
    /\ app[i].op.step = "link"
    /\ \/ /\ Link(path)
          /\ released' = [released EXCEPT ![Credential(i)] = @ \cup {temp[path]}]
          /\ app' = Op(i, "promote")
          /\ UNCHANGED used
       \/ /\ final[path] # NoPackage \/ temp[path] = NoPackage
          /\ app' = Stop(i, "CAST_PENDING")
          /\ UNCHANGED <<final, temp, released, used>>
       \/ /\ Fails
          /\ app' = Stop(i, "CAST_PENDING")
          /\ UNCHANGED <<final, temp, released>>
    /\ UNCHANGED <<record, staged, receipt, lifecycle, organizer, intake, made>>

\* promote_cast_record_to_cast_v1, which both ways of casting end with.
Promote(i) ==
    LET k == Credential(i) IN
    /\ app[i].op.step = "promote"
    /\ \/ /\ record' = [record EXCEPT ![k].cast = TRUE]
          /\ app' = Done(i)
          /\ UNCHANGED used
       \/ Fails /\ app' = Stop(i, "CAST_PENDING") /\ UNCHANGED record
    /\ UNCHANGED <<temp, final, staged, receipt, lifecycle, organizer, intake,
                   released, made>>

-----------------------------------------------------------------------------
\* Online release: release_prepared_ballot_via_private_transport and
\* retry_pending_private_transport_release.

\* Faulty variant: it is not checked that a ballot is prepared.
BeginReleaseUnprepared(i) ==
    /\ Free(i)
    /\ app[i].waiting.command = "release"
    /\ NotLocked(i)
    /\ Credential(i) # NoCredential
    /\ app' = [app EXCEPT ![i].lock = "NOT_CAST", ![i].waiting = NotWaiting,
                          ![i].op = [step |-> "stage", path |-> NoPath,
                                     package |-> app[i].prepared,
                                     descriptor |-> app[i].waiting.descriptor]]
    /\ UNCHANGED <<disk, lifecycle, organizer, intake, released, made, used>>

\* The lifecycle that is checked is the one read before the voter mutex.
BeginRelease(i) ==
    /\ Free(i)
    /\ app[i].waiting.command = "release"
    /\ app[i].waiting.lifecycle = "OPEN"
    /\ NotLocked(i)
    /\ Credential(i) # NoCredential
    /\ app[i].prepared # NoPackage
    /\ app' = [app EXCEPT ![i].lock = "NOT_CAST", ![i].waiting = NotWaiting,
                          ![i].op = [step |-> "stage", path |-> NoPath,
                                     package |-> app[i].prepared,
                                     descriptor |-> app[i].waiting.descriptor]]
    /\ UNCHANGED <<disk, lifecycle, organizer, intake, released, made, used>>

\* Faulty variant: the envelope is to be staged later.
StageEnvelopeLater(i) ==
    /\ app[i].op.step = "stage"
    /\ app' = Op(i, "pending_release")
    /\ UNCHANGED <<disk, lifecycle, organizer, intake, released, made, used>>

\* stage_release_envelope_v1: the envelope that is sent is the one on disk.
StageEnvelope(i) ==
    /\ app[i].op.step = "stage"
    /\ \/ /\ staged' = [staged EXCEPT ![Credential(i)] = app[i].op.package]
          /\ app' = Op(i, "pending_release")
          /\ UNCHANGED used
       \/ Fails /\ app' = Stop(i, app[i].lock) /\ UNCHANGED staged
    /\ UNCHANGED <<record, temp, final, receipt, lifecycle, organizer, intake,
                   released, made>>

\* write_cast_record_pending_private_transport_v1; the cached lock follows.
WritePendingRelease(i) ==
    /\ app[i].op.step = "pending_release"
    /\ \/ /\ record' = [record EXCEPT ![Credential(i)] =
                          [kind |-> "online", package |-> app[i].op.package,
                           cast |-> FALSE, path |-> NoPath,
                           descriptor |-> app[i].op.descriptor]]
          /\ app' = [app EXCEPT ![i].op.step = "send",
                                ![i].lock = "CAST_PENDING"]
          /\ UNCHANGED used
       \/ Fails /\ app' = Stop(i, app[i].lock) /\ UNCHANGED record
    /\ UNCHANGED <<temp, final, staged, receipt, lifecycle, organizer, intake,
                   released, made>>

\* Faulty variant: a retry starts over from a pending record.
BeginRetryAnew(i) ==
    LET k == Credential(i) IN
    /\ Free(i)
    /\ app[i].waiting.command = "retry"
    /\ k # NoCredential
    /\ record[k].kind = "online"
    /\ record' = [record EXCEPT ![k].cast = FALSE]
    /\ app' = [app EXCEPT ![i].waiting = NotWaiting, ![i].lock = "CAST_PENDING"]
    /\ UNCHANGED <<temp, final, staged, receipt, lifecycle, organizer, intake,
                   released, made, used>>

\* A retry takes the package, and the descriptor, from the pending record.
BeginRetry(i) ==
    LET k == Credential(i) IN
    /\ Free(i)
    /\ app[i].waiting.command = "retry"
    /\ k # NoCredential
    /\ record[k].kind = "online"
    /\ ~record[k].cast
    /\ app' = [app EXCEPT
                 ![i].waiting = NotWaiting,
                 ![i].lock = "CAST_PENDING",
                 ![i].op = IF app[i].waiting.descriptor = record[k].descriptor
                           THEN [step |-> "send", path |-> NoPath,
                                 package |-> record[k].package,
                                 descriptor |-> record[k].descriptor]
                           ELSE Idle]
    /\ UNCHANGED <<disk, lifecycle, organizer, intake, released, made, used>>

\* read_and_verify_staged_release_envelope_v1, then the carrier is called:
\* from here on the envelope may have left.
Send(i) ==
    LET k == Credential(i) IN
    /\ app[i].op.step = "send"
    /\ \/ /\ staged[k] = app[i].op.package
          /\ released' = [released EXCEPT ![k] = @ \cup {staged[k]}]
          /\ app' = Op(i, "deliver")
       \/ /\ staged[k] # app[i].op.package
          /\ app' = Stop(i, "CAST_PENDING")
          /\ UNCHANGED released
    /\ UNCHANGED <<disk, lifecycle, organizer, intake, made, used>>

\* deliver_admitted acknowledges the first package of a credential that the
\* running worker sees, and that same package again while it is pending.
Acknowledges(k, p) == collector[k] \in {NoPackage, p}

\* An acknowledged package is in the worker's memory and in the inbox; a
\* rejected one changes nothing.
Collect(k, p) ==
    IF Acknowledges(k, p)
    THEN /\ collector' = [collector EXCEPT ![k] = p]
         /\ accepted' = [accepted EXCEPT ![k] = @ \cup {p}]
    ELSE UNCHANGED organizer

\* Faulty variant: any authenticated receipt will do, a rejection too.
DeliverTrusting(i) ==
    /\ app[i].op.step = "deliver"
    /\ intake = "OPEN"
    /\ Collect(Credential(i), app[i].op.package)
    /\ app' = Op(i, "receipt")
    /\ UNCHANGED <<disk, lifecycle, intake, released, made, used>>

\* deliver_opaque_envelope and the checks of the answer.  The carrier fails,
\* before or after the envelope arrived; or the answer rejects the package; or
\* it is an authenticated receipt for it.
Deliver(i) ==
    LET k == Credential(i)
        p == app[i].op.package
    IN
    /\ app[i].op.step = "deliver"
    /\ \/ /\ Fails
          /\ app' = Stop(i, "CAST_PENDING")
          /\ UNCHANGED organizer \/ (intake = "OPEN" /\ Collect(k, p))
       \/ /\ intake = "OPEN"
          /\ Collect(k, p)
          /\ app' = IF Acknowledges(k, p) THEN Op(i, "receipt")
                                          ELSE Stop(i, "CAST_PENDING")
          /\ UNCHANGED used
       \/ /\ intake = "CLOSED"
          /\ app' = Stop(i, "CAST_PENDING")
          /\ UNCHANGED <<organizer, used>>
    /\ UNCHANGED <<disk, lifecycle, intake, released, made>>

\* persist_release_receipt_evidence_v1.
PersistReceipt(i) ==
    /\ app[i].op.step = "receipt"
    /\ \/ /\ receipt' = [receipt EXCEPT ![Credential(i)] = app[i].op.package]
          /\ app' = Op(i, "promote")
          /\ UNCHANGED used
       \/ Fails /\ app' = Stop(i, "CAST_PENDING") /\ UNCHANGED receipt
    /\ UNCHANGED <<record, temp, final, staged, lifecycle, organizer, intake,
                   released, made>>

-----------------------------------------------------------------------------
\* Status refresh and recovery.

\* What the resolvers say of a record they do not change.
Shown(i) ==
    LET r == record[Credential(i)] IN
    CASE Credential(i) = NoCredential -> "NOT_CAST"
      [] Credential(i) # NoCredential /\ r.kind = "none" -> "NOT_CAST"
      [] Credential(i) # NoCredential /\ r.kind # "none" ->
           IF r.cast /\ ~(r.kind = "offline" /\ app[i].tor # NoDescriptor)
           THEN "CAST" ELSE "CAST_PENDING"

\* recover_pending_record, reached only without a descriptor: the exact file
\* is at its place, or its temp file can be linked there.
ExportIsThere(i) ==
    /\ Credential(i) # NoCredential
    /\ LET r == record[Credential(i)] IN
       /\ app[i].tor = NoDescriptor
       /\ r.kind = "offline" /\ ~r.cast
       /\ final[r.path] = r.package

ExportCanBeLinked(i) ==
    /\ Credential(i) # NoCredential
    /\ LET r == record[Credential(i)] IN
       /\ app[i].tor = NoDescriptor
       /\ r.kind = "offline" /\ ~r.cast
       /\ final[r.path] = NoPackage
       /\ temp[r.path] = r.package

\* promote_online_record_if_receipt_valid, reached only with a descriptor.
ReceiptPromotes(i) ==
    /\ Credential(i) # NoCredential
    /\ LET r == record[Credential(i)] IN
       /\ r.kind = "online" /\ ~r.cast
       /\ app[i].tor # NoDescriptor /\ app[i].tor = r.descriptor
       /\ receipt[Credential(i)] = r.package

Promoted(i) == [record EXCEPT ![Credential(i)].cast = TRUE]
Show(i, lock) == [app EXCEPT ![i].lock = lock]

\* voter_workflow_status and the resolution every gated command begins with.
RefreshStatus(i) ==
    /\ Free(i)
    /\ \/ /\ ~(ExportIsThere(i) \/ ExportCanBeLinked(i) \/ ReceiptPromotes(i))
          /\ app' = Show(i, Shown(i))
          /\ UNCHANGED <<record, temp, final, released, used>>
       \/ /\ ExportIsThere(i)
          /\ record' = Promoted(i)
          /\ temp' = [temp EXCEPT ![record[Credential(i)].path] = NoPackage]
          /\ app' = Show(i, "CAST")
          /\ UNCHANGED <<final, released, used>>
       \/ /\ ExportCanBeLinked(i)
          /\ Link(record[Credential(i)].path)
          /\ released' = [released EXCEPT ![Credential(i)] =
                            @ \cup {record[Credential(i)].package}]
          /\ \/ /\ record' = Promoted(i)
                /\ app' = Show(i, "CAST")
                /\ UNCHANGED used
             \/ Fails /\ app' = Show(i, "CAST_PENDING") /\ UNCHANGED record
       \/ /\ ReceiptPromotes(i)
          /\ record' = Promoted(i)
          /\ app' = Show(i, "CAST")
          /\ UNCHANGED <<temp, final, released, used>>
       \/ /\ ExportIsThere(i) \/ ExportCanBeLinked(i) \/ ReceiptPromotes(i)
          /\ Fails
          /\ app' = Show(i, "CAST_PENDING")
          /\ UNCHANGED <<record, temp, final, released>>
    /\ UNCHANGED <<staged, receipt, lifecycle, organizer, intake, made>>

-----------------------------------------------------------------------------
\* Around the application.

\* A crash, or the voter quitting: memory is lost, the disk is not.
Crash(i) ==
    /\ used.crashes < MaxCrashes /\ Bounded
    /\ app' = [app EXCEPT ![i] = Launched]
    /\ used' = [used EXCEPT !.crashes = @ + 1]
    /\ UNCHANGED <<disk, lifecycle, organizer, intake, released, made>>

\* The voter puts another file at an export path, or takes a file away.
Meddle(path) ==
    /\ used.meddling < MaxMeddling /\ Bounded
    /\ final' = [final EXCEPT ![path] =
                   IF final[path] = NoPackage THEN Foreign ELSE NoPackage]
    /\ used' = [used EXCEPT !.meddling = @ + 1]
    /\ UNCHANGED <<app, record, temp, staged, receipt, lifecycle, organizer,
                   intake, released, made>>

\* The organizer closes; later a signed status tells the voter's session,
\* which needs the session lock an export holds.
CloseIntake ==
    /\ intake = "OPEN"
    /\ intake' = "CLOSED"
    /\ UNCHANGED <<app, disk, lifecycle, organizer, released, made, used>>

Exporting(i) == app[i].op.path # NoPath

LearnClosed ==
    /\ intake = "CLOSED"
    /\ lifecycle = "OPEN"
    /\ \A i \in Instances : ~Exporting(i)
    /\ lifecycle' = "CLOSED"
    /\ UNCHANGED <<app, disk, organizer, intake, released, made, used>>

\* The same credential votes from another device.
VoteElsewhere(k) ==
    /\ intake = "OPEN"
    /\ collector[k] = NoPackage
    /\ collector' = [collector EXCEPT ![k] = Foreign]
    /\ UNCHANGED <<app, disk, lifecycle, accepted, intake, released, made, used>>

\* After the close the worker's memory is asked for nothing any more.
Resets ==
    /\ intake = "OPEN"
    /\ used.resets < MaxResets /\ Bounded
    /\ used' = [used EXCEPT !.resets = @ + 1]

\* An archive is asked for: the worker's gateway seals what is pending, and no
\* longer knows it from another package of that credential.
SealBatch ==
    /\ Resets
    /\ \E k \in Credentials : collector[k] \in Packages
    /\ collector' = [k \in Credentials |->
                        IF collector[k] \in Packages THEN Foreign ELSE collector[k]]
    /\ UNCHANGED <<app, disk, lifecycle, accepted, intake, released, made>>

\* The organizer stops and starts the intake: the new worker's session and
\* gateway are empty, the inbox keeps what was accepted.
RestartIntake ==
    /\ Resets
    /\ \E k \in Credentials : collector[k] # NoPackage
    /\ collector' = [k \in Credentials |-> NoPackage]
    /\ UNCHANGED <<app, disk, lifecycle, accepted, intake, released, made>>

InstanceStep(i) ==
    \/ \E k \in Credentials : LoadCredential(i, k)
    \/ ClearCredential(i)
    \/ \E d \in Descriptors : ConfigureTor(i, d)
    \/ ChangeChoice(i)
    \/ \E command \in {"prepare", "release", "retry"} : BeginCommand(i, command)
    \/ \E p \in Packages : PrepareBallot(i, p)
    \/ Refused(i)
    \/ \E path \in Paths : BeginExport(i, path)
    \/ WriteTemp(i)
    \/ WritePendingExport(i)
    \/ ExposeFinal(i)
    \/ BeginRelease(i)
    \/ StageEnvelope(i)
    \/ WritePendingRelease(i)
    \/ BeginRetry(i)
    \/ Send(i)
    \/ Deliver(i)
    \/ PersistReceipt(i)
    \/ Promote(i)
    \/ RefreshStatus(i)
    \/ Crash(i)

Next ==
    \/ \E i \in Instances : InstanceStep(i)
    \/ \E path \in Paths : Meddle(path)
    \/ CloseIntake
    \/ LearnClosed
    \/ \E k \in Shared : VoteElsewhere(k)
    \/ SealBatch
    \/ RestartIntake

Spec == Init /\ [][Next]_vars

-----------------------------------------------------------------------------
\* Properties.

Record == [kind : {"none", "offline", "online"},
           package : Packages \cup {NoPackage}, cast : BOOLEAN,
           path : Paths \cup {NoPath},
           descriptor : Descriptors \cup {NoDescriptor}]
Locks == {"NOT_CAST", "CAST_PENDING", "CAST"}
Steps == {"idle", "temp", "pending_export", "link", "promote", "stage",
          "pending_release", "send", "deliver", "receipt"}
Operation == [step : Steps, package : Packages \cup {NoPackage},
              path : Paths \cup {NoPath},
              descriptor : Descriptors \cup {NoDescriptor}]
Waiting == [command : {"none", "prepare", "release", "retry"},
            lifecycle : {"OPEN", "CLOSED"},
            descriptor : Descriptors \cup {NoDescriptor}]
Content == Packages \cup {NoPackage, Foreign}

\* The types of the voter session, of the files of the cast lock and of the
\* organizer's answer.
TypeOK ==
    /\ app \in [Instances -> [credential : Credentials \cup {NoCredential},
                              lock : Locks,
                              prepared : Packages \cup {NoPackage},
                              tor : Descriptors \cup {NoDescriptor},
                              waiting : Waiting, op : Operation]]
    /\ \A i \in Instances : app[i].op # Idle => app[i].op.package \in Packages
    /\ record \in [Credentials -> Record]
    /\ temp \in [Paths -> Content]
    /\ final \in [Paths -> Content]
    /\ staged \in [Credentials -> Packages \cup {NoPackage}]
    /\ receipt \in [Credentials -> Packages \cup {NoPackage}]
    /\ lifecycle \in {"OPEN", "CLOSED"}
    /\ collector \in [Credentials -> Content]
    /\ accepted \in [Credentials -> SUBSET Packages]
    /\ intake \in {"OPEN", "CLOSED"}
    /\ released \in [Credentials -> SUBSET Packages]
    /\ made \subseteq Packages
    /\ used \in [crashes : 0..MaxCrashes, failures : 0..MaxFailures,
                 meddling : 0..MaxMeddling, resets : 0..MaxResets]

\* Whatever has left for a credential, as a file or through the carrier, over
\* crashes, failed writes, retries and recoveries, is the one package that its
\* record on disk names: the voter is locked to it before it leaves.
ReleasedIsRecorded ==
    \A k \in Credentials : released[k] \subseteq {record[k].package}

\* A record names a ballot proven with its credential, however credentials are
\* locked, unlocked and swapped between preparing and casting; and CAST is backed
\* by what happened: the exported file was exposed, or some run of the intake took
\* this very package, whatever later runs have forgotten or sealed.
RecordIsTrue ==
    \A k \in Credentials :
        LET r == record[k] IN
        /\ r.kind # "none" => Prover[r.package] = k
        /\ r.cast /\ r.kind = "offline" => r.package \in released[k]
        /\ r.cast /\ r.kind = "online" => r.package \in accepted[k]

\* Wherever a crash falls, a PENDING record can be finished with the same
\* ballot: its envelope is still staged for the retry; or its file is at its
\* place or next to it, unless the voter moved files or casts with a second
\* credential too (see PendingExportKept).
PendingCanFinish ==
    \A k \in Credentials :
        LET r == record[k] IN
        /\ /\ r.kind = "offline" /\ ~r.cast
           /\ used.meddling = 0
           /\ \A p \in made : Prover[p] = k
           => r.package \in {temp[r.path], final[r.path]}
        /\ r.kind = "online" /\ ~r.cast => staged[k] = r.package

RecordForwardStep ==
    \A k \in Credentials :
        record[k].kind # "none" =>
            /\ record'[k] = [record[k] EXCEPT !.cast = record'[k].cast]
            /\ record[k].cast => record'[k].cast

\* A record is never removed, never names another ballot, place or way of
\* casting, and CAST is never taken back.
RecordForward == [][RecordForwardStep]_vars

NoOverwriteStep ==
    \A path \in Paths :
        final[path] = Foreign => final'[path] \in {Foreign, NoPackage}

\* Neither an export nor a recovery replaces a file the voter put at the
\* chosen place, even one that appeared after the place was checked.
NoOverwrite == [][NoOverwriteStep]_vars

-----------------------------------------------------------------------------
\* What the documentation says and the code does not do.

\* voter_cast_lock.rs says that after an export "the choice cannot be changed
\* and no new ballot can be prepared" on this installation: no two packages
\* leave under one credential.  Two running copies of the application pass the
\* check for a record before either writes one.
OneBallotLeaves ==
    \A k \in Credentials : Cardinality(released[k]) <= 1

\* finalize_verified_cast_temp_without_overwrite says that on an error "the temp
\* is left intact" so that "recovery can finalize the SAME ballot later".  The
\* next export to that path, for another credential or another election, finds
\* the final name free and begins by removing the temp file.
PendingExportKept ==
    \A k \in Credentials :
        LET r == record[k] IN
        r.kind = "offline" /\ ~r.cast /\ used.meddling = 0
        => r.package \in {temp[r.path], final[r.path]}

CastStaysCastStep ==
    \A i \in Instances :
        /\ app[i].lock = "CAST"
        /\ app'[i].credential = app[i].credential
        /\ used'.crashes = used.crashes
        => app'[i].lock = "CAST"

\* voter_cast_lock.rs says of CAST: "Terminal and irreversible from the normal
\* application."  With a transport configured, the resolver for online records
\* answers CAST_PENDING for a ballot that was cast by export.
CastStaysCast == [][CastStaysCastStep]_vars

RefreshFinishesExportStep ==
    \A i \in Instances : \A k \in Credentials :
        LET r == record[k] IN
        /\ RefreshStatus(i)
        /\ Credential(i) = k
        /\ r.kind = "offline" /\ ~r.cast
        /\ final[r.path] = r.package
        /\ used'.failures = used.failures
        => record'[k].cast

\* export_and_cast_prepared_ballot says that after a crash "recovery ...
\* finalizes the same ballot when it can prove it".  With a transport
\* configured it leaves the exported ballot pending with its file in place.
RefreshFinishesExport == [][RefreshFinishesExportStep]_vars

ReleaseOnlyWhileOpenStep ==
    \A k \in Credentials :
        /\ record[k].kind = "none"
        /\ record'[k].kind # "none"
        => lifecycle = "OPEN"

\* release_prepared_ballot_via_private_transport says "a prepared ballot can be
\* released only while the election is open".  It checks a lifecycle that was
\* read before the voter mutex was waited for.
ReleaseOnlyWhileOpen == [][ReleaseOnlyWhileOpenStep]_vars

=============================================================================
