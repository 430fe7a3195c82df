--------------------------- MODULE ElectionStatus ---------------------------
(***************************************************************************)
(* Signed election-status statements, from the organizer's durable issuance *)
(* counter and lifecycle fence to a voter's monotonic knowledge.           *)
(*                                                                         *)
(* A statement pairs a lifecycle state with a generation.  The organizer   *)
(* signs one for an offline export, and one for every online query, from   *)
(* the fence of the running intake.  Generations come from a counter file  *)
(* that is read and rewritten without a lock.  A signed statement may reach *)
(* the voter late, twice, out of order or never.  The voter keeps the last *)
(* accepted statement on disk and replays it after a restart.              *)
(***************************************************************************)
EXTENDS Naturals, Sequences

CONSTANTS
    MaxExports,    \* bound on offline exports
    MaxAnswers,    \* bound on answered status queries
    MaxFailures,   \* bound on failed counter or record writes
    MaxHeartbeats, \* bound on heartbeats that may lag behind the lifecycle
    MaxRestarts,   \* bound on restarts of the organizer, its intake or the voter
    MaxEvents      \* bound on exports, failures, heartbeats and restarts together

ASSUME StatusAssumption ==
    {MaxExports, MaxAnswers, MaxFailures, MaxHeartbeats, MaxRestarts,
     MaxEvents} \subseteq Nat

VARIABLES
    lifecycle,   \* the organizer's committed lifecycle
    heartbeat,   \* the lifecycle a status heartbeat has read
    closing,     \* the step of a running close_voting: fencing, then committing
    issued,      \* the generation in the durable issuance record
    issuers,     \* the two users of the counter: [step, read, state, generation]
    fence,       \* AuthoritativeLifecycleFenceV1: [up, state, generation]
    answering,   \* the state an online answer has read from the fence
    published,   \* every statement signed so far
    session,     \* the lifecycle of the voter's session
    record,      \* the voter's persisted statement
    used         \* how much of each bound is used

organizerVars == <<lifecycle, heartbeat, closing, issued, issuers, fence, answering,
                  published>>
voterVars == <<session, record>>
vars == <<lifecycle, heartbeat, closing, issued, issuers, fence, answering, published,
          session, record, used>>

States == {"FROZEN", "OPEN", "CLOSED", "VERIFIED", "FINALIZED"}
Order == <<"FROZEN", "OPEN", "CLOSED", "VERIFIED", "FINALIZED">>

\* The order of ElectionLifecycleStateV1; "NONE" stands for no state known.
Rank(s) ==
    CASE s = "FROZEN" -> 1
      [] s = "OPEN" -> 2
      [] s = "CLOSED" -> 3
      [] s = "VERIFIED" -> 4
      [] s = "FINALIZED" -> 5
      [] OTHER -> 0

Issuers == {"export", "intake"}
Statement == [state : States, generation : Nat]
NoRecord == [state |-> "NONE", generation |-> 0]
NoAnswer == "NONE"
NoHeartbeat == "NONE"
Resting == [step |-> "idle", read |-> 0, state |-> "NONE", generation |-> 0]
FenceDown == [up |-> FALSE, state |-> "FROZEN", generation |-> 0]

Events == used.exports + used.failures + used.heartbeats + used.restarts

\* A write fails, within the bounds.
Fails ==
    /\ used.failures < MaxFailures
    /\ Events < MaxEvents
    /\ used' = [used EXCEPT !.failures = @ + 1]

\* A process or the intake stops, within the bounds.
Restarts ==
    /\ used.restarts < MaxRestarts
    /\ Events < MaxEvents
    /\ used' = [used EXCEPT !.restarts = @ + 1]

Init ==
    /\ lifecycle = "FROZEN"
    /\ heartbeat = NoHeartbeat
    /\ closing = "no"
    /\ issued = 0
    /\ issuers = [i \in Issuers |-> Resting]
    /\ fence = FenceDown
    /\ answering = NoAnswer
    /\ published = {}
    /\ session = "FROZEN"
    /\ record = NoRecord
    /\ used = [exports |-> 0, answers |-> 0, failures |-> 0, heartbeats |-> 0,
               restarts |-> 0]

-----------------------------------------------------------------------------
\* The organizer's lifecycle.

\* open_voting, mark_verified and finalize_election commit, then publish.
AdvanceLifecycle ==
    /\ lifecycle \notin {"OPEN", "FINALIZED"}
    /\ lifecycle' = Order[Rank(lifecycle) + 1]
    /\ UNCHANGED <<heartbeat, closing, issued, issuers, fence, answering, published,
                   voterVars, used>>

\* close_voting publishes CLOSED first ...
BeginClose ==
    /\ lifecycle = "OPEN"
    /\ closing = "no"
    /\ closing' = "fencing"
    /\ UNCHANGED <<lifecycle, heartbeat, issued, issuers, fence, answering, published,
                   voterVars, used>>

\* ... unless there is no intake to publish to, or it is fenced already ...
SkipFencing ==
    /\ closing = "fencing"
    /\ fence.up => fence.state = "CLOSED"
    /\ closing' = "committing"
    /\ UNCHANGED <<lifecycle, heartbeat, issued, issuers, fence, answering, published,
                   voterVars, used>>

\* ... then commits, which may fail.
CommitClose ==
    /\ closing = "committing"
    /\ closing' = "no"
    /\ \/ lifecycle' = "CLOSED" /\ UNCHANGED used
       \/ Fails /\ UNCHANGED lifecycle
    /\ UNCHANGED <<heartbeat, issued, issuers, fence, answering, published,
                   voterVars>>

-----------------------------------------------------------------------------
\* The issuance counter: reserve_next_status_generation_v1 reads it ...
BeginReserve(i, state) ==
    /\ issuers[i] = Resting
    /\ issuers' = [issuers EXCEPT ![i] =
           [step |-> "write", read |-> issued, state |-> state, generation |-> 0]]

BeginExport ==
    /\ used.exports < MaxExports
    /\ Events < MaxEvents
    /\ BeginReserve("export", "NONE")
    /\ used' = [used EXCEPT !.exports = @ + 1]
    /\ UNCHANGED <<lifecycle, heartbeat, closing, issued, fence, answering,
                   published, voterVars>>

\* organizer_tor_status reads the lifecycle before it takes the intake lock.
HeartbeatRead ==
    /\ heartbeat = NoHeartbeat
    /\ used.heartbeats < MaxHeartbeats
    /\ Events < MaxEvents
    /\ heartbeat' = lifecycle
    /\ used' = [used EXCEPT !.heartbeats = @ + 1]
    /\ UNCHANGED <<lifecycle, closing, issued, issuers, fence, answering, published,
                   voterVars>>

\* Under the lock it finds no intake, or a fence in the state it read.
HeartbeatEnds ==
    /\ heartbeat # NoHeartbeat
    /\ issuers["intake"] = Resting
    /\ fence.up => fence.state = heartbeat
    /\ heartbeat' = NoHeartbeat
    /\ UNCHANGED <<lifecycle, closing, issued, issuers, fence, answering, published,
                   voterVars, used>>

\* reconcile_intake_lifecycle, under the intake lock, for a committed
\* transition, a close or the heartbeat, whose state may be old by now: an
\* unchanged state reserves nothing.
BeginPublish(target) ==
    /\ \/ target = lifecycle /\ UNCHANGED heartbeat
       \/ closing = "fencing" /\ target = "CLOSED" /\ UNCHANGED heartbeat
       \/ target = heartbeat /\ heartbeat' = NoHeartbeat
    /\ fence.up
    /\ fence.state # target
    /\ BeginReserve("intake", target)
    /\ UNCHANGED <<lifecycle, closing, issued, fence, answering, published,
                   voterVars, used>>

\* start_collector_service_shared reserves the fence's seed.
BeginStart ==
    /\ ~fence.up
    /\ BeginReserve("intake", lifecycle)
    /\ UNCHANGED <<lifecycle, heartbeat, closing, issued, fence, answering, published,
                   voterVars, used>>

\* ... and renames the new value into place.
WriteReservation(i) ==
    /\ issuers[i].step = "write"
    /\ issued' = issuers[i].read + 1
    /\ issuers' = [issuers EXCEPT ![i].step = "sign",
                                  ![i].generation = issuers[i].read + 1]
    /\ UNCHANGED <<lifecycle, heartbeat, closing, fence, answering, published,
                   voterVars, used>>

\* A failed reservation ends an export; a publication goes on without a number
\* and a start with the number it reads.
ReservationFails(i) ==
    /\ issuers[i].step = "write"
    /\ Fails
    /\ issuers' = [issuers EXCEPT ![i] =
           IF i = "export" THEN Resting ELSE [@ EXCEPT !.step = "sign"]]
    /\ UNCHANGED <<lifecycle, heartbeat, closing, issued, fence, answering,
                   published, voterVars>>

\* export_election_status reads the lifecycle when it signs.
SignExport ==
    /\ issuers["export"].step = "sign"
    /\ published' = published \cup
           {[state |-> lifecycle, generation |-> issuers["export"].generation]}
    /\ issuers' = [issuers EXCEPT !["export"] = Resting]
    /\ UNCHANGED <<lifecycle, heartbeat, closing, issued, fence, answering,
                   voterVars, used>>

\* Faulty variant: a reserved number is used even when the fence is past it.
ObserveVerbatim(f, state, generation) ==
    [up |-> TRUE, state |-> state,
     generation |-> IF generation = 0 THEN f.generation + 1 ELSE generation]

\* AuthoritativeLifecycleFenceV1::observe; 0 stands for no reservation.
Observe(f, state, generation) ==
    [up |-> TRUE,
     state |-> state,
     generation |-> CASE generation = 0 -> f.generation + 1
                      [] generation > f.generation -> generation
                      [] OTHER -> f.generation]

PublishToFence ==
    /\ issuers["intake"].step = "sign"
    /\ fence.up
    /\ fence' = Observe(fence, issuers["intake"].state, issuers["intake"].generation)
    /\ closing' = IF closing = "fencing" /\ issuers["intake"].state = "CLOSED"
                  THEN "committing" ELSE closing
    /\ issuers' = [issuers EXCEPT !["intake"] = Resting]
    /\ UNCHANGED <<lifecycle, heartbeat, issued, answering, published,
                   voterVars, used>>

\* AuthoritativeLifecycleFenceV1::new with the seed, at least 1.
StartFence ==
    LET reserved == issuers["intake"].generation
        seed == IF reserved = 0 THEN issued ELSE reserved
    IN  /\ issuers["intake"].step = "sign"
        /\ ~fence.up
        /\ fence' = [up |-> TRUE, state |-> issuers["intake"].state,
                     generation |-> IF seed = 0 THEN 1 ELSE seed]
        /\ issuers' = [issuers EXCEPT !["intake"] = Resting]
        /\ UNCHANGED <<lifecycle, heartbeat, closing, issued, answering,
                       published, voterVars, used>>

\* handle_election_status locks the fence twice: for the state ...
ReadFenceState ==
    /\ fence.up
    /\ answering = NoAnswer
    /\ used.answers < MaxAnswers
    /\ answering' = fence.state
    /\ used' = [used EXCEPT !.answers = @ + 1]
    /\ UNCHANGED <<lifecycle, heartbeat, closing, issued, issuers, fence,
                   published, voterVars>>

\* Faulty variant: the answer is signed without waiting for the state.
SignAnswerUnread ==
    /\ fence.up
    /\ published' = published \cup
           {[state |-> answering, generation |-> fence.generation]}
    /\ answering' = NoAnswer
    /\ UNCHANGED <<lifecycle, heartbeat, closing, issued, issuers, fence,
                   voterVars, used>>

\* ... and for the generation.
SignAnswer ==
    /\ answering # NoAnswer
    /\ published' = published \cup
           {[state |-> answering, generation |-> fence.generation]}
    /\ answering' = NoAnswer
    /\ UNCHANGED <<lifecycle, heartbeat, closing, issued, issuers, fence,
                   voterVars, used>>

\* stop_private_intake takes the intake under its lock, so no publication is
\* running, and joins the worker, so no answer is.
StopIntake ==
    /\ fence.up
    /\ issuers["intake"] = Resting
    /\ answering = NoAnswer
    /\ Restarts
    /\ fence' = FenceDown
    /\ UNCHANGED <<lifecycle, heartbeat, closing, issued, issuers, answering, published,
                   voterVars>>

\* The organizer's process ends; the counter and the workspace remain.
RestartOrganizer ==
    /\ Restarts
    /\ heartbeat' = NoHeartbeat
    /\ closing' = "no"
    /\ issuers' = [i \in Issuers |-> Resting]
    /\ fence' = FenceDown
    /\ answering' = NoAnswer
    /\ UNCHANGED <<lifecycle, issued, published, voterVars>>

-----------------------------------------------------------------------------
\* The voter.

\* Faulty variant: a statement is only compared with the session.
PlanForgettingGenerations(st) == Rank(st.state) >= Rank(session)

\* ElectionStatusKnowledgeV1::plan
Plan(st) ==
    /\ Rank(st.state) >= Rank(session)
    /\ st.generation >= record.generation
    /\ st.generation = record.generation => st.state = record.state

\* apply_election_status_bytes_in_state, under the session lock: the session
\* advances first, then the record is persisted, which may fail.
ApplyStatement(st) ==
    /\ Plan(st)
    /\ session' = st.state
    /\ \/ record' = st /\ UNCHANGED used
       \/ Fails /\ UNCHANGED record
    /\ UNCHANGED organizerVars

\* Faulty variant: the public artifacts are loaded without the record.
RestartVoterForgetting ==
    /\ Restarts
    /\ session' = "FROZEN"
    /\ UNCHANGED <<organizerVars, record>>

\* reapply_persisted_election_status: a frozen session, then the record.
RestartVoter ==
    /\ Restarts
    /\ session' = IF record = NoRecord THEN "FROZEN" ELSE record.state
    /\ UNCHANGED <<organizerVars, record>>

-----------------------------------------------------------------------------
Next ==
    \/ AdvanceLifecycle
    \/ BeginClose
    \/ SkipFencing
    \/ CommitClose
    \/ BeginExport
    \/ HeartbeatRead
    \/ HeartbeatEnds
    \/ \E target \in States : BeginPublish(target)
    \/ BeginStart
    \/ \E i \in Issuers : WriteReservation(i) \/ ReservationFails(i)
    \/ SignExport
    \/ PublishToFence
    \/ StartFence
    \/ ReadFenceState
    \/ SignAnswer
    \/ StopIntake
    \/ RestartOrganizer
    \/ \E st \in published : ApplyStatement(st)
    \/ RestartVoter

Spec == Init /\ [][Next]_vars

-----------------------------------------------------------------------------
\* Every variable has the shape its declaration says.
TypeOK ==
    /\ lifecycle \in States
    /\ heartbeat \in States \cup {NoHeartbeat}
    /\ closing \in {"no", "fencing", "committing"}
    /\ issued \in Nat
    /\ issuers \in [Issuers -> [step : {"idle", "write", "sign"}, read : Nat,
                                state : States \cup {"NONE"}, generation : Nat]]
    /\ fence \in [up : BOOLEAN, state : States, generation : Nat]
    /\ answering \in States \cup {NoAnswer}
    /\ published \subseteq Statement
    /\ session \in States
    /\ record \in Statement \cup {NoRecord}
    /\ used \in [exports : Nat, answers : Nat, failures : Nat, heartbeats : Nat,
                 restarts : Nat]

\* The voter's session never shows less than the statement on disk, through
\* failed writes and restarts: after a restart the record is applied again
\* before the session is used (reapply_persisted_election_status).
SessionCoversRecord == Rank(session) >= Rank(record.state)

\* Whatever statements arrive, in whatever order and over restarts, the
\* voter's durable knowledge moves forward in generation and in lifecycle: an
\* old OPEN artifact never replaces an accepted CLOSED
\* (ElectionStatusKnowledgeV1::plan).
KnowledgeForwardStep ==
    /\ record'.generation >= record.generation
    /\ Rank(record'.state) >= Rank(record.state)
KnowledgeForward == [][KnowledgeForwardStep]_vars

\* The generation of a running fence never goes back, not even when two
\* reservations overlap and the counter file does
\* (AuthoritativeLifecycleFenceV1::observe).
FenceForwardStep ==
    fence.up /\ fence'.up => fence'.generation >= fence.generation
FenceForward == [][FenceForwardStep]_vars

-----------------------------------------------------------------------------
\* What the documentation says and the code does not do.

\* start_collector_service_shared: "every served statement carries a unique,
\* strictly monotonic generation across restarts".
UniqueGenerations ==
    \A s, t \in published : s.generation = t.generation => s.state = t.state

\* reserve_next_status_generation_v1 and its reader: "this durable counter
\* makes restarts never reuse a generation": the counter covers what was signed.
CounterCoversSigned ==
    used.failures = 0 => \A st \in published : st.generation <= issued

\* publish_lifecycle_to_intake: "online status generations never run behind
\* already-exported offline artifacts": an online answer is never refused as
\* stale by a voter who imported an export before.
OnlineNeverBehindStep ==
    answering # NoAnswer /\ answering' = NoAnswer /\ fence'.up =>
        fence.generation >= record.generation
OnlineNeverBehind == [][OnlineNeverBehindStep]_vars

\* close_voting: "Publishing early can only briefly over-refuse while the
\* commit lands": outside a close, no voter holds CLOSED for an OPEN election.
NoLastingEarlyClose ==
    closing = "no" => Rank(session) <= Rank(lifecycle)

=============================================================================
