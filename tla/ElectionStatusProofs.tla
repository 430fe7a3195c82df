------------------------ MODULE ElectionStatusProofs ------------------------
(***************************************************************************)
(* Proofs about ElectionStatus for every bound: the types, that the        *)
(* voter's session covers the record on disk, that the record moves        *)
(* forward in generation and lifecycle, and that a running fence's         *)
(* generation never goes back.  The inductive invariant is TypeOK together *)
(* with SessionCoversRecord: the record moves forward because a statement  *)
(* is compared with the session, and the session covers the record.        *)
(***************************************************************************)
EXTENDS ElectionStatus, TLAPS

\* Ranks, the order of ElectionLifecycleStateV1, are natural numbers.
LEMMA RankType ==
    ASSUME NEW s
    PROVE  Rank(s) \in Nat
  BY DEF Rank

\* The lifecycle has a next state until it is FINALIZED.
LEMMA NextState ==
    ASSUME NEW s \in States, s # "FINALIZED"
    PROVE  Order[Rank(s) + 1] \in States
  BY DEF States, Order, Rank

\* The fence observes a publication: the result is a fence that is up, and its
\* generation is at least the one before (AuthoritativeLifecycleFenceV1::observe).
LEMMA ObserveForward ==
    ASSUME NEW f \in [up : BOOLEAN, state : States, generation : Nat],
           NEW s \in States, NEW g \in Nat
    PROVE  /\ Observe(f, s, g) \in [up : BOOLEAN, state : States, generation : Nat]
           /\ Observe(f, s, g).generation >= f.generation
  BY DEF Observe

\* A publication or a start that has reserved its number carries a state.
IssuerHasState ==
    issuers["intake"].step # "idle" => issuers["intake"].state \in States

IInv == TypeOK /\ IssuerHasState /\ SessionCoversRecord

\* The invariant holds when organizer and voter start.
LEMMA InitIInv == Init => IInv
  BY RankType DEF Init, IInv, TypeOK, IssuerHasState, SessionCoversRecord, Issuers,
     Resting, FenceDown, NoAnswer, NoHeartbeat, NoRecord, States, Statement, Rank

\* No step of the organizer disturbs the invariant or touches the voter, and
\* none moves a running fence back.
LEMMA OrganizerStep ==
    ASSUME IInv,
           \/ AdvanceLifecycle \/ BeginClose \/ SkipFencing \/ CommitClose
           \/ BeginExport \/ HeartbeatRead \/ HeartbeatEnds
           \/ \E target \in States : BeginPublish(target)
           \/ BeginStart
           \/ \E i \in Issuers : WriteReservation(i) \/ ReservationFails(i)
           \/ SignExport \/ PublishToFence \/ StartFence \/ ReadFenceState
           \/ SignAnswer \/ StopIntake \/ RestartOrganizer
    PROVE  /\ IInv'
           /\ UNCHANGED voterVars
           /\ FenceForwardStep
<1> USE DEF IInv, SessionCoversRecord, voterVars
<1>1. CASE AdvanceLifecycle
  BY <1>1, NextState DEF AdvanceLifecycle, TypeOK, IssuerHasState, FenceForwardStep
<1>2. CASE BeginClose \/ SkipFencing
  BY <1>2 DEF BeginClose, SkipFencing, TypeOK, IssuerHasState, FenceForwardStep
<1>3. CASE CommitClose
  BY <1>3 DEF CommitClose, Fails, TypeOK, IssuerHasState, FenceForwardStep, States
<1>4. CASE BeginExport
  BY <1>4 DEF BeginExport, BeginReserve, TypeOK, IssuerHasState, FenceForwardStep, Issuers
<1>5. CASE \E target \in States : BeginPublish(target)
  BY <1>5 DEF BeginPublish, BeginReserve, TypeOK, IssuerHasState, FenceForwardStep, Issuers,
     NoHeartbeat
<1>6. CASE BeginStart
  BY <1>6 DEF BeginStart, BeginReserve, TypeOK, IssuerHasState, FenceForwardStep, Issuers
<1>7. ASSUME NEW i \in Issuers, WriteReservation(i)
      PROVE  IInv' /\ UNCHANGED voterVars /\ FenceForwardStep
  BY <1>7 DEF WriteReservation, TypeOK, IssuerHasState, FenceForwardStep, Issuers
<1>8. ASSUME NEW i \in Issuers, ReservationFails(i)
      PROVE  IInv' /\ UNCHANGED voterVars /\ FenceForwardStep
  BY <1>8 DEF ReservationFails, Fails, TypeOK, IssuerHasState, FenceForwardStep, Issuers, Resting
<1>9. CASE SignExport
  BY <1>9 DEF SignExport, TypeOK, IssuerHasState, FenceForwardStep, Issuers, Resting, Statement
<1>10. CASE PublishToFence
  BY <1>10, ObserveForward
     DEF PublishToFence, TypeOK, IssuerHasState, FenceForwardStep, Issuers, Resting
<1>11. CASE StartFence
  BY <1>11 DEF StartFence, TypeOK, IssuerHasState, FenceForwardStep, Issuers, Resting
<1>12. CASE ReadFenceState
  BY <1>12 DEF ReadFenceState, TypeOK, IssuerHasState, FenceForwardStep
<1>13. CASE SignAnswer
  BY <1>13 DEF SignAnswer, TypeOK, IssuerHasState, FenceForwardStep, Statement, NoAnswer
<1>14. CASE RestartOrganizer
  BY <1>14 DEF RestartOrganizer, Restarts, TypeOK, IssuerHasState, FenceForwardStep, Issuers,
     Resting, FenceDown, States, NoAnswer, NoHeartbeat
<1>15. CASE HeartbeatRead \/ HeartbeatEnds
  BY <1>15 DEF HeartbeatRead, HeartbeatEnds, TypeOK, IssuerHasState, FenceForwardStep,
     NoHeartbeat
<1>16. CASE StopIntake
  BY <1>16 DEF StopIntake, Restarts, TypeOK, IssuerHasState, FenceForwardStep, FenceDown,
     States
<1> QED
  BY <1>1, <1>2, <1>3, <1>4, <1>5, <1>6, <1>7, <1>8, <1>9, <1>10, <1>11, <1>12, <1>13, <1>14,
     <1>15, <1>16


\* A statement the plan lets through is at least the session, so at least the
\* record: both the session and the record move forward, whether or not the
\* record can be written (apply_election_status_bytes_in_state).
LEMMA VoterStep ==
    ASSUME IInv,
           (\E st \in published : ApplyStatement(st)) \/ RestartVoter
    PROVE  /\ IInv'
           /\ KnowledgeForwardStep
           /\ UNCHANGED organizerVars
<1> USE DEF IInv, organizerVars
<1>1. ASSUME NEW st \in published, ApplyStatement(st)
      PROVE  IInv' /\ KnowledgeForwardStep /\ UNCHANGED organizerVars
  <2>1. st \in Statement
    BY DEF TypeOK
  <2>2. TypeOK' /\ IssuerHasState'
    BY <1>1, <2>1 DEF ApplyStatement, Fails, TypeOK, IssuerHasState, Statement
  <2>3. Rank(st.state) >= Rank(session) /\ Rank(session) >= Rank(record.state)
    BY <1>1 DEF ApplyStatement, Plan, SessionCoversRecord
  <2>4. Rank(st.state) >= Rank(record.state)
    BY <2>3, RankType
  <2>5. SessionCoversRecord'
    BY <1>1, <2>4, RankType DEF ApplyStatement, SessionCoversRecord
  <2>6. record.generation \in Nat
    BY DEF TypeOK, Statement, NoRecord
  <2>7. KnowledgeForwardStep
    BY <1>1, <2>4, <2>6, RankType DEF ApplyStatement, Plan, KnowledgeForwardStep
  <2> QED
    BY <1>1, <2>2, <2>5, <2>7 DEF ApplyStatement
<1>2. CASE RestartVoter
  <2>1. TypeOK' /\ IssuerHasState'
    BY <1>2 DEF RestartVoter, Restarts, TypeOK, IssuerHasState, Statement, States, NoRecord
  <2>2. SessionCoversRecord'
    BY <1>2, RankType DEF RestartVoter, SessionCoversRecord, NoRecord, Rank
  <2>3. record.generation \in Nat
    BY DEF TypeOK, Statement, NoRecord
  <2>4. KnowledgeForwardStep
    BY <1>2, <2>3, RankType DEF RestartVoter, KnowledgeForwardStep
  <2> QED
    BY <1>2, <2>1, <2>2, <2>4 DEF RestartVoter
<1> QED
  BY <1>1, <1>2

\* What one step of the whole system preserves and guarantees.
LEMMA NextIInv ==
    ASSUME IInv, [Next]_vars
    PROVE  IInv' /\ KnowledgeForwardStep /\ FenceForwardStep
<1>1. record.generation \in Nat /\ fence.generation \in Nat
  BY DEF IInv, TypeOK, Statement, NoRecord
<1>2. CASE UNCHANGED vars
  BY <1>1, <1>2, RankType
     DEF vars, IInv, TypeOK, IssuerHasState, SessionCoversRecord,
         KnowledgeForwardStep, FenceForwardStep
<1>3. CASE (\E st \in published : ApplyStatement(st)) \/ RestartVoter
  <2>1. IInv' /\ KnowledgeForwardStep /\ UNCHANGED organizerVars
    BY <1>3, VoterStep
  <2> QED
    BY <1>1, <2>1 DEF organizerVars, FenceForwardStep
<1>4. CASE \/ AdvanceLifecycle \/ BeginClose \/ SkipFencing \/ CommitClose
           \/ BeginExport \/ HeartbeatRead \/ HeartbeatEnds
           \/ \E target \in States : BeginPublish(target)
           \/ BeginStart
           \/ \E i \in Issuers : WriteReservation(i) \/ ReservationFails(i)
           \/ SignExport \/ PublishToFence \/ StartFence \/ ReadFenceState
           \/ SignAnswer \/ StopIntake \/ RestartOrganizer
  <2>1. IInv' /\ UNCHANGED voterVars /\ FenceForwardStep
    BY <1>4, OrganizerStep
  <2> QED
    BY <1>1, <2>1, RankType DEF voterVars, KnowledgeForwardStep
<1> QED
  BY <1>2, <1>3, <1>4 DEF Next

\* The inductive invariant holds in every reachable state.
THEOREM Invariant == Spec => []IInv
<1>1. IInv /\ [Next]_vars => IInv'
  BY NextIInv
<1> QED
  BY InitIInv, <1>1, PTL DEF Spec

\* Every reachable state is well typed, whatever the bounds.
THEOREM StatusTypes == Spec => []TypeOK
<1>1. IInv => TypeOK
  BY DEF IInv
<1> QED
  BY Invariant, <1>1, PTL

\* The voter's session never shows less than the statement on disk: the order
\* of advancing, persisting and replaying in the voter's handlers is enough.
THEOREM StatusSessionCoversRecord == Spec => []SessionCoversRecord
<1>1. IInv => SessionCoversRecord
  BY DEF IInv
<1> QED
  BY Invariant, <1>1, PTL

\* The voter's durable knowledge moves forward over any number of restarts,
\* failed writes and reordered statements (ElectionStatusKnowledgeV1::plan).
THEOREM StatusKnowledgeForward == Spec => KnowledgeForward
<1>1. IInv /\ [Next]_vars => [KnowledgeForwardStep]_vars
  BY NextIInv
<1> QED
  BY Invariant, <1>1, PTL DEF Spec, KnowledgeForward

\* The generation of a running fence never goes back, whatever numbers the
\* unlocked counter hands out (AuthoritativeLifecycleFenceV1::observe).
THEOREM StatusFenceForward == Spec => FenceForward
<1>1. IInv /\ [Next]_vars => [FenceForwardStep]_vars
  BY NextIInv
<1> QED
  BY Invariant, <1>1, PTL DEF Spec, FenceForward

=============================================================================
