------------------------- MODULE ElectionSessionProofs -------------------------
(***************************************************************************)
(* Proofs about ElectionSession for every set of packages and voters.      *)
(***************************************************************************)
EXTENDS ElectionSession, TLAPS

\* An element of a sequence over a set is in the set.
LEMMA SeqElement ==
    ASSUME NEW S, NEW q \in Seq(S), NEW i \in 1..Len(q)
    PROVE  q[i] \in S
OBVIOUS

\* What ingesting a package decides, and the fields of the session it yields.
LEMMA ProcessFields ==
    ASSUME NEW s \in Sessions, NEW p \in Packages
    PROVE  LET o == IngestOutcome(s, p)
               t == Process(s, p)
           IN  /\ o \in Outcomes
               /\ o = "ACCEPTED" <=> /\ p \in ValidPackages
                                     /\ AdmitsStatements(s)
                                     /\ NullifierOf[p] \notin s.seen
               /\ t \in Sessions
               /\ t.lifecycle = s.lifecycle
               /\ t.seen = IF o = "ACCEPTED" THEN s.seen \cup {NullifierOf[p]} ELSE s.seen
               /\ t.ledger = IF o = "ACCEPTED" THEN Append(s.ledger, p) ELSE s.ledger
               /\ t.transcript = Append(s.transcript, [digest |-> p, outcome |-> o])
               /\ t.packages = Append(s.packages, p)
               /\ t.index = IF s.index[p] = NoIndexEntry
                            THEN [s.index EXCEPT ![p] =
                                    [sequence |-> Len(s.transcript) + 1, outcome |-> o]]
                            ELSE s.index
<1> DEFINE o == IngestOutcome(s, p)
           t == Process(s, p)
           entry == [sequence |-> Len(s.transcript) + 1, outcome |-> o]
<1>1. /\ o \in Outcomes
      /\ o = "ACCEPTED" <=> /\ p \in ValidPackages
                            /\ AdmitsStatements(s)
                            /\ NullifierOf[p] \notin s.seen
  BY DEF IngestOutcome, Outcomes
<1>2. /\ t.lifecycle = s.lifecycle
      /\ t.seen = IF o = "ACCEPTED" THEN s.seen \cup {NullifierOf[p]} ELSE s.seen
      /\ t.ledger = IF o = "ACCEPTED" THEN Append(s.ledger, p) ELSE s.ledger
      /\ t.transcript = Append(s.transcript, [digest |-> p, outcome |-> o])
      /\ t.packages = Append(s.packages, p)
      /\ t.index = IndexDecision(s.index, p, entry)
      /\ t = [lifecycle |-> t.lifecycle, seen |-> t.seen, ledger |-> t.ledger,
              transcript |-> t.transcript, packages |-> t.packages, index |-> t.index]
  BY DEF Process, Sessions
<1>3. t.index = IF s.index[p] = NoIndexEntry THEN [s.index EXCEPT ![p] = entry] ELSE s.index
  BY <1>2 DEF IndexDecision
<1>4. t \in Sessions
  <2>1. /\ t.lifecycle \in LifecycleStates
        /\ t.packages \in Seq(Packages)
        /\ t.transcript \in Seq([digest : Packages, outcome : Outcomes])
    BY <1>1, <1>2 DEF Sessions
  <2>2. t.seen \in SUBSET Voters /\ t.ledger \in Seq(ValidPackages)
    BY <1>1, <1>2, PackagesAssumption DEF Sessions
  <2>3. entry \in [sequence : Nat, outcome : Outcomes \cup {"NONE"}]
    <3>1. s.transcript \in Seq([digest : Packages, outcome : Outcomes])
      BY DEF Sessions
    <3>2. Len(s.transcript) + 1 \in Nat
      BY <3>1
    <3> QED BY <3>2, <1>1
  <2>4. t.index \in [Packages -> [sequence : Nat, outcome : Outcomes \cup {"NONE"}]]
    BY <1>3, <2>3 DEF Sessions
  <2> QED BY Zenon, <1>2, <2>1, <2>2, <2>4 DEF Sessions
<1> QED BY Zenon, <1>1, <1>2, <1>3, <1>4

\* Transition only changes the lifecycle field.
LEMMA TransitionFields ==
    ASSUME NEW s \in Sessions, NEW to \in LifecycleStates
    PROVE  LET t == Transition(s, to)
           IN  /\ t \in Sessions
               /\ t.lifecycle = to
               /\ t.seen = s.seen
               /\ t.ledger = s.ledger
               /\ t.transcript = s.transcript
               /\ t.packages = s.packages
               /\ t.index = s.index
BY Zenon DEF Transition, Sessions

-----------------------------------------------------------------------------
\* The session record stays well formed (every field of GuiElectionSessionV1).
THEOREM TypeCorrect == Spec => []TypeOK
<1>1. Init => TypeOK
  <2> SUFFICES ASSUME Init PROVE TypeOK
    OBVIOUS
  <2>1. NoIndexEntry \in [sequence : Nat, outcome : Outcomes \cup {"NONE"}]
    BY DEF NoIndexEntry
  <2>2. session \in Sessions
    BY <2>1 DEF Init, NewSession, Sessions, LifecycleStates
  <2>3. Len(session.packages) <= MaxPackages
    BY SessionAssumption DEF Init, NewSession
  <2> QED BY <2>2, <2>3 DEF TypeOK
<1>2. TypeOK /\ [Next]_session => TypeOK'
  <2> SUFFICES ASSUME TypeOK, [Next]_session PROVE TypeOK'
    OBVIOUS
  <2>1. CASE OpenVoting \/ CloseVoting \/ MarkVerified \/ Finalize
    <3>1. PICK to \in LifecycleStates : session' = Transition(session, to)
      BY <2>1 DEF OpenVoting, CloseVoting, MarkVerified, Finalize, LifecycleStates
    <3> QED BY <3>1, TransitionFields DEF TypeOK
  <2>2. ASSUME NEW p \in Packages, session' = Process(session, p),
               Len(session.packages) < MaxPackages
        PROVE  TypeOK'
    <3>1. session' \in Sessions /\ session'.packages = Append(session.packages, p)
      BY Zenon, <2>2, ProcessFields DEF TypeOK
    <3>2. session.packages \in Seq(Packages)
      BY DEF TypeOK, Sessions
    <3>3. Len(session'.packages) = Len(session.packages) + 1 /\ Len(session.packages) \in Nat
      BY <3>1, <3>2
    <3> QED BY SMTT(30), <3>1, <3>3, <2>2, SessionAssumption DEF TypeOK
  <2>3. ASSUME NEW p \in Packages, IntakePackage(p) PROVE TypeOK'
    BY <2>2, <2>3 DEF IntakePackage
  <2>4. ASSUME NEW p \in Packages, ReconcileFromInbox(p) PROVE TypeOK'
    <3>1. CASE session.index[p] # NoIndexEntry
      BY <2>4, <3>1 DEF ReconcileFromInbox, Reconcile, TypeOK
    <3>2. CASE session.index[p] = NoIndexEntry
      BY <2>2, <2>4, <3>2 DEF ReconcileFromInbox, Reconcile
    <3> QED BY <3>1, <3>2
  <2>5. CASE UNCHANGED session
    BY <2>5 DEF TypeOK
  <2> QED BY <2>1, <2>3, <2>4, <2>5 DEF Next
<1> QED BY <1>1, <1>2, PTL DEF Spec

\* Every step either leaves the session alone, moves the lifecycle forward by
\* one state, or processes one package while ballots are admitted.
LEMMA StepShape ==
    ASSUME TypeOK, [Next]_session
    PROVE  \/ UNCHANGED session
           \/ \E to \in LifecycleStates :
                 /\ session' = Transition(session, to)
                 /\ LifecycleRank[to] = LifecycleRank[session.lifecycle] + 1
           \/ \E p \in Packages :
                 session' = Process(session, p) /\ AdmitsStatements(session)
<1>1. CASE OpenVoting \/ CloseVoting \/ MarkVerified \/ Finalize
  BY <1>1 DEF OpenVoting, CloseVoting, MarkVerified, Finalize, CanTransition,
              LifecycleStates, LifecycleRank
<1>2. ASSUME NEW p \in Packages, IntakePackage(p)
      PROVE  session' = Process(session, p) /\ AdmitsStatements(session)
  BY <1>2 DEF IntakePackage, CanIntake, AdmitsStatements
<1>3. ASSUME NEW p \in Packages, ReconcileFromInbox(p)
      PROVE  \/ UNCHANGED session
             \/ session' = Process(session, p) /\ AdmitsStatements(session)
  BY <1>3 DEF ReconcileFromInbox, CanReconcile, Reconcile, AdmitsStatements
<1> QED BY <1>1, <1>2, <1>3 DEF Next

\* At most one accepted ballot per nullifier, in every reachable session.
THEOREM OneVote == Spec => []OneVotePerNullifier
<1>1. Init => OneVotePerNullifier
  BY DEF Init, NewSession, OneVotePerNullifier
<1>2. TypeOK /\ OneVotePerNullifier /\ [Next]_session => OneVotePerNullifier'
  <2> SUFFICES ASSUME TypeOK, OneVotePerNullifier, [Next]_session
               PROVE  OneVotePerNullifier'
    OBVIOUS
  <2>1. CASE UNCHANGED session
    BY <2>1 DEF OneVotePerNullifier
  <2>2. ASSUME NEW to \in LifecycleStates, session' = Transition(session, to)
        PROVE  OneVotePerNullifier'
    BY <2>2, TransitionFields DEF OneVotePerNullifier, TypeOK
  <2>3. ASSUME NEW p \in Packages, session' = Process(session, p)
        PROVE  OneVotePerNullifier'
    <3>1. session.ledger \in Seq(ValidPackages)
      BY DEF TypeOK, Sessions
    <3>2. CASE IngestOutcome(session, p) # "ACCEPTED"
      <4>1. session'.seen = session.seen /\ session'.ledger = session.ledger
        BY Zenon, <2>3, <3>2, ProcessFields DEF TypeOK
      <4> QED BY <4>1 DEF OneVotePerNullifier
    <3>3. CASE IngestOutcome(session, p) = "ACCEPTED"
      <4>1. /\ NullifierOf[p] \notin session.seen
            /\ session'.seen = session.seen \cup {NullifierOf[p]}
            /\ session'.ledger = Append(session.ledger, p)
            /\ p \in ValidPackages
        BY Zenon, <2>3, <3>3, ProcessFields DEF TypeOK
      <4> DEFINE n == Len(session.ledger)
      <4>2. /\ n \in Nat
            /\ DOMAIN session.ledger = 1..n
            /\ DOMAIN session'.ledger = 1..(n + 1)
            /\ \A i \in 1..n : session'.ledger[i] = session.ledger[i]
            /\ session'.ledger[n + 1] = p
        BY <3>1, <4>1
      <4>3. \A i \in 1..n : NullifierOf[session.ledger[i]] \in session.seen
        BY <4>2 DEF OneVotePerNullifier
      <4>4. session'.seen = {NullifierOf[session'.ledger[i]] : i \in DOMAIN session'.ledger}
        BY SMTT(30), <4>1, <4>2 DEF OneVotePerNullifier
      <4>5. \A i, j \in DOMAIN session'.ledger :
              NullifierOf[session'.ledger[i]] = NullifierOf[session'.ledger[j]] => i = j
        <5> SUFFICES ASSUME NEW i \in 1..(n + 1), NEW j \in 1..(n + 1),
                            NullifierOf[session'.ledger[i]] = NullifierOf[session'.ledger[j]]
                     PROVE  i = j
          BY SMTT(30), <4>2
        <5>1. CASE i \in 1..n /\ j \in 1..n
          BY ZenonT(30), <5>1, <4>2 DEF OneVotePerNullifier
        <5>2. CASE i = n + 1 \/ j = n + 1
          BY <5>2, <4>1, <4>2, <4>3
        <5> QED BY SMTT(30), <5>1, <5>2, <4>2
      <4> QED BY <4>4, <4>5 DEF OneVotePerNullifier
    <3> QED BY <3>2, <3>3
  <2> QED BY <2>1, <2>2, <2>3, StepShape
<1> QED BY <1>1, <1>2, TypeCorrect, PTL DEF Spec

\* The INDEX_INCONSISTENT error of an inbox lookup is unreachable.
THEOREM IndexConsistent == Spec => []DigestIndexConsistent
<1>1. Init => DigestIndexConsistent
  BY SMTT(30) DEF Init, NewSession, DigestIndexConsistent
<1>2. TypeOK /\ DigestIndexConsistent /\ [Next]_session => DigestIndexConsistent'
  <2> SUFFICES ASSUME TypeOK, DigestIndexConsistent, [Next]_session
               PROVE  DigestIndexConsistent'
    OBVIOUS
  <2>1. CASE UNCHANGED session
    BY SMTT(30), <2>1 DEF DigestIndexConsistent, IndexEntryAgrees
  <2>2. ASSUME NEW to \in LifecycleStates, session' = Transition(session, to)
        PROVE  DigestIndexConsistent'
    BY SMTT(30), <2>2, TransitionFields DEF DigestIndexConsistent, IndexEntryAgrees, TypeOK
  <2>3. ASSUME NEW p \in Packages, session' = Process(session, p)
        PROVE  DigestIndexConsistent'
    <3> DEFINE n == Len(session.transcript)
               o == IngestOutcome(session, p)
               entry == [sequence |-> n + 1, outcome |-> o]
    <3>1. /\ session.transcript \in Seq([digest : Packages, outcome : Outcomes])
          /\ session.index \in [Packages -> [sequence : Nat, outcome : Outcomes \cup {"NONE"}]]
      BY DEF TypeOK, Sessions
    <3>2. /\ o \in Outcomes
          /\ session'.transcript = Append(session.transcript, [digest |-> p, outcome |-> o])
          /\ session'.index = IF session.index[p] = NoIndexEntry
                              THEN [session.index EXCEPT ![p] = entry]
                              ELSE session.index
      BY Zenon, <2>3, ProcessFields DEF TypeOK
    <3>3. /\ n \in Nat
          /\ DOMAIN session.transcript = 1..n
          /\ DOMAIN session'.transcript = 1..(n + 1)
          /\ \A i \in 1..n : session'.transcript[i] = session.transcript[i]
          /\ session'.transcript[n + 1] = [digest |-> p, outcome |-> o]
      BY <3>1, <3>2
    <3>4. entry # NoIndexEntry
      BY <3>2 DEF NoIndexEntry, Outcomes
    <3>5. \A q \in Packages :
            session.index[q] # NoIndexEntry =>
              /\ session.index[q].sequence \in 1..n
              /\ session.transcript[session.index[q].sequence] =
                    [digest |-> q, outcome |-> session.index[q].outcome]
      BY <3>3 DEF DigestIndexConsistent, IndexEntryAgrees
    <3>6. ASSUME NEW q \in Packages, session'.index[q] # NoIndexEntry
          PROVE  /\ session'.index[q].sequence \in DOMAIN session'.transcript
                 /\ session'.transcript[session'.index[q].sequence] =
                       [digest |-> q, outcome |-> session'.index[q].outcome]
      <4>1. CASE session'.index[q] = session.index[q]
        <5> DEFINE k == session.index[q].sequence
        <5>1. /\ k \in 1..n
              /\ session.transcript[k] = [digest |-> q, outcome |-> session.index[q].outcome]
          BY <4>1, <3>5, <3>6
        <5>2. k \in DOMAIN session'.transcript
          BY <5>1, <3>3
        <5>3. session'.transcript[k] = session.transcript[k]
          BY <5>1, <3>3
        <5> QED BY SMTT(30), <4>1, <5>1, <5>2, <5>3
      <4>2. CASE session'.index[q] # session.index[q]
        <5>1. q = p /\ session'.index[q] = entry
          BY SMTT(30), <4>2, <3>1, <3>2
        <5> QED BY <5>1, <3>3
      <4> QED BY <4>1, <4>2
    <3>7. ASSUME NEW i \in DOMAIN session'.transcript
          PROVE  LET e == session'.index[session'.transcript[i].digest]
                 IN  e # NoIndexEntry /\ e.sequence <= i
      <4>1. CASE i \in 1..n
        <5>0. session.transcript[i] \in [digest : Packages, outcome : Outcomes]
          BY ZenonT(30), <4>1, <3>1, SeqElement
        <5>1. session'.transcript[i] = session.transcript[i]
              /\ session.transcript[i].digest \in Packages
          BY <4>1, <3>3, <5>0
        <5>2. session.index[session.transcript[i].digest] # NoIndexEntry
              /\ session.index[session.transcript[i].digest].sequence <= i
          BY <4>1, <3>3 DEF DigestIndexConsistent
        <5>3. session'.index[session.transcript[i].digest]
                = session.index[session.transcript[i].digest]
          BY SMTT(30), <5>1, <5>2, <3>1, <3>2
        <5> QED BY <5>1, <5>2, <5>3
      <4>2. CASE i = n + 1
        <5>1. session'.transcript[i].digest = p
          BY <4>2, <3>3
        <5>2. CASE session.index[p] = NoIndexEntry
          <6>1. session'.index[p] = entry
            BY <5>2, <3>1, <3>2
          <6> QED BY SMTT(30), <5>1, <6>1, <3>3, <3>4, <4>2
        <5>3. CASE session.index[p] # NoIndexEntry
          <6>1. session'.index[p] = session.index[p]
            BY <5>3, <3>2
          <6>2. session.index[p].sequence \in 1..n
            BY Zenon, <5>3, <3>5
          <6>3. session.index[p].sequence <= i
            BY <6>2, <3>3, <4>2
          <6> QED BY SMTT(30), <5>1, <5>3, <6>1, <6>3
        <5> QED BY <5>2, <5>3
      <4> QED BY SMTT(30), <4>1, <4>2, <3>3
    <3> QED BY <3>6, <3>7 DEF DigestIndexConsistent, IndexEntryAgrees
  <2> QED BY <2>1, <2>2, <2>3, StepShape
<1> QED BY <1>1, <1>2, TypeCorrect, PTL DEF Spec

\* No step changes a sealed result, takes a ballot back or rewinds the lifecycle.
THEOREM Sealed == Spec => SealedAndAppendOnly
<1>1. TypeOK /\ [Next]_session => [SealedStep]_session
  <2> SUFFICES ASSUME TypeOK, [Next]_session, session' # session
               PROVE  SealedStep
    OBVIOUS
  <2>0. session.ledger \in Seq(ValidPackages) /\ session.lifecycle \in LifecycleStates
    BY DEF TypeOK, Sessions
  <2>1. ASSUME NEW to \in LifecycleStates, session' = Transition(session, to),
               LifecycleRank[to] = LifecycleRank[session.lifecycle] + 1
        PROVE  SealedStep
    <3>1. /\ session'.lifecycle = to
          /\ session'.ledger = session.ledger
          /\ session'.transcript = session.transcript
          /\ session'.packages = session.packages
      BY <2>1, TransitionFields DEF TypeOK
    <3>2. LifecycleRank[session.lifecycle] \in Nat
      BY <2>0 DEF LifecycleRank, LifecycleStates
    <3> QED BY SMTT(30), <2>0, <2>1, <3>1, <3>2 DEF SealedStep
  <2>2. ASSUME NEW p \in Packages, session' = Process(session, p), AdmitsStatements(session)
        PROVE  SealedStep
    <3>1. /\ session'.lifecycle = session.lifecycle
          /\ \/ session'.ledger = session.ledger
             \/ p \in ValidPackages /\ session'.ledger = Append(session.ledger, p)
      BY Zenon, <2>2, ProcessFields DEF TypeOK
    <3>2. session.lifecycle \notin {"VERIFIED", "FINALIZED"}
      BY <2>2 DEF AdmitsStatements
    <3>3. LifecycleRank[session.lifecycle] \in Nat
      BY <2>0 DEF LifecycleRank, LifecycleStates
    <3>4. /\ Len(session.ledger) <= Len(session'.ledger)
          /\ \A i \in DOMAIN session.ledger : session'.ledger[i] = session.ledger[i]
      BY <2>0, <3>1
    <3> QED BY SMTT(30), <3>1, <3>2, <3>3, <3>4 DEF SealedStep
  <2> QED BY <2>1, <2>2, StepShape
<1> QED BY <1>1, TypeCorrect, PTL DEF Spec, SealedAndAppendOnly

-----------------------------------------------------------------------------
\* The package counted for a voter is the one ledger entry with the nullifier.
LEMMA CountedIsLedgerEntry ==
    ASSUME TypeOK, OneVotePerNullifier, NEW v \in Voters
    PROVE  /\ v \notin session.seen => CountedVote(session)[v] = NoVote
           /\ \A i \in DOMAIN session.ledger :
                 NullifierOf[session.ledger[i]] = v => CountedVote(session)[v] = session.ledger[i]
<1>1. v \notin session.seen => CountedVote(session)[v] = NoVote
  BY DEF CountedVote
<1>2. ASSUME NEW i \in DOMAIN session.ledger, NullifierOf[session.ledger[i]] = v
      PROVE  CountedVote(session)[v] = session.ledger[i]
  <2>1. session.ledger \in Seq(ValidPackages)
    BY DEF TypeOK, Sessions
  <2>2. session.ledger[i] \in ValidPackages /\ v \in session.seen
    BY <1>2, <2>1 DEF OneVotePerNullifier
  <2>3. \A p \in ValidPackages :
           NullifierOf[p] = v /\ (\E j \in DOMAIN session.ledger : session.ledger[j] = p)
             <=> p = session.ledger[i]
    BY <1>2, <2>2 DEF OneVotePerNullifier
  <2> QED BY <2>2, <2>3 DEF CountedVote, LedgerVote
<1> QED BY <1>1, <1>2

\* The session implements ElectionRegister: every step is a register step or
\* leaves the register alone.
THEOREM RefinesRegister == Spec => ImplementsRegister
<1>1. Init => Register!Init
  BY DEF Init, NewSession, Register!Init, PhaseOf, CountedVote
<1>2. TypeOK /\ OneVotePerNullifier /\ OneVotePerNullifier' /\ TypeOK' /\ [Next]_session
        => [Register!Next]_<<PhaseOf[session.lifecycle], CountedVote(session)>>
  <2> SUFFICES ASSUME TypeOK, OneVotePerNullifier, OneVotePerNullifier', TypeOK', [Next]_session
               PROVE  [Register!Next]_<<PhaseOf[session.lifecycle], CountedVote(session)>>
    OBVIOUS
  <2>1. CASE UNCHANGED session
    BY <2>1
  <2>2. ASSUME NEW to \in LifecycleStates, session' = Transition(session, to),
               LifecycleRank[to] = LifecycleRank[session.lifecycle] + 1
        PROVE  [Register!Next]_<<PhaseOf[session.lifecycle], CountedVote(session)>>
    <3>1. /\ session'.lifecycle = to
          /\ session'.ledger = session.ledger
          /\ session'.seen = session.seen
      BY <2>2, TransitionFields DEF TypeOK
    <3>2. CountedVote(session)' = CountedVote(session)
      BY <3>1 DEF CountedVote, LedgerVote
    <3>3. session.lifecycle \in LifecycleStates
      BY DEF TypeOK, Sessions
    <3>4. \/ PhaseOf[session.lifecycle] = "setup" /\ PhaseOf[to] = "voting"
          \/ PhaseOf[session.lifecycle] = "voting" /\ PhaseOf[to] = "draining"
          \/ PhaseOf[session.lifecycle] = "draining" /\ PhaseOf[to] = "sealed"
          \/ PhaseOf[session.lifecycle] = "sealed" /\ PhaseOf[to] = "sealed"
      BY <3>3, <2>2 DEF LifecycleStates, LifecycleRank, PhaseOf
    <3> QED BY SMTT(30), <3>1, <3>2, <3>4
            DEF Register!Next, Register!StartVoting, Register!StopVoting, Register!Seal
  <2>3. ASSUME NEW p \in Packages, session' = Process(session, p), AdmitsStatements(session)
        PROVE  [Register!Next]_<<PhaseOf[session.lifecycle], CountedVote(session)>>
    <3>1. session'.lifecycle = session.lifecycle
      BY Zenon, <2>3, ProcessFields DEF TypeOK
    <3>2. CASE IngestOutcome(session, p) # "ACCEPTED"
      <4>1. session'.ledger = session.ledger /\ session'.seen = session.seen
        BY Zenon, <2>3, <3>2, ProcessFields DEF TypeOK
      <4>2. CountedVote(session)' = CountedVote(session)
        BY <4>1 DEF CountedVote, LedgerVote
      <4> QED BY <3>1, <4>2
    <3>3. CASE IngestOutcome(session, p) = "ACCEPTED"
      <4> DEFINE u == NullifierOf[p]
                 n == Len(session.ledger)
      <4>1. /\ p \in ValidPackages
            /\ u \notin session.seen
            /\ session'.seen = session.seen \cup {u}
            /\ session'.ledger = Append(session.ledger, p)
        BY Zenon, <2>3, <3>3, ProcessFields DEF TypeOK
      <4>2. u \in Voters
        BY <4>1, PackagesAssumption
      <4>3. session.ledger \in Seq(ValidPackages)
        BY DEF TypeOK, Sessions
      <4>4. /\ n \in Nat
            /\ DOMAIN session.ledger = 1..n
            /\ DOMAIN session'.ledger = 1..(n + 1)
            /\ \A i \in 1..n : session'.ledger[i] = session.ledger[i]
            /\ session'.ledger[n + 1] = p
        BY <4>1, <4>3
      <4>5. CountedVote(session)[u] = NoVote
        BY <4>1, <4>2, CountedIsLedgerEntry
      <4>6. CountedVote(session)' = [CountedVote(session) EXCEPT ![u] = p]
        <5>1. ASSUME NEW v \in Voters, v # u
              PROVE  CountedVote(session')[v] = CountedVote(session)[v]
          <6>1. v \in session'.seen <=> v \in session.seen
            BY <4>1, <5>1
          <6>2. ASSUME NEW q \in ValidPackages, NullifierOf[q] = v
                PROVE  (\E i \in DOMAIN session'.ledger : session'.ledger[i] = q)
                         <=> (\E i \in DOMAIN session.ledger : session.ledger[i] = q)
            <7>1. ASSUME NEW i \in 1..(n + 1), session'.ledger[i] = q
                  PROVE  i \in 1..n /\ session.ledger[i] = q
              <8>1. i # n + 1
                BY <4>4, <5>1, <6>2, <7>1
              <8>2. i \in 1..n
                BY <8>1, <4>4
              <8> QED BY <8>2, <7>1, <4>4
            <7>2. ASSUME NEW i \in 1..n, session.ledger[i] = q
                  PROVE  i \in 1..(n + 1) /\ session'.ledger[i] = q
              <8>1. i \in 1..(n + 1)
                BY <4>4
              <8> QED BY <8>1, <7>2, <4>4
            <7> QED BY <7>1, <7>2, <4>4
          <6>3. \A q \in ValidPackages :
                  (NullifierOf[q] = v /\ \E i \in DOMAIN session'.ledger : session'.ledger[i] = q)
                    <=> (NullifierOf[q] = v /\ \E i \in DOMAIN session.ledger : session.ledger[i] = q)
            BY <6>2
          <6>4. LedgerVote(session', v) = LedgerVote(session, v)
            BY <6>3 DEF LedgerVote
          <6> QED BY <6>1, <6>4 DEF CountedVote
        <5>2. CountedVote(session')[u] = p
          <6>1. \A q \in ValidPackages :
                  (NullifierOf[q] = u /\ \E i \in DOMAIN session'.ledger : session'.ledger[i] = q)
                    <=> q = p
            <7>1. \A i \in DOMAIN session'.ledger : NullifierOf[session'.ledger[i]] = u => i = n + 1
              BY <4>4 DEF OneVotePerNullifier
            <7> QED BY <4>1, <4>4, <7>1
          <6>2. LedgerVote(session', u) = p
            BY <6>1, <4>1 DEF LedgerVote
          <6> QED BY <6>2, <4>1, <4>2 DEF CountedVote
        <5>3. \A v \in Voters : CountedVote(session')[v]
                = IF v = u THEN p ELSE CountedVote(session)[v]
          BY <5>1, <5>2
        <5>4. /\ CountedVote(session') = [v \in Voters |-> CountedVote(session')[v]]
              /\ CountedVote(session) = [v \in Voters |-> CountedVote(session)[v]]
          BY DEF CountedVote
        <5> QED BY SMTT(30), <5>3, <5>4, <4>2
      <4>7. PhaseOf[session.lifecycle] \in {"voting", "draining"}
        BY <2>3 DEF AdmitsStatements, PhaseOf
      <4>8. Register!Count(p)
        BY <3>1, <4>5, <4>6, <4>7 DEF Register!Count
      <4> QED BY <4>1, <4>8 DEF Register!Next
    <3> QED BY SMTT(30), <3>2, <3>3
  <2> QED BY SMTT(30), <2>1, <2>2, <2>3, StepShape
<1> QED BY <1>1, <1>2, TypeCorrect, OneVote, PTL
        DEF Spec, ImplementsRegister, Register!Spec

=============================================================================
