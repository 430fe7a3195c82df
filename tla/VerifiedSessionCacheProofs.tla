---------------------- MODULE VerifiedSessionCacheProofs ----------------------
(***************************************************************************)
(* For any number of threads, workspaces, entries and permits: the cache   *)
(* files every session under the head it was replayed from, and a resume   *)
(* returns the session that is committed at that moment.                   *)
(***************************************************************************)
EXTENDS VerifiedSessionCache, TLAPS

AllKeys == [workspace : Workspaces, revision : Nat, body : Bodies]

Steps == {"idle", "lookup", "wait", "permit", "replay", "publish", "announce",
          "recheck", "returned"}

\* The thread a flight depends on, from its start to its announcement.
Flying == {"permit", "replay", "publish", "announce"}

ResumeOps == [step : Steps, key : AllKeys \cup {NoKey}, flight : Resumers \cup {NoThread},
              session : Bodies \cup {NoSession}]

Shape ==
    /\ head \in [Workspaces -> AllKeys \cup {NoKey}]
    /\ resume \in [Resumers -> ResumeOps]
    /\ write \in [Writers -> [step : {"idle", "confirm", "install", "invalidate"},
                              key : AllKeys \cup {NoKey},
                              session : Bodies \cup {NoSession}]]

\* A thread that is resuming has a key, and any session it holds is the replay of
\* that key's head; from the last look at the head on it holds one.
ThreadHoldsReplay ==
    \A r \in Resumers :
        /\ ~At(r, "idle") => resume[r].key # NoKey
        /\ resume[r].session # NoSession => resume[r].session = resume[r].key.body
        /\ resume[r].step \in {"recheck", "returned"} => resume[r].session # NoSession

\* A thread that waits depends on a thread with the same key that has not
\* announced its outcome yet.
WaitsForOwnKey ==
    \A r \in Resumers :
        At(r, "wait") =>
            /\ resume[r].flight \in Resumers
            /\ resume[resume[r].flight].key = resume[r].key
            /\ resume[resume[r].flight].step \in Flying

\* A command that is writing has a key, and what it is about to install is the
\* body of the head it found.
WriterHoldsHead ==
    \A c \in Writers :
        /\ write[c].step # "idle" => write[c].key \in AllKeys
        /\ write[c].step = "install" => write[c].session = write[c].key.body

IInv == Shape /\ ThreadHoldsReplay /\ WaitsForOwnKey /\ WriterHoldsHead /\ EntriesAreReplayed

-----------------------------------------------------------------------------
\* Insertion and eviction keep every entry the replay of its key, if the new one is.
LEMMA InsertReplayed ==
    ASSUME NEW cached, NEW recent, NEW key, NEW session,
           \A k \in DOMAIN cached : cached[k] = k.body,
           session = key.body,
           Insert(cached, recent, key, session)
    PROVE  EntriesAreReplayed'
  BY DEF Insert, EntriesAreReplayed

\* Dropping entries keeps the others as they are.
LEMMA KeepReplayed ==
    ASSUME NEW keys, EntriesAreReplayed
    PROVE  \A k \in DOMAIN Keep(entries, keys) : Keep(entries, keys)[k] = k.body
  BY DEF Keep, EntriesAreReplayed

\* One thread moves: it keeps the key and the flight others wait for, and what it
\* holds afterwards is a replay of its key.
LEMMA ThreadMoves ==
    ASSUME Shape, ThreadHoldsReplay, WaitsForOwnKey,
           NEW r \in Resumers, NEW new \in ResumeOps, Moves(r, new),
           new.step # "idle" => new.key # NoKey,
           new.session # NoSession => new.session = new.key.body,
           new.step \in {"recheck", "returned"} => new.session # NoSession,
           resume[r].step \in Flying => new.step \in Flying /\ new.key = resume[r].key,
           new.step = "wait" =>
               /\ new.flight \in Resumers \ {r}
               /\ resume[new.flight].key = new.key
               /\ resume[new.flight].step \in Flying
    PROVE  /\ resume' \in [Resumers -> ResumeOps]
           /\ ThreadHoldsReplay'
           /\ WaitsForOwnKey'
<1>1. /\ resume' \in [Resumers -> ResumeOps]
      /\ resume'[r] = new
      /\ \A q \in Resumers : q # r => resume'[q] = resume[q]
  BY DEF Moves, Shape
<1>2. ThreadHoldsReplay'
  BY <1>1 DEF ThreadHoldsReplay, At
<1>3. WaitsForOwnKey'
  <2> SUFFICES ASSUME NEW q \in Resumers, resume'[q].step = "wait"
               PROVE  /\ resume'[q].flight \in Resumers
                      /\ resume'[resume'[q].flight].key = resume'[q].key
                      /\ resume'[resume'[q].flight].step \in Flying
    BY DEF WaitsForOwnKey, At
  <2>1. CASE q = r
    BY <2>1, <1>1
  <2>2. CASE q # r
    <3>1. /\ resume'[q] = resume[q]
          /\ resume[q].flight \in Resumers
          /\ resume[resume[q].flight].key = resume[q].key
          /\ resume[resume[q].flight].step \in Flying
      BY <2>2, <1>1 DEF WaitsForOwnKey, At
    <3>2. CASE resume[q].flight = r
      BY <3>1, <3>2, <1>1
    <3>3. CASE resume[q].flight # r
      BY <3>1, <3>3, <1>1
    <3> QED BY <3>2, <3>3
  <2> QED BY <2>1, <2>2
<1> QED BY <1>1, <1>2, <1>3

\* The invariant holds before anybody resumes.
LEMMA InitIInv == Init => IInv
<1> SUFFICES ASSUME Init PROVE IInv
  OBVIOUS
<1>1. Shape
  BY CacheAssumption DEF Init, Shape, ResumeOps, AllKeys, Steps, Key, ResumeIdle, WriteIdle
<1>2. ThreadHoldsReplay /\ WaitsForOwnKey /\ WriterHoldsHead
  BY DEF Init, ThreadHoldsReplay, WaitsForOwnKey, WriterHoldsHead, At, ResumeIdle, WriteIdle
<1>3. EntriesAreReplayed
  BY DEF Init, EntriesAreReplayed
<1> QED BY <1>1, <1>2, <1>3 DEF IInv

\* A move of one thread that leaves disk and writers alone keeps the invariant, if
\* the entries stay replays and what it returns is the committed session.
LEMMA ThreadFrame ==
    ASSUME IInv,
           NEW r \in Resumers, NEW new \in ResumeOps, Moves(r, new),
           new.step # "idle" => new.key # NoKey,
           new.session # NoSession => new.session = new.key.body,
           new.step \in {"recheck", "returned"} => new.session # NoSession,
           resume[r].step \in Flying => new.step \in Flying /\ new.key = resume[r].key,
           new.step = "wait" =>
               /\ new.flight \in Resumers \ {r}
               /\ resume[new.flight].key = new.key
               /\ resume[new.flight].step \in Flying,
           new.step = "returned" =>
               /\ head[resume[r].key.workspace] # NoKey
               /\ new.session = head[resume[r].key.workspace].body,
           head' = head, write' = write, EntriesAreReplayed'
    PROVE  IInv' /\ ResumeReturnsHeadStep
<1>1. /\ resume' \in [Resumers -> ResumeOps]
      /\ ThreadHoldsReplay'
      /\ WaitsForOwnKey'
  BY ThreadMoves DEF IInv
<1>2. Shape' /\ WriterHoldsHead'
  BY <1>1 DEF IInv, Shape, WriterHoldsHead
<1>3. ResumeReturnsHeadStep
  BY DEF IInv, Shape, Moves, ResumeReturnsHeadStep, At
<1> QED BY <1>1, <1>2, <1>3 DEF IInv

\* A step of one resuming thread other than the announcement.
LEMMA ThreadStep ==
    ASSUME IInv, NEW r \in Resumers,
           \/ \E w \in Workspaces : Begin(r, w)
           \/ Hit(r) \/ Join(r) \/ Fly(r) \/ AcquirePermit(r) \/ Reconstruct(r)
           \/ Panic(r) \/ Publish(r) \/ Recheck(r) \/ Leave(r)
    PROVE  IInv' /\ ResumeReturnsHeadStep
<1> DEFINE op == resume[r]
<1>0. /\ op \in ResumeOps
      /\ op.step # "idle" => op.key \in AllKeys /\ op.key # NoKey
      /\ op.session # NoSession => op.session = op.key.body
      /\ op.step \in {"recheck", "returned"} => op.session # NoSession
  BY DEF IInv, Shape, ThreadHoldsReplay, At, ResumeOps
<1>1. ASSUME NEW w \in Workspaces, Begin(r, w) PROVE IInv' /\ ResumeReturnsHeadStep
  <2> DEFINE new == [ResumeIdle EXCEPT !.step = "lookup", !.key = head[w]]
  <2>1. /\ new \in ResumeOps
        /\ new.step = "lookup" /\ new.key # NoKey /\ new.session = NoSession
    BY <1>1 DEF Begin, IInv, Shape, ResumeOps, ResumeIdle, Steps
  <2>2. Moves(r, new) /\ op.step \notin Flying /\ head' = head /\ write' = write
    BY <1>1 DEF Begin, At, Flying
  <2>3. EntriesAreReplayed'
    BY <1>1 DEF Begin, cache, IInv, EntriesAreReplayed
  <2> HIDE DEF new
  <2> QED BY <2>1, <2>2, <2>3, ThreadFrame
<1>2. CASE Hit(r)
  <2> DEFINE new == [op EXCEPT !.step = "recheck", !.session = entries[op.key]]
  <2>1. entries[op.key] = op.key.body /\ op.step = "lookup"
    BY <1>2 DEF Hit, At, IInv, EntriesAreReplayed
  <2>2. /\ new \in ResumeOps
        /\ new.step = "recheck" /\ new.key = op.key /\ new.session = op.key.body
        /\ op.key.body # NoSession
    BY <2>1, <1>0, CacheAssumption DEF ResumeOps, AllKeys, Steps
  <2>3. Moves(r, new) /\ op.step \notin Flying /\ head' = head /\ write' = write
    BY <1>2, <2>1 DEF Hit, Flying
  <2>4. EntriesAreReplayed'
    BY <1>2 DEF Hit, IInv, EntriesAreReplayed
  <2> HIDE DEF new
  <2> QED BY <1>0, <2>1, <2>2, <2>3, <2>4, ThreadFrame
<1>3. CASE Join(r)
  <2>1. PICK owner \in Resumers :
            /\ resume[owner].key = op.key
            /\ resume[owner].step \in {"permit", "replay", "publish"}
            /\ Moves(r, [op EXCEPT !.step = "wait", !.flight = owner])
    BY <1>3 DEF Join
  <2> DEFINE new == [op EXCEPT !.step = "wait", !.flight = owner]
  <2>2. op.step = "lookup" /\ owner # r
    BY <1>3, <2>1 DEF Join, At
  <2>3. /\ new \in ResumeOps
        /\ new.step = "wait" /\ new.key = op.key /\ new.session = op.session
        /\ new.flight = owner
    BY <1>0 DEF ResumeOps, Steps
  <2>4. /\ Moves(r, new) /\ op.step \notin Flying /\ head' = head /\ write' = write
        /\ resume[owner].step \in Flying
    BY <1>3, <2>1, <2>2 DEF Join, Flying
  <2>5. EntriesAreReplayed'
    BY <1>3 DEF Join, cache, IInv, EntriesAreReplayed
  <2> HIDE DEF new
  <2> QED BY <1>0, <2>1, <2>2, <2>3, <2>4, <2>5, ThreadFrame
<1>4. CASE Fly(r)
  <2> DEFINE new == [op EXCEPT !.step = "permit"]
  <2>1. op.step = "lookup"
    BY <1>4 DEF Fly, At
  <2>2. /\ new \in ResumeOps
        /\ new.step = "permit" /\ new.key = op.key /\ new.session = op.session
    BY <1>0 DEF ResumeOps, Steps
  <2>3. Moves(r, new) /\ op.step \notin Flying /\ head' = head /\ write' = write
    BY <1>4, <2>1 DEF Fly, Flying
  <2>4. EntriesAreReplayed'
    BY <1>4 DEF Fly, IInv, EntriesAreReplayed
  <2> HIDE DEF new
  <2> QED BY <1>0, <2>1, <2>2, <2>3, <2>4, ThreadFrame
<1>5. CASE AcquirePermit(r)
  <2> DEFINE new == [op EXCEPT !.step = "replay"]
  <2>1. op.step = "permit"
    BY <1>5 DEF AcquirePermit, At
  <2>2. /\ new \in ResumeOps
        /\ new.step = "replay" /\ new.key = op.key /\ new.session = op.session
    BY <1>0 DEF ResumeOps, Steps
  <2>3. Moves(r, new) /\ new.step \in Flying /\ head' = head /\ write' = write
    BY <1>5, <2>2 DEF AcquirePermit, Flying
  <2>4. EntriesAreReplayed'
    BY <1>5 DEF AcquirePermit, cache, IInv, EntriesAreReplayed
  <2> HIDE DEF new
  <2> QED BY <1>0, <2>1, <2>2, <2>3, <2>4, ThreadFrame
<1>6. CASE Reconstruct(r)
  <2> DEFINE found == IF head[op.key.workspace] = op.key THEN op.key.body ELSE NoSession
  <2> DEFINE new == [op EXCEPT !.step = "publish", !.session = found]
  <2>1. op.step = "replay"
    BY <1>6 DEF Reconstruct, At
  <2>2. /\ new \in ResumeOps
        /\ new.step = "publish" /\ new.key = op.key
        /\ new.session # NoSession => new.session = op.key.body
    BY <1>0, <2>1 DEF ResumeOps, AllKeys, Steps
  <2>3. Moves(r, new) /\ new.step \in Flying /\ head' = head /\ write' = write
    BY <1>6, <2>2 DEF Reconstruct, Flying
  <2>4. EntriesAreReplayed'
    BY <1>6 DEF Reconstruct, cache, IInv, EntriesAreReplayed
  <2> HIDE DEF new
  <2> QED BY <1>0, <2>1, <2>2, <2>3, <2>4, ThreadFrame
<1>7. CASE Panic(r)
  <2> DEFINE new == [op EXCEPT !.step = "publish"]
  <2>1. op.step = "replay"
    BY <1>7 DEF Panic, At
  <2>2. /\ new \in ResumeOps
        /\ new.step = "publish" /\ new.key = op.key /\ new.session = op.session
    BY <1>0 DEF ResumeOps, Steps
  <2>3. Moves(r, new) /\ new.step \in Flying /\ head' = head /\ write' = write
    BY <1>7, <2>2 DEF Panic, Flying
  <2>4. EntriesAreReplayed'
    BY <1>7 DEF Panic, cache, IInv, EntriesAreReplayed
  <2> HIDE DEF new
  <2> QED BY <1>0, <2>1, <2>2, <2>3, <2>4, ThreadFrame
<1>8. CASE Publish(r)
  <2> DEFINE new == [op EXCEPT !.step = "announce"]
  <2>1. op.step = "publish"
    BY <1>8 DEF Publish, At
  <2>2. /\ new \in ResumeOps
        /\ new.step = "announce" /\ new.key = op.key /\ new.session = op.session
    BY <1>0 DEF ResumeOps, Steps
  <2>3. Moves(r, new) /\ new.step \in Flying /\ head' = head /\ write' = write
    BY <1>8, <2>2 DEF Publish, Flying
  <2>4. EntriesAreReplayed'
    <3>1. CASE op.session # NoSession
      BY <1>0, <1>8, <3>1, InsertReplayed DEF Publish, IInv, EntriesAreReplayed
    <3>2. CASE op.session = NoSession
      BY <1>8, <3>2 DEF Publish, IInv, EntriesAreReplayed
    <3> QED BY <3>1, <3>2
  <2> HIDE DEF new
  <2> QED BY <1>0, <2>1, <2>2, <2>3, <2>4, ThreadFrame
<1>9. CASE Recheck(r)
  <2> DEFINE new == IF head[op.key.workspace] = op.key
                    THEN [op EXCEPT !.step = "returned"] ELSE ResumeIdle
  <2>1. op.step = "recheck"
    BY <1>9 DEF Recheck, At
  <2>2. CASE head[op.key.workspace] = op.key
    <3>1. /\ new \in ResumeOps
          /\ new.step = "returned" /\ new.key = op.key /\ new.session = op.session
      BY <1>0, <2>2 DEF ResumeOps, Steps
    <3>2. Moves(r, new) /\ op.step \notin Flying /\ head' = head /\ write' = write
      BY <1>9, <2>1 DEF Recheck, Flying
    <3>3. EntriesAreReplayed'
      BY <1>9 DEF Recheck, cache, IInv, EntriesAreReplayed
    <3> HIDE DEF new
    <3> QED BY <1>0, <2>1, <2>2, <3>1, <3>2, <3>3, ThreadFrame
  <2>3. CASE head[op.key.workspace] # op.key
    <3>1. /\ new \in ResumeOps
          /\ new.step = "idle" /\ new.session = NoSession
      BY <2>3 DEF ResumeOps, Steps, ResumeIdle
    <3>2. Moves(r, new) /\ op.step \notin Flying /\ head' = head /\ write' = write
      BY <1>9, <2>1 DEF Recheck, Flying
    <3>3. EntriesAreReplayed'
      BY <1>9 DEF Recheck, cache, IInv, EntriesAreReplayed
    <3> HIDE DEF new
    <3> QED BY <3>1, <3>2, <3>3, ThreadFrame
  <2> QED BY <2>2, <2>3
<1>10. CASE Leave(r)
  <2>1. /\ ResumeIdle \in ResumeOps
        /\ ResumeIdle.step = "idle" /\ ResumeIdle.session = NoSession
    BY DEF ResumeOps, Steps, ResumeIdle
  <2>2. Moves(r, ResumeIdle) /\ op.step \notin Flying /\ head' = head /\ write' = write
    BY <1>10 DEF Leave, At, Flying
  <2>3. EntriesAreReplayed'
    BY <1>10 DEF Leave, cache, IInv, EntriesAreReplayed
  <2> QED BY <2>1, <2>2, <2>3, ThreadFrame
<1> QED BY <1>1, <1>2, <1>3, <1>4, <1>5, <1>6, <1>7, <1>8, <1>9, <1>10

\* The announcement hands the owner's outcome, a replay of the owner's key, to
\* threads that wait for the same key, and leaves nobody waiting for the owner.
LEMMA AnnounceStep ==
    ASSUME IInv, NEW r \in Resumers, Announce(r)
    PROVE  IInv' /\ ResumeReturnsHeadStep
<1> DEFINE session == resume[r].session
           told(q) == q = r \/ (At(q, "wait") /\ resume[q].flight = r)
<1>1. /\ resume[r].step = "announce"
      /\ session \in Bodies \cup {NoSession}
      /\ head' = head /\ write' = write /\ entries' = entries
  BY DEF Announce, At, cache, IInv, Shape, ResumeOps
<1>2. \A q \in Resumers :
        /\ told(q) => resume'[q] = WithOutcome(resume[q], session)
        /\ ~told(q) => resume'[q] = resume[q]
  BY DEF Announce
<1>3. \A q \in Resumers : resume[q] \in ResumeOps
  BY DEF IInv, Shape
<1>4. \A q \in Resumers : told(q) => resume[q].key = resume[r].key /\ resume[q].key # NoKey
  BY <1>1 DEF IInv, WaitsForOwnKey, ThreadHoldsReplay, At
<1>5. session # NoSession => session = resume[r].key.body
  BY DEF IInv, ThreadHoldsReplay
<1>6. \A q \in Resumers :
        LET new == WithOutcome(resume[q], session)
        IN  /\ new \in ResumeOps
            /\ session = NoSession => new.step = "idle" /\ new.session = NoSession
            /\ session # NoSession =>
                  new.step = "recheck" /\ new.session = session /\ new.key = resume[q].key
  BY <1>1, <1>3 DEF WithOutcome, ResumeIdle, ResumeOps, Steps
<1>7. Shape'
  <2>1. resume' \in [Resumers -> ResumeOps]
    <3>1. \A q \in Resumers : resume'[q] \in ResumeOps
      BY <1>2, <1>3, <1>6
    <3>2. resume' = [q \in Resumers |-> resume'[q]]
      BY DEF Announce
    <3> QED BY <3>1, <3>2
  <2> QED BY <1>1, <2>1 DEF IInv, Shape
<1>8. ThreadHoldsReplay'
  <2> SUFFICES ASSUME NEW q \in Resumers
               PROVE  /\ resume'[q].step # "idle" => resume'[q].key # NoKey
                      /\ resume'[q].session # NoSession
                            => resume'[q].session = resume'[q].key.body
                      /\ resume'[q].step \in {"recheck", "returned"}
                            => resume'[q].session # NoSession
    BY DEF ThreadHoldsReplay, At
  <2>1. CASE told(q)
    <3> HIDE DEF told, session
    <3> QED BY <2>1, <1>2, <1>4, <1>5, <1>6
  <2>2. CASE ~told(q)
    BY <2>2, <1>2 DEF IInv, ThreadHoldsReplay, At
  <2> QED BY <2>1, <2>2
<1>9. WaitsForOwnKey'
  <2> SUFFICES ASSUME NEW q \in Resumers, resume'[q].step = "wait"
               PROVE  /\ resume'[q].flight \in Resumers
                      /\ resume'[resume'[q].flight].key = resume'[q].key
                      /\ resume'[resume'[q].flight].step \in Flying
    BY DEF WaitsForOwnKey, At
  <2>1. ~told(q) /\ resume'[q] = resume[q]
    <3> HIDE DEF told, session
    <3> QED BY <1>2, <1>6
  <2>2. /\ resume[q].flight \in Resumers
        /\ resume[resume[q].flight].key = resume[q].key
        /\ resume[resume[q].flight].step \in Flying
    BY <2>1 DEF IInv, WaitsForOwnKey, At
  <2>3. ~told(resume[q].flight)
    BY <2>1, <2>2 DEF At, Flying
  <2> QED BY <1>2, <2>1, <2>2, <2>3
<1>10. WriterHoldsHead' /\ EntriesAreReplayed'
  BY <1>1 DEF IInv, WriterHoldsHead, EntriesAreReplayed
<1>11. ResumeReturnsHeadStep
  <2> SUFFICES ASSUME NEW q \in Resumers, resume[q].step # "returned"
               PROVE  resume'[q].step # "returned"
    BY DEF ResumeReturnsHeadStep, At
  <2> HIDE DEF told, session
  <2> QED BY <1>2, <1>6
<1> QED BY <1>7, <1>8, <1>9, <1>10, <1>11 DEF IInv

\* A step of a committing or deleting command leaves the threads alone; what it
\* installs was compared with the head it was read from.
LEMMA WriterStep ==
    ASSUME IInv, NEW c \in Writers,
           \/ \E w \in Workspaces : Delete(c, w) \/ \E body \in Bodies : Commit(c, w, body)
           \/ Confirm(c) \/ InstallAdvanced(c) \/ InvalidateWorkspace(c)
    PROVE  IInv' /\ ResumeReturnsHeadStep
<1>0. resume' = resume
  BY DEF Delete, Commit, Confirm, InstallAdvanced, InvalidateWorkspace
<1>1. ThreadHoldsReplay' /\ WaitsForOwnKey' /\ ResumeReturnsHeadStep
  BY <1>0 DEF IInv, ThreadHoldsReplay, WaitsForOwnKey, ResumeReturnsHeadStep, At
<1> DEFINE Kept == Shape' /\ WriterHoldsHead' /\ EntriesAreReplayed'
<1>2. \A new \in [step : {"idle", "confirm", "install", "invalidate"},
                  key : AllKeys \cup {NoKey}, session : Bodies \cup {NoSession}] :
        /\ Writes(c, new)
        /\ new.step # "idle" => new.key \in AllKeys
        /\ new.step = "install" => new.session = new.key.body
        /\ head' \in [Workspaces -> AllKeys \cup {NoKey}]
        => Shape' /\ WriterHoldsHead'
  BY <1>0 DEF Writes, IInv, Shape, WriterHoldsHead
<1>3. ASSUME NEW w \in Workspaces, Delete(c, w) PROVE Kept
  <2>1. head[w] \in AllKeys
    BY <1>3 DEF Delete, IInv, Shape
  <2>2. head' \in [Workspaces -> AllKeys \cup {NoKey}] /\ entries' = entries
    BY <1>3 DEF Delete, cache, IInv, Shape
  <2> QED BY <1>2, <1>3, <2>1, <2>2 DEF Delete, IInv, EntriesAreReplayed
<1>4. ASSUME NEW w \in Workspaces, NEW body \in Bodies, Commit(c, w, body) PROVE Kept
  <2> DEFINE key == Key(w, IF head[w] = NoKey THEN 1 ELSE head[w].revision + 1, body)
  <2>1. key \in AllKeys
    BY DEF IInv, Shape, AllKeys, Key
  <2>2. /\ head' = [head EXCEPT ![w] = key] /\ entries' = entries
        /\ Writes(c, [step |-> "confirm", key |-> key, session |-> body])
    BY <1>4 DEF Commit, cache
  <2> HIDE DEF key
  <2>3. head' \in [Workspaces -> AllKeys \cup {NoKey}]
    BY <2>1, <2>2 DEF IInv, Shape
  <2> QED BY <1>2, <2>1, <2>2, <2>3 DEF IInv, EntriesAreReplayed
<1>5. ASSUME Confirm(c) PROVE Kept
  <2> DEFINE found == head[write[c].key.workspace]
  <2>1. /\ write[c].key \in AllKeys /\ write[c].session \in Bodies \cup {NoSession}
        /\ write[c].step = "confirm"
        /\ head' = head /\ entries' = entries
    BY <1>5 DEF Confirm, cache, IInv, Shape, WriterHoldsHead
  <2>2. found \in AllKeys \cup {NoKey}
    BY <2>1 DEF IInv, Shape, AllKeys
  <2>3. \/ /\ found # NoKey /\ found.body = write[c].session
           /\ Writes(c, [write[c] EXCEPT !.step = "install", !.key = found])
        \/ Writes(c, [write[c] EXCEPT !.step = "invalidate"])
    BY <1>5 DEF Confirm
  <2>4. head' \in [Workspaces -> AllKeys \cup {NoKey}] /\ EntriesAreReplayed'
    BY <2>1 DEF IInv, Shape, EntriesAreReplayed
  <2>5. write[c] \in [step : {"idle", "confirm", "install", "invalidate"},
                     key : AllKeys \cup {NoKey}, session : Bodies \cup {NoSession}]
    BY DEF IInv, Shape
  <2> HIDE DEF found
  <2>6. CASE /\ found # NoKey /\ found.body = write[c].session
             /\ Writes(c, [write[c] EXCEPT !.step = "install", !.key = found])
    BY <1>2, <2>2, <2>4, <2>5, <2>6
  <2>7. CASE Writes(c, [write[c] EXCEPT !.step = "invalidate"])
    BY <1>2, <2>1, <2>4, <2>5, <2>7
  <2> QED BY <2>3, <2>6, <2>7
<1>6. ASSUME InstallAdvanced(c) PROVE Kept
  <2> DEFINE superseded == KeysOf(write[c].key.workspace) \ {write[c].key}
             cached == Keep(entries, DOMAIN entries \ superseded)
  <2>1. /\ write[c].session = write[c].key.body
        /\ Insert(cached, Without(recency, superseded), write[c].key, write[c].session)
    BY <1>6 DEF InstallAdvanced, IInv, WriterHoldsHead
  <2>2. \A k \in DOMAIN cached : cached[k] = k.body
    BY KeepReplayed DEF IInv
  <2>3. EntriesAreReplayed'
    <3> HIDE DEF superseded, cached
    <3> QED BY <2>1, <2>2, InsertReplayed
  <2>4. Shape' /\ WriterHoldsHead'
    BY <1>2, <1>6 DEF InstallAdvanced, WriteIdle, IInv, Shape
  <2> QED BY <2>3, <2>4
<1>7. ASSUME InvalidateWorkspace(c) PROVE Kept
  <2>1. EntriesAreReplayed'
    BY <1>7, KeepReplayed DEF InvalidateWorkspace, Invalidate, IInv, EntriesAreReplayed
  <2>2. Shape' /\ WriterHoldsHead'
    BY <1>2, <1>7 DEF InvalidateWorkspace, WriteIdle, IInv, Shape
  <2> QED BY <2>1, <2>2
<1>8. Kept
  BY <1>3, <1>4, <1>5, <1>6, <1>7
<1> QED BY <1>1, <1>8 DEF IInv

\* What one step of the whole system preserves and guarantees.
LEMMA NextIInv == IInv /\ [Next]_vars => IInv' /\ [ResumeReturnsHeadStep]_vars
<1> SUFFICES ASSUME IInv, [Next]_vars PROVE IInv' /\ [ResumeReturnsHeadStep]_vars
  OBVIOUS
<1>1. CASE UNCHANGED vars
  BY <1>1 DEF vars, IInv, Shape, ThreadHoldsReplay, WaitsForOwnKey, WriterHoldsHead,
              EntriesAreReplayed, At
<1>2. CASE Next
  BY <1>2, ThreadStep, AnnounceStep, WriterStep DEF Next, Proceed
<1> QED BY <1>1, <1>2

\* The inductive invariant holds in every reachable state.
THEOREM Invariant == Spec => []IInv
<1> QED BY InitIInv, NextIInv, PTL DEF Spec

\* Whatever commits, deletions, replays and evictions overlap, a cached session is
\* the replay of the head it is filed under (get_or_reconstruct, install_advanced).
THEOREM CacheHoldsReplays == Spec => []EntriesAreReplayed
<1>1. IInv => EntriesAreReplayed
  BY DEF IInv
<1> QED BY <1>1, Invariant, PTL

\* A resume that succeeds returns the session that is committed at that moment, for
\* any number of threads, heads, cache entries and permits
\* (resume_election_workspace_with_verified_session_cache_v1).
THEOREM ResumeIsCommitted == Spec => ResumeReturnsHead
<1> QED BY InitIInv, NextIInv, PTL DEF Spec, ResumeReturnsHead

=============================================================================
