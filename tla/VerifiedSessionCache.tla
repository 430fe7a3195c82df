------------------------- MODULE VerifiedSessionCache -------------------------
(***************************************************************************)
(* Resuming workspaces through the process-local cache of replay-verified  *)
(* sessions (crates/gui-core/src/verified_session_cache.rs), against       *)
(* commits and deletions that run beside it.                               *)
(*                                                                         *)
(* A key is the identity of a committed head: workspace, revision and the  *)
(* digest of its record, which stands for the body.  A replayed session is *)
(* the body it was rebuilt from.  Draft workspaces are never cached and    *)
(* are left out.  The state mutex, the permit counter and the outcome of a *)
(* flight are separate locks: a step of the model holds one of them.       *)
(***************************************************************************)
EXTENDS Naturals, Sequences, FiniteSets, SequencesExt

CONSTANTS
    Workspaces,
    Bodies,        \* session bodies a commit can write
    Resumers,      \* threads of the blocking pool that resume a workspace
    Writers,       \* commands that commit a session or delete a workspace
    NoKey, NoSession, NoThread,
    Capacity,      \* entries the cache keeps
    Permits,       \* replays that may run at once
    FirstBody,     \* the body every workspace starts with
    MaxWrites,     \* bound on commits and deletions
    MaxPanics      \* bound on replays that panic

ASSUME CacheAssumption ==
    /\ FirstBody \in Bodies /\ NoSession \notin Bodies
    /\ Capacity \in Nat \ {0} /\ Permits \in Nat \ {0}
    /\ MaxWrites \in Nat /\ MaxPanics \in Nat

VARIABLES
    head,       \* per workspace: the key of its committed head on disk
    entries,    \* the cached sessions, by key
    recency,    \* the cached keys, least recently used first
    inFlight,   \* keys somebody is reconstructing
    available,  \* permits nobody holds
    resume,     \* per resumer: [step, key, flight, session]
    write,      \* per writer: [step, key, session]
    used        \* how much of each bound is used

vars == <<head, entries, recency, inFlight, available, resume, write, used>>
cache == <<entries, recency, inFlight>>

Key(w, rev, body) == [workspace |-> w, revision |-> rev, body |-> body]
ResumeIdle == [step |-> "idle", key |-> NoKey, flight |-> NoThread, session |-> NoSession]
WriteIdle == [step |-> "idle", key |-> NoKey, session |-> NoSession]

Init ==
    /\ head = [w \in Workspaces |-> Key(w, 1, FirstBody)]
    /\ entries = <<>>
    /\ recency = <<>>
    /\ inFlight = {}
    /\ available = Permits
    /\ resume = [r \in Resumers |-> ResumeIdle]
    /\ write = [c \in Writers |-> WriteIdle]
    /\ used = [writes |-> 0, panics |-> 0]

-----------------------------------------------------------------------------
\* The cache as a value: its entries and their order of use.

Without(recent, keys) == SelectSeq(recent, LAMBDA k : k \notin keys)

Keep(cached, keys) == [k \in DOMAIN cached \cap keys |-> cached[k]]

\* touch
Touch(recent, key) == Append(Without(recent, {key}), key)

\* The insertion of publish_completion and install_advanced: insert, touch, and
\* evict from the front of the order until the capacity is met.
Insert(cached, recent, key, session) ==
    LET all == Touch(recent, key)
        keys == DOMAIN cached \cup {key}
        over == IF Cardinality(keys) > Capacity THEN Cardinality(keys) - Capacity ELSE 0
        kept == keys \ {all[i] : i \in 1..over}
    IN  /\ entries' = [k \in kept |-> IF k = key THEN session ELSE cached[k]]
        /\ recency' = SubSeq(all, over + 1, Len(all))

KeysOf(w) == {k \in DOMAIN entries : k.workspace = w}

\* invalidate_workspace: the order is pruned when an entry was dropped.
Invalidate(w) ==
    /\ entries' = Keep(entries, DOMAIN entries \ KeysOf(w))
    /\ recency' = IF KeysOf(w) # {} THEN SelectSeq(recency, LAMBDA k : k.workspace # w)
                  ELSE recency
    /\ UNCHANGED inFlight

-----------------------------------------------------------------------------
\* Resuming: resume_election_workspace_with_verified_session_cache_v1.

Moves(r, new) == resume' = [resume EXCEPT ![r] = new]

At(r, step) == resume[r].step = step

\* The durable head is loaded before the lookup.
Begin(r, w) ==
    /\ At(r, "idle")
    /\ head[w] # NoKey
    /\ Moves(r, [ResumeIdle EXCEPT !.step = "lookup", !.key = head[w]])
    /\ UNCHANGED <<head, cache, available, write, used>>

\* get_or_reconstruct under the state mutex: a hit is used,
Hit(r) ==
    /\ At(r, "lookup")
    /\ resume[r].key \in DOMAIN entries
    /\ recency' = Touch(recency, resume[r].key)
    /\ Moves(r, [resume[r] EXCEPT !.step = "recheck", !.session = entries[resume[r].key]])
    /\ UNCHANGED <<head, entries, inFlight, available, write, used>>

\* a flight under way is joined,
Join(r) ==
    /\ At(r, "lookup")
    /\ resume[r].key \in inFlight \ DOMAIN entries
    /\ \E owner \in Resumers :
          /\ resume[owner].key = resume[r].key
          /\ resume[owner].step \in {"permit", "replay", "publish"}
          /\ Moves(r, [resume[r] EXCEPT !.step = "wait", !.flight = owner])
    /\ UNCHANGED <<head, cache, available, write, used>>

\* and otherwise a flight is started.
Fly(r) ==
    /\ At(r, "lookup")
    /\ resume[r].key \notin DOMAIN entries
    /\ resume[r].key \notin inFlight
    /\ inFlight' = inFlight \cup {resume[r].key}
    /\ Moves(r, [resume[r] EXCEPT !.step = "permit"])
    /\ UNCHANGED <<head, entries, recency, available, write, used>>

\* Faulty variant: a permit is taken without waiting for one.
AcquirePermitFreely(r) ==
    /\ At(r, "permit")
    /\ available' = available - 1
    /\ Moves(r, [resume[r] EXCEPT !.step = "replay"])
    /\ UNCHANGED <<head, cache, write, used>>

\* ReconstructionPermitsV1::acquire
AcquirePermit(r) ==
    /\ At(r, "permit")
    /\ available > 0
    /\ available' = available - 1
    /\ Moves(r, [resume[r] EXCEPT !.step = "replay"])
    /\ UNCHANGED <<head, cache, write, used>>

\* The snapshot read at the beginning is replayed, then the head is read again; a
\* changed head is a failure.  The permit is dropped with the closure's result.
Reconstruct(r) ==
    /\ At(r, "replay")
    /\ Moves(r, [resume[r] EXCEPT
                   !.step = "publish",
                   !.session = IF head[resume[r].key.workspace] = resume[r].key
                               THEN resume[r].key.body ELSE NoSession])
    /\ available' = available + 1
    /\ UNCHANGED <<head, cache, write, used>>

\* Faulty variant: a panic loses the permit.
PanicLosingPermit(r) ==
    /\ At(r, "replay")
    /\ used.panics < MaxPanics
    /\ used' = [used EXCEPT !.panics = @ + 1]
    /\ Moves(r, [resume[r] EXCEPT !.step = "publish"])
    /\ UNCHANGED <<head, cache, available, write>>

\* catch_unwind: a panic of the replay is a failure like another.
Panic(r) ==
    /\ At(r, "replay")
    /\ used.panics < MaxPanics
    /\ used' = [used EXCEPT !.panics = @ + 1]
    /\ Moves(r, [resume[r] EXCEPT !.step = "publish"])
    /\ available' = available + 1
    /\ UNCHANGED <<head, cache, write>>

\* publish_completion under the state mutex.
Publish(r) ==
    /\ At(r, "publish")
    /\ inFlight' = inFlight \ {resume[r].key}
    /\ IF resume[r].session # NoSession
       THEN Insert(entries, recency, resume[r].key, resume[r].session)
       ELSE UNCHANGED <<entries, recency>>
    /\ Moves(r, [resume[r] EXCEPT !.step = "announce"])
    /\ UNCHANGED <<head, available, write, used>>

\* What the outcome of a flight means for the thread that obtains it.
WithOutcome(op, session) ==
    IF session = NoSession THEN ResumeIdle
    ELSE [op EXCEPT !.step = "recheck", !.session = session, !.flight = NoThread]

\* Faulty variant: a failed flight wakes nobody.
AnnounceSuccess(r) ==
    /\ At(r, "announce")
    /\ resume' = [q \in Resumers |->
          IF q = r \/ (/\ resume[r].session # NoSession
                      /\ At(q, "wait")
                      /\ resume[q].flight = r)
          THEN WithOutcome(resume[q], resume[r].session)
          ELSE resume[q]]
    /\ UNCHANGED <<head, cache, available, write, used>>

\* The outcome is stored and every waiter of this flight is woken
\* (publish_completion, wait_for_in_flight).
Announce(r) ==
    /\ At(r, "announce")
    /\ resume' = [q \in Resumers |->
          IF q = r \/ (At(q, "wait") /\ resume[q].flight = r)
          THEN WithOutcome(resume[q], resume[r].session)
          ELSE resume[q]]
    /\ UNCHANGED <<head, cache, available, write, used>>

\* Faulty variant: a session from the cache is returned as it is.
RecheckTrusting(r) ==
    /\ At(r, "recheck")
    /\ Moves(r, [resume[r] EXCEPT !.step = "returned"])
    /\ UNCHANGED <<head, cache, available, write, used>>

\* The head is loaded once more; the resume succeeds when it is still the key.
Recheck(r) ==
    /\ At(r, "recheck")
    /\ Moves(r, IF head[resume[r].key.workspace] = resume[r].key
                THEN [resume[r] EXCEPT !.step = "returned"] ELSE ResumeIdle)
    /\ UNCHANGED <<head, cache, available, write, used>>

\* The command hands the session on.
Leave(r) ==
    /\ At(r, "returned")
    /\ Moves(r, ResumeIdle)
    /\ UNCHANGED <<head, cache, available, write, used>>

-----------------------------------------------------------------------------
\* Commits and deletions.

Writes(c, new) == write' = [write EXCEPT ![c] = new]

BeginsWrite(c) ==
    /\ write[c].step = "idle"
    /\ used.writes < MaxWrites
    /\ used' = [used EXCEPT !.writes = @ + 1]

\* write_session_workspace_revision_v1 returned: a new head is committed.
Commit(c, w, body) ==
    LET key == Key(w, IF head[w] = NoKey THEN 1 ELSE head[w].revision + 1, body) IN
    /\ BeginsWrite(c)
    /\ head' = [head EXCEPT ![w] = key]
    /\ Writes(c, [step |-> "confirm", key |-> key, session |-> body])
    /\ UNCHANGED <<cache, available, resume>>

\* Faulty variant: the head that is found is taken for the one written.
ConfirmAnyHead(c) ==
    LET found == head[write[c].key.workspace] IN
    /\ write[c].step = "confirm"
    /\ IF found # NoKey
       THEN Writes(c, [write[c] EXCEPT !.step = "install", !.key = found])
       ELSE Writes(c, [write[c] EXCEPT !.step = "invalidate"])
    /\ UNCHANGED <<head, cache, available, resume, used>>

\* advance_verified_session_after_commit_v1 reads the head again; it must be the
\* revision just written with the body of the advanced session.
Confirm(c) ==
    LET found == head[write[c].key.workspace] IN
    /\ write[c].step = "confirm"
    /\ IF /\ found # NoKey
          /\ found.revision = write[c].key.revision
          /\ found.body = write[c].session
       THEN Writes(c, [write[c] EXCEPT !.step = "install", !.key = found])
       ELSE Writes(c, [write[c] EXCEPT !.step = "invalidate"])
    /\ UNCHANGED <<head, cache, available, resume, used>>

\* install_advanced: the other heads of the workspace are dropped.
InstallAdvanced(c) ==
    LET key == write[c].key
        superseded == KeysOf(key.workspace) \ {key}
    IN  /\ write[c].step = "install"
        /\ Insert(Keep(entries, DOMAIN entries \ superseded), Without(recency, superseded),
                  key, write[c].session)
        /\ Writes(c, WriteIdle)
        /\ UNCHANGED <<head, inFlight, available, resume, used>>

\* delete_election_workspace: the directory goes first.
Delete(c, w) ==
    /\ BeginsWrite(c)
    /\ head[w] # NoKey
    /\ head' = [head EXCEPT ![w] = NoKey]
    /\ Writes(c, [step |-> "invalidate", key |-> head[w], session |-> NoSession])
    /\ UNCHANGED <<cache, available, resume>>

\* invalidate_workspace, after a deletion or as advance_fallback.
InvalidateWorkspace(c) ==
    /\ write[c].step = "invalidate"
    /\ Invalidate(write[c].key.workspace)
    /\ Writes(c, WriteIdle)
    /\ UNCHANGED <<head, available, resume, used>>

-----------------------------------------------------------------------------
\* What a thread does once it has begun a resume.
Proceed(r) ==
    \/ Hit(r) \/ Join(r) \/ Fly(r)
    \/ AcquirePermit(r)
    \/ Reconstruct(r) \/ Panic(r)
    \/ Publish(r)
    \/ Announce(r)
    \/ Recheck(r)
    \/ Leave(r)

Next ==
    \/ \E r \in Resumers : Proceed(r) \/ \E w \in Workspaces : Begin(r, w)
    \/ \E c \in Writers :
          \/ \E w \in Workspaces : Delete(c, w) \/ \E body \in Bodies : Commit(c, w, body)
          \/ Confirm(c)
          \/ InstallAdvanced(c)
          \/ InvalidateWorkspace(c)

Spec == Init /\ [][Next]_vars

\* A thread of the blocking pool runs on.  Which thread a released permit goes
\* to is left open, as the condition variable leaves it.
FairSpec == Spec /\ \A r \in Resumers : WF_vars(Proceed(r))

-----------------------------------------------------------------------------
Keys == [workspace : Workspaces, revision : 1..(MaxWrites + 1), body : Bodies]
Owning == {"permit", "replay", "publish"}

\* Every variable has the shape its declaration says; the order of use lists each
\* cached head once, and no more than the capacity.
TypeOK ==
    /\ head \in [Workspaces -> Keys \cup {NoKey}]
    /\ DOMAIN entries \subseteq Keys
    /\ ToSet(recency) = DOMAIN entries
    /\ Len(recency) = Cardinality(DOMAIN entries)
    /\ Len(recency) <= Capacity
    /\ inFlight \subseteq Keys
    /\ available \in 0..Permits
    /\ \A r \in Resumers : resume[r].session \in Bodies \cup {NoSession}
    /\ \A c \in Writers : write[c].step \in {"idle", "confirm", "install", "invalidate"}

\* Whatever commits, deletions and replays overlap, a cached session is the
\* replay of the head it is filed under.
EntriesAreReplayed == \A k \in DOMAIN entries : entries[k] = k.body

\* One thread at most reconstructs a head, and a head is marked in flight exactly
\* while one does: no lookup waits for a flight that has nobody on it.  A permit
\* is free or held by a thread that replays, through failures and panics.
FlightsAccounted ==
    /\ \A q, r \in Resumers :
          {resume[q].step, resume[r].step} \subseteq Owning /\ resume[r].key = resume[q].key
          => q = r
    /\ inFlight = {resume[r].key : r \in {q \in Resumers : resume[q].step \in Owning}}
    /\ available + Cardinality({r \in Resumers : At(r, "replay")}) = Permits

ResumeReturnsHeadStep ==
    \A r \in Resumers :
        ~At(r, "returned") /\ resume'[r].step = "returned" =>
            head[resume[r].key.workspace] # NoKey
            /\ resume'[r].session = head[resume[r].key.workspace].body

\* A resume that succeeds returns the session committed at that moment, from the
\* cache, from its own replay or from another thread's.
ResumeReturnsHead == [][ResumeReturnsHeadStep]_vars

\* Once a thread has begun to replay, every thread that waits for its flight is
\* answered, also when the replay fails or panics.
FlightLands ==
    \A r \in Resumers :
        resume[r].step \in {"replay", "publish"} ~>
            \A q \in Resumers : ~(At(q, "wait") /\ resume[q].flight = r)

-----------------------------------------------------------------------------
\* What the documentation says and the code does not do.

StaleNotInsertedStep ==
    \A k \in (DOMAIN entries') \ DOMAIN entries :
        (\A c \in Writers : write'[c] = write[c]) => head[k.workspace] = k

\* invalidate_workspace: "In-flight work is left to its verify-after check, which
\* will fail closed rather than insert a stale result."  A commit or deletion
\* after the check and before publish_completion is not seen.
StaleNotInserted == [][StaleNotInsertedStep]_vars

=============================================================================
