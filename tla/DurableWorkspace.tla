--------------------------- MODULE DurableWorkspace ---------------------------
(***************************************************************************)
(* The crash-resilient revision log of one election workspace              *)
(* (crates/gui-core/src/workspace.rs).                                     *)
(*                                                                         *)
(* An append writes a revision file and then a commit marker; both carry   *)
(* the revision number and the digest of the payload in their names and    *)
(* are written with create_new.  A payload holds the revision number, the  *)
(* digest of its predecessor, the body and a timestamp, so a payload       *)
(* stands for its own digest.  Reading walks the markers and then every    *)
(* revision file up to the newest marker.  A process that already          *)
(* validated the head remembers it and appends on a fast path that reads   *)
(* only the markers and the head file.                                     *)
(*                                                                         *)
(* The append lock makes appends of one process sequential; a crash or a   *)
(* failed write may interrupt one between any two file operations.         *)
(***************************************************************************)
EXTENDS Naturals, FiniteSets, FiniteSetsExt

CONSTANTS
    Bodies,         \* workspace bodies: one draft or session snapshot each
    RankOf,         \* 0 for a draft, the lifecycle rank 1..5 for a session
    Stamps,         \* the clock values an append may read
    Genesis,        \* the predecessor of revision 1
    NoPayload,      \* nothing in flight, nothing trusted
    MaxRevisions,   \* MAX_WORKSPACE_REVISIONS_V1: files a walk inspects
    MaxAppends,     \* bound on the appends attempted
    MaxInterrupts   \* bound on crashes and failed writes

ASSUME WorkspaceAssumption ==
    /\ RankOf \in [Bodies -> 0..5]
    /\ MaxRevisions \in Nat
    /\ MaxAppends \in Nat
    /\ MaxInterrupts \in Nat

FinalizedRank == 5

VARIABLES
    revisions,    \* revision files: [payload, whole]
    commits,      \* commit markers: [payload, whole]
    directory,    \* whether the workspace directories exist
    deleting,     \* whether a deletion is removing the files
    pc,           \* where the running append is
    pending,      \* the payload the running append writes
    trusted,      \* the validated head this process remembers
    acknowledged, \* the payload of the last append that returned Ok and that
                  \* no deletion has touched since (history)
    appends,      \* appends attempted so far
    interrupts    \* interrupted appends so far

vars == <<revisions, commits, directory, deleting, pc, pending, trusted, acknowledged,
          appends, interrupts>>

disk == <<revisions, commits, directory>>

Payload(rev, prev, body, stamp) ==
    [rev |-> rev, prev |-> prev, body |-> body, stamp |-> stamp]

-----------------------------------------------------------------------------
\* Reading.

MarkersAt(r) == {c \in commits : c.payload.rev = r}

\* load_commit_markers: not too many, every marker decodes, one digest per
\* revision, and the revisions are 1, 2, 3, ...
MarkersValid ==
    /\ Cardinality(commits) <= MaxRevisions
    /\ \A c \in commits : c.whole
    /\ \A c, d \in commits : c.payload.rev = d.payload.rev => c = d
    /\ {c.payload.rev : c \in commits} = 1..Cardinality(commits)

MarkerHead == CHOOSE c \in commits : \A d \in commits : d.payload.rev <= c.payload.rev

\* load_committed_revision_files: files above the head are skipped; those up to
\* the head must all be readable and unique per revision.
FilesUpToHead == {f \in revisions : f.payload.rev <= MarkerHead.payload.rev}

RevisionFilesValid ==
    /\ Cardinality(revisions) <= MaxRevisions
    /\ \A f \in FilesUpToHead : f.whole
    /\ \A f, g \in FilesUpToHead : f.payload.rev = g.payload.rev => f = g

\* validate_predecessor along the committed chain.
ChainValid ==
    \A c \in commits :
        /\ [payload |-> c.payload, whole |-> TRUE] \in revisions
        /\ IF c.payload.rev = 1
           THEN c.payload.prev = Genesis
           ELSE \E d \in MarkersAt(c.payload.rev - 1) : c.payload.prev = d.payload

\* load_committed_history: Ok(empty), Ok(history) or a fail-closed error.
HistoryEmpty == commits = {} /\ (~directory \/ revisions = {})

HistoryLoads ==
    /\ commits # {}
    /\ directory
    /\ MarkersValid
    /\ RevisionFilesValid
    /\ ChainValid

HistoryHead == MarkerHead.payload

\* fast_path_append_head: the markers are valid, the newest one names the
\* trusted head, and its file re-hashes to that digest.
FastPathAccepts ==
    /\ trusted # NoPayload
    /\ directory
    /\ commits # {}
    /\ MarkersValid
    /\ MarkerHead.payload = trusted
    /\ [payload |-> trusted, whole |-> TRUE] \in revisions

-----------------------------------------------------------------------------
Init ==
    /\ revisions = {}
    /\ commits = {}
    /\ directory = FALSE
    /\ deleting = FALSE
    /\ pc = "idle"
    /\ pending = NoPayload
    /\ trusted = NoPayload
    /\ acknowledged = NoPayload
    /\ appends = 0
    /\ interrupts = 0

\* enforce_workspace_append_allowed
AppendAllowed(current, next) ==
    \/ RankOf[current] = 0 /\ RankOf[next] = 0
    \/ /\ RankOf[current] > 0
       /\ RankOf[next] >= RankOf[current]
       /\ RankOf[current] # FinalizedRank

\* Faulty variant: the new payload does not name its predecessor.
ChooseRevisionUnchained(head, body, stamp) ==
    /\ body # head.body
    /\ AppendAllowed(head.body, body)
    /\ pending' = Payload(head.rev + 1, Genesis, body, stamp)
    /\ pc' = "revision"
    /\ UNCHANGED acknowledged

\* Faulty variant: the new payload reuses the head's revision number.
ChooseRevisionReusingNumber(head, body, stamp) ==
    /\ body # head.body
    /\ AppendAllowed(head.body, body)
    /\ pending' = Payload(head.rev, head, body, stamp)
    /\ pc' = "revision"
    /\ UNCHANGED acknowledged

\* write_workspace_revision up to the first file write, on top of `head`: an
\* equal body returns at once, a forbidden one is refused, otherwise the
\* payload is encoded.
ChooseRevision(head, body, stamp) ==
    \/ /\ body = head.body
       /\ acknowledged' = head
       /\ UNCHANGED <<pc, pending>>
    \/ /\ body # head.body
       /\ ~AppendAllowed(head.body, body)
       /\ UNCHANGED <<pc, pending, acknowledged>>
    \/ /\ body # head.body
       /\ AppendAllowed(head.body, body)
       /\ pending' = Payload(head.rev + 1, head, body, stamp)
       /\ pc' = "revision"
       /\ UNCHANGED acknowledged

\* An append and a deletion that run at the same time are one interruption.
Overlap(yes) ==
    /\ yes => interrupts < MaxInterrupts
    /\ interrupts' = interrupts + (IF yes THEN 1 ELSE 0)

BeginAppend(body, stamp) ==
    /\ pc = "idle"
    /\ directory
    /\ appends < MaxAppends
    /\ appends' = appends + 1
    /\ Overlap(deleting)
    /\ UNCHANGED <<disk, deleting>>
    /\ \/ /\ FastPathAccepts
          /\ ChooseRevision(trusted, body, stamp)
          /\ UNCHANGED trusted
       \/ /\ ~FastPathAccepts
          /\ HistoryLoads
          /\ trusted' = HistoryHead
          /\ ChooseRevision(HistoryHead, body, stamp)
       \/ /\ ~FastPathAccepts
          /\ HistoryEmpty
          /\ trusted' = NoPayload
          /\ pending' = Payload(1, Genesis, body, stamp)
          /\ pc' = "revision"
          /\ UNCHANGED acknowledged
       \/ /\ ~FastPathAccepts
          /\ ~HistoryLoads
          /\ ~HistoryEmpty
          /\ trusted' = NoPayload
          /\ UNCHANGED <<pc, pending, acknowledged>>

\* Faulty variant: the head advances before the marker is written.
WriteRevisionTrustingEarly ==
    /\ pc = "revision"
    /\ directory
    /\ revisions' = revisions \cup {[payload |-> pending, whole |-> TRUE]}
    /\ pc' = "commit"
    /\ trusted' = pending
    /\ acknowledged' = pending
    /\ UNCHANGED <<commits, directory, deleting, pending, appends, interrupts>>

\* The revision file is created whole and synced, unless that very name exists
\* or the directory was deleted meanwhile: then the append fails.
WriteRevision ==
    /\ pc = "revision"
    /\ IF directory /\ ~\E f \in revisions : f.payload = pending
       THEN /\ revisions' = revisions \cup {[payload |-> pending, whole |-> TRUE]}
            /\ pc' = "commit"
            /\ UNCHANGED pending
       ELSE /\ pc' = "idle"
            /\ pending' = NoPayload
            /\ UNCHANGED revisions
    /\ UNCHANGED <<commits, directory, deleting, trusted, acknowledged, appends,
                   interrupts>>

\* Faulty variant: a marker that could not be created is not an error.
WriteCommitIgnoringFailure ==
    /\ pc = "commit"
    /\ pc' = "idle"
    /\ pending' = NoPayload
    /\ commits' = IF directory
                  THEN commits \cup {[payload |-> pending, whole |-> TRUE]}
                  ELSE commits
    /\ trusted' = pending
    /\ acknowledged' = pending
    /\ UNCHANGED <<revisions, directory, deleting, appends, interrupts>>

\* The marker is the commit; only then the head is trusted and Ok returned.
WriteCommit ==
    /\ pc = "commit"
    /\ pc' = "idle"
    /\ pending' = NoPayload
    /\ IF directory /\ ~\E c \in commits : c.payload = pending
       THEN /\ commits' = commits \cup {[payload |-> pending, whole |-> TRUE]}
            /\ trusted' = pending
            /\ acknowledged' = pending
       ELSE UNCHANGED <<commits, trusted, acknowledged>>
    /\ UNCHANGED <<revisions, directory, deleting, appends, interrupts>>

\* Faulty variant: the append is given up but stays registered.
WriteFailsKeepingPending ==
    /\ pc \in {"revision", "commit"}
    /\ interrupts < MaxInterrupts
    /\ interrupts' = interrupts + 1
    /\ pc' = "idle"
    /\ UNCHANGED <<disk, deleting, pending, trusted, acknowledged, appends>>

\* A write that fails removes the file it created and returns an error
\* (write_create_new_sync); an earlier file of the append stays.
WriteFails ==
    /\ pc \in {"revision", "commit"}
    /\ interrupts < MaxInterrupts
    /\ interrupts' = interrupts + 1
    /\ pc' = "idle"
    /\ pending' = NoPayload
    /\ UNCHANGED <<disk, deleting, trusted, acknowledged, appends>>

\* What a file operation that a crash interrupts leaves behind: nothing, a
\* created but incomplete file, or the whole file.
TornWrite(files) ==
    {files} \cup {files \cup {[payload |-> pending, whole |-> w]} : w \in BOOLEAN}

\* The process stops; files stay, process-local trust does not.  A deletion
\* under way stops part-way.
Crash ==
    /\ interrupts < MaxInterrupts
    /\ interrupts' = interrupts + 1
    /\ pc' = "idle"
    /\ pending' = NoPayload
    /\ trusted' = NoPayload
    /\ deleting' = FALSE
    /\ CASE pc = "revision" /\ directory /\ ~(\E f \in revisions : f.payload = pending) ->
              revisions' \in TornWrite(revisions) /\ UNCHANGED commits
         [] pc = "commit" /\ directory ->
              commits' \in TornWrite(commits) /\ UNCHANGED revisions
         [] OTHER -> UNCHANGED <<revisions, commits>>
    /\ UNCHANGED <<directory, acknowledged, appends>>

\* delete_election_workspace_v1 takes no append lock; the command refuses the
\* active workspace only, so it may interrupt an append of one just left.
BeginDelete ==
    /\ directory
    /\ ~deleting
    /\ Overlap(pc # "idle")
    /\ deleting' = TRUE
    /\ trusted' = NoPayload
    /\ acknowledged' = NoPayload
    /\ UNCHANGED <<disk, pc, pending, appends>>

\* fs::remove_dir_all takes the files one by one, in any order ...
RemoveFile(f) ==
    /\ deleting
    /\ \/ f \in revisions /\ revisions' = revisions \ {f} /\ UNCHANGED commits
       \/ f \in commits /\ commits' = commits \ {f} /\ UNCHANGED revisions
    /\ acknowledged' = NoPayload
    /\ UNCHANGED <<directory, deleting, pc, pending, trusted, appends, interrupts>>

\* ... and the emptied directories last ...
RemoveDirectory ==
    /\ deleting
    /\ revisions = {}
    /\ commits = {}
    /\ directory' = FALSE
    /\ deleting' = FALSE
    /\ UNCHANGED <<revisions, commits, pc, pending, trusted, acknowledged,
                   appends, interrupts>>

\* ... or returns an error and leaves what it has not reached.
DeleteFails ==
    /\ deleting
    /\ interrupts < MaxInterrupts
    /\ interrupts' = interrupts + 1
    /\ deleting' = FALSE
    /\ UNCHANGED <<disk, pc, pending, trusted, acknowledged, appends>>

\* An appender creates the directories before it waits for the append lock.
EnsureWorkspaceDirs ==
    /\ ~directory
    /\ appends < MaxAppends
    /\ directory' = TRUE
    /\ UNCHANGED <<revisions, commits, deleting, pc, pending, trusted,
                   acknowledged, appends, interrupts>>

Next ==
    \/ \E body \in Bodies, stamp \in Stamps : BeginAppend(body, stamp)
    \/ WriteRevision
    \/ WriteCommit
    \/ WriteFails
    \/ Crash
    \/ BeginDelete
    \/ \E f \in revisions \cup commits : RemoveFile(f)
    \/ RemoveDirectory
    \/ DeleteFails
    \/ EnsureWorkspaceDirs

Spec == Init /\ [][Next]_vars

-----------------------------------------------------------------------------
\* Files and markers name revisions; an append in flight has a payload.
TypeOK ==
    /\ \A f \in revisions \cup commits : f.whole \in BOOLEAN /\ f.payload.body \in Bodies
    /\ directory \in BOOLEAN
    /\ deleting \in BOOLEAN
    /\ pc \in {"idle", "revision", "commit"}
    /\ (pc = "idle") <=> (pending = NoPayload)
    /\ appends \in 0..MaxAppends
    /\ interrupts \in 0..MaxInterrupts

\* Whatever crash or failed write happened, a history that loads is never older
\* than the last append that returned Ok since a deletion was last at work, and at that revision it is that append:
\* a restart does not roll an acknowledged session back to an earlier one.
AcknowledgedSurvives ==
    (HistoryLoads /\ acknowledged # NoPayload) =>
        \E c \in commits : c.payload = acknowledged

\* A workspace with an acknowledged revision is never taken for a new one, not
\* even when the append overlapped a deletion that stopped part-way
\* ("a corrupt workspace can never be mistaken for an empty (genesis) one").
NeverMistakenForGenesis == acknowledged # NoPayload => ~HistoryEmpty

\* Without an interruption the log reads back up to the revision limit: only
\* crashes, failed writes or removals, and a deletion beside an append can leave a workspace
\* that fails closed.
UninterruptedLoads ==
    (interrupts = 0 /\ pc = "idle" /\ ~deleting /\ Cardinality(revisions) <= MaxRevisions) =>
        (HistoryEmpty \/ HistoryLoads)

\* Two commit markers of one revision never coexist: no append chains onto a
\* superseded head, whatever was interrupted or deleted before.
NoForkedCommit ==
    \A c, d \in commits : c.payload.rev = d.payload.rev => c.payload = d.payload

-----------------------------------------------------------------------------
\* The claim of load_head_for_append: the fast path never accepts a workspace
\* the full walk rejects.
FastPathOnlySkipsWork == FastPathAccepts => HistoryLoads

\* The claim of a crash-resilient revision: while the markers and the files they
\* name are intact and within the limit, the workspace loads; revision files
\* that interrupted appends left without a marker are ignored.
OrphansAreIgnored ==
    (/\ commits # {}
     /\ directory
     /\ MarkersValid
     /\ ChainValid
     /\ Cardinality(revisions) <= MaxRevisions) => HistoryLoads

=============================================================================
