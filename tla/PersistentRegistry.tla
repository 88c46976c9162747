------------------------- MODULE PersistentRegistry -------------------------
(***************************************************************************)
(* PersistentRegistry: the transaction protocol that makes the mutations of  *)
(* TaskLifecycle durable, with a framed write-ahead log, a snapshot and      *)
(* metadata replicas, and the recovery that reads them back.                 *)
(*                                                                           *)
(* The registry's mutex is held for a whole transaction, so two calls never  *)
(* interleave; what can come between its steps is a crash.  `phase` says     *)
(* which step is next.  A call that returns an error and changes nothing (a  *)
(* refused mutation, a failed prepare append, a Conflict with the pending    *)
(* transaction) is a stuttering step and has no action.                      *)
(*                                                                           *)
(* Abstractions.  A transaction id is a hash chained over everything that    *)
(* was committed before, so it is modelled as the chain itself: the sequence *)
(* of [version, mutation] entries up to and including this one; the log      *)
(* index is its length.  A frame is whole or, at the end of the file, torn.  *)
(* A failed append is rolled back by set_len.  Frame encoding, checksums and *)
(* byte limits are left out.                                                 *)
(***************************************************************************)
EXTENDS TaskLifecycle, Sequences

CONSTANTS
    Replicas,            \* the metadata replicas, in the order they are tried
    Requested,           \* the acceptance modes that submit is called with
    RecoverableCopies,   \* healthy copies at which each content is recoverable
    CompactAfter,        \* RegistryOptions::compact_after_records
    MaxIndex             \* bound: last log index

ASSUME RegistryConstants ==
    /\ Replicas \in Seq(STRING) /\ \A i, j \in DOMAIN Replicas : Replicas[i] = Replicas[j] => i = j
    /\ Requested \subseteq AcceptanceMode
    /\ RecoverableCopies \in [Content -> Nat]
    /\ CompactAfter \in Nat \ {0}
    /\ MaxIndex \in Nat

VARIABLES
    \* RegistryState, lost in a crash
    up,          \* the registry is open
    records,     \* the published record of every task
    versions,    \* the version of every task's record
    lastTx,      \* last_transaction_id, with last_log_index as its length
    pending,     \* the prepared transaction and its proofs, as an Option
    walTx,       \* wal_transactions
    phase,       \* the next step of the call that holds the mutex
    next,        \* the replica that replicate_transaction tries next
    \* files
    wal,         \* frames of the write-ahead log
    synced,      \* how many of them a crash cannot lose
    torn,        \* a partial frame follows them
    snapshot,    \* the snapshot file
    replicaLog,  \* transactions in each replica's log, in the order written
    \* the resource catalog
    copies       \* healthy copies of each content

memory == <<records, versions, lastTx, pending, walTx, phase, next>>
files == <<wal, synced, torn, snapshot, replicaLog>>
vars == <<up, memory, files, copies>>

ReplicaId == {Replicas[i] : i \in DOMAIN Replicas}

-----------------------------------------------------------------------------
(* Transactions and frames.                                                  *)

Entry == [version : Nat, mutation : Mutation]

LastOf(tx) == tx[Len(tx)]
Previous(tx) == SubSeq(tx, 1, Len(tx) - 1)   \* previous_transaction_id
MutationOf(tx) == LastOf(tx).mutation
TaskOf(tx) == MutationOf(tx).task

\* A transaction is part of the history that ends in another one.
InHistory(tx, last) == Len(tx) <= Len(last) /\ tx = SubSeq(last, 1, Len(tx))

Prepare(tx) == [kind |-> "Prepare", tx |-> tx]
Commit(tx) == [kind |-> "Commit", tx |-> tx]

\* A mutation is acknowledged under the acceptance mode of its task.
AcceptanceOf(recs, m) ==
    IF m.kind = "Submit" THEN m.acceptance ELSE recs[m.task].acceptance

Syncs(a) == a.mode # "Fast"
RequiredAcks(a) == a.copies - 1

-----------------------------------------------------------------------------
(* Replay.                                                                   *)

EmptyState ==
    [records |-> [t \in Task |-> NoRecord], versions |-> [t \in Task |-> 0],
     lastTx |-> <<>>]

\* A transaction may follow a state: the checks replay_wal makes of a commit
\* and validate_prepared_tail of a prepare.
Continues(s, tx) ==
    /\ Previous(tx) = s.lastTx
    /\ LastOf(tx).version = s.versions[TaskOf(tx)]
    /\ PrepareOk(s.records, MutationOf(tx))

Published(s, tx) ==
    [records |-> Applied(s.records, MutationOf(tx)),
     versions |-> [s.versions EXCEPT ![TaskOf(tx)] = @ + 1], lastTx |-> tx]

\* replay_wal on one frame; `base` is the snapshot's last_included_log_index,
\* `ok` is lost when the log is Corrupt.
ReplayFrame(s, f) ==
    LET tx == f.tx
        sameIndex == {p \in s.prepared : Len(p) = Len(tx)}
    IN  CASE ~s.ok \/ Len(tx) <= s.base -> s
          [] s.ok /\ Len(tx) > s.base /\ f.kind = "Prepare" ->
                [s EXCEPT !.prepared = @ \cup {tx}, !.ok = sameIndex \subseteq {tx}]
          [] s.ok /\ Len(tx) > s.base /\ f.kind = "Commit" ->
                IF sameIndex = {tx} /\ Continues(s.state, tx)
                  THEN [s EXCEPT !.prepared = @ \ {tx}, !.txs = @ + 1,
                                 !.state = Published(@, tx)]
                  ELSE [s EXCEPT !.ok = FALSE]

\* recover_pending_transaction: at most one transaction is prepared, and it
\* follows the recovered state.
PendingRecoverable(s) ==
    /\ Cardinality(s.prepared) <= 1
    /\ \A p \in s.prepared : Continues(s.state, p)

\* Before the first frame.
ReplayStart(snap) ==
    [ok |-> TRUE, base |-> Len(snap.lastTx), state |-> snap, prepared |-> {}, txs |-> 0]

\* replay_wal after every number of frames.
ReplayFrames(snap, frames) ==
    LET after[n \in 0..Len(frames)] ==
            IF n = 0 THEN ReplayStart(snap) ELSE ReplayFrame(after[n - 1], frames[n])
    IN  after

\* What open finds, as a function of how many frames of the log are left.
ReplayOf(snap, frames) ==
    LET after == ReplayFrames(snap, frames)
    IN  [n \in 0..Len(frames) |->
            [after[n] EXCEPT !.ok = @ /\ PendingRecoverable(after[n])]]

Replay(snap, frames) == ReplayOf(snap, frames)[Len(frames)]

\* What opening the registry would find after a crash now: one image for every
\* number of frames that may survive.
CrashImages == {ReplayOf(snapshot, wal)[n] : n \in synced..Len(wal)}

-----------------------------------------------------------------------------
Init ==
    /\ up = TRUE
    /\ records = EmptyState.records
    /\ versions = EmptyState.versions
    /\ lastTx = <<>>
    /\ pending = {}
    /\ walTx = 0
    /\ phase = "idle" /\ next = 1
    /\ wal = <<>> /\ synced = 0 /\ torn = FALSE
    /\ snapshot = EmptyState
    /\ replicaLog = [r \in ReplicaId |-> <<>>]
    /\ copies = [c \in Content |-> 0]

State == [records |-> records, versions |-> versions, lastTx |-> lastTx]

\* Defect: append_local ignores `sync`.
AppendFrameUnsynced(f, sync) ==
    /\ wal' = Append(wal, f)
    /\ UNCHANGED synced

\* append_local, when it succeeds.
AppendFrame(f, sync) ==
    /\ wal' = Append(wal, f)
    /\ synced' = IF sync THEN Len(wal') ELSE synced

-----------------------------------------------------------------------------
(* transact_locked, up to and including prepare_pending_transaction.         *)

\* A new transaction: its prepare frame is the first thing written.
PrepareNew(m) ==
    LET tx == Append(lastTx, [version |-> versions[m.task], mutation |-> m]) IN
    /\ pending = {}
    /\ Len(lastTx) < MaxIndex
    /\ AppendFrame(Prepare(tx), Syncs(AcceptanceOf(records, m)))
    /\ pending' = {[tx |-> tx, proofs |-> {}]}

\* A retry of the pending transaction, with the proofs it already has.  Any
\* other mutation is refused with Conflict while a transaction is pending.
ResumePending(m) ==
    /\ \E p \in pending : /\ MutationOf(p.tx) = m
                          /\ LastOf(p.tx).version = versions[m.task]
    /\ UNCHANGED <<wal, synced, pending>>

Transact(m) ==
    /\ up /\ phase = "idle"
    /\ PrepareOk(records, m)
    /\ PrepareNew(m) \/ ResumePending(m)
    /\ phase' = "replicate" /\ next' = 1
    /\ UNCHANGED <<up, records, versions, lastTx, walTx, torn, snapshot,
                   replicaLog, copies>>

-----------------------------------------------------------------------------
(* The calls.                                                                *)

Recoverable(c) == copies[c] >= RecoverableCopies[c]

\* ResourceCatalog::is_commit_ready.
CommitReady(c, a) ==
    CASE a.mode = "Fast"     -> copies[c] >= 1
      [] a.mode = "Durable"  -> Recoverable(c) /\ copies[c] >= 1
      [] a.mode = "Critical" -> Recoverable(c) /\ copies[c] >= a.copies

\* The checks submit makes of the requested mode and of the inputs.
SubmitAllowed(a, inputs) ==
    /\ a.copies # 0
    /\ a.mode = "Critical" => a.copies > 1
    /\ a.copies <= Len(Replicas) + 1
    /\ a.mode # "Fast" => \A c \in inputs : Recoverable(c)
    /\ a.mode = "Critical" => \A c \in inputs : copies[c] >= a.copies

submit ==
    \E m \in SubmitMutation, inputs \in SUBSET Content :
        /\ m.acceptance \in Requested
        /\ SubmitAllowed(m.acceptance, inputs)
        /\ Transact(m)

assign == \E m \in AssignMutation : Transact(m)

mark_running == \E m \in RunningMutation : Transact(m)

\* The mutation that stage_output builds for an output of the active attempt:
\* it records how many healthy copies the catalog has at the time of the call.
StageCall(t, a, n, c) ==
    [kind |-> "StageOutput", task |-> t, attempt |-> a, node |-> n,
     content |-> c, copies |-> copies[c]]

\* The output of another attempt, or from another node, is quarantined.
ConflictCall(t, a, n, c) ==
    [kind |-> "ConflictOutput", task |-> t, attempt |-> a, node |-> n, content |-> c]

stage_output ==
    \E t \in Task, a \in 1..MaxAttempt, n \in Node, c \in Content :
      \E active \in ActiveAttempt(records[t]) :
        \/ /\ <<active.attempt, active.node>> # <<a, n>>
           /\ Transact(ConflictCall(t, a, n, c))
        \/ /\ <<active.attempt, active.node>> = <<a, n>>
           /\ CommitReady(c, records[t].acceptance)
           /\ Transact(StageCall(t, a, n, c))

commit_output ==
    \E t \in Task : \E s \in records[t].staged :
        /\ records[t].state = "OutputStaged"
        /\ CommitReady(s.content, records[t].acceptance)
        /\ Transact([kind |-> "CommitOutput", task |-> t, content |-> s.content])

fail == \E m \in FailureMutation : Transact(m)

cancel == \E m \in CancelMutation : Transact(m)

-----------------------------------------------------------------------------
(* replicate_transaction.                                                    *)

Pending == CHOOSE p \in pending : TRUE
Required == RequiredAcks(AcceptanceOf(records, MutationOf(Pending.tx)))

\* Defect: the local copy is counted twice.
EnoughProofsOffByOne == Cardinality(Pending.proofs) + 1 >= Required

EnoughProofs == Cardinality(Pending.proofs) >= Required
ReplicationOver == EnoughProofs \/ next > Len(Replicas)

\* FileMetadataReplica::commit: idempotent for the same transaction, Conflict
\* for another one with the same index; no check that the log has no gap.
ReplicaHolds(r, tx) == \E i \in DOMAIN replicaLog[r] : replicaLog[r][i] = tx
ReplicaConflict(r, tx) ==
    \E i \in DOMAIN replicaLog[r] :
        Len(replicaLog[r][i]) = Len(tx) /\ replicaLog[r][i] # tx

\* Defect: an error of a replica's log counts as an acknowledgement.
ReplicaCommitsUnwritten(r) ==
    /\ ~ReplicaConflict(r, Pending.tx)
    /\ pending' = {[tx |-> Pending.tx, proofs |-> Pending.proofs \cup {r}]}
    /\ UNCHANGED replicaLog

ReplicaCommits(r) ==
    /\ ~ReplicaConflict(r, Pending.tx)
    /\ replicaLog' = IF ReplicaHolds(r, Pending.tx) THEN replicaLog
                     ELSE [replicaLog EXCEPT ![r] = Append(@, Pending.tx)]
    /\ pending' = {[tx |-> Pending.tx, proofs |-> Pending.proofs \cup {r}]}

\* One iteration of the loop: the replica has already acknowledged, commits, or
\* fails (a conflict, or an error of its log) and the loop goes on.
Replicate ==
    /\ up /\ phase = "replicate" /\ ~ReplicationOver
    /\ \/ Replicas[next] \notin Pending.proofs /\ ReplicaCommits(Replicas[next])
       \/ UNCHANGED <<replicaLog, pending>>
    /\ next' = next + 1
    /\ UNCHANGED <<up, records, versions, lastTx, walTx, phase, wal, synced, torn,
                   snapshot, copies>>

\* Too few replicas: the transaction stays pending, the call returns
\* DurabilityUnavailable.
GiveUp ==
    /\ up /\ phase = "replicate" /\ ReplicationOver /\ ~EnoughProofs
    /\ phase' = "idle" /\ next' = 1
    /\ UNCHANGED <<up, records, versions, lastTx, pending, walTx, files, copies>>

-----------------------------------------------------------------------------
(* The local commit and what follows it.                                     *)

\* compaction_due, by the number of transactions.
CompactionDue == walTx' >= CompactAfter

CommitLocal ==
    /\ up /\ phase = "replicate" /\ EnoughProofs
    /\ AppendFrame(Commit(Pending.tx), Syncs(AcceptanceOf(records, MutationOf(Pending.tx))))
    /\ LET s == Published(State, Pending.tx) IN
         /\ records' = s.records
         /\ versions' = s.versions
         /\ lastTx' = s.lastTx
    /\ walTx' = walTx + 1
    /\ pending' = {}
    /\ phase' = IF CompactionDue THEN "snapshot" ELSE "idle"
    /\ next' = 1
    /\ UNCHANGED <<up, torn, snapshot, replicaLog, copies>>

\* Defect: the prepared transaction is forgotten when its commit fails.
CommitLocalFailsForgets ==
    /\ up /\ phase = "replicate" /\ EnoughProofs
    /\ phase' = "idle" /\ next' = 1 /\ pending' = {}
    /\ UNCHANGED <<up, records, versions, lastTx, walTx, files, copies>>

\* The commit frame cannot be appended: nothing is published.
CommitLocalFails ==
    /\ up /\ phase = "replicate" /\ EnoughProofs
    /\ phase' = "idle" /\ next' = 1
    /\ UNCHANGED <<up, records, versions, lastTx, pending, walTx, files, copies>>

-----------------------------------------------------------------------------
(* compact and compact_locked.                                               *)

compact ==
    /\ up /\ phase = "idle" /\ pending = {}
    /\ phase' = "snapshot"
    /\ UNCHANGED <<up, records, versions, lastTx, pending, walTx, next, files, copies>>

\* Defect: the log is truncated before the snapshot is in place.
WriteSnapshotLater ==
    /\ up /\ phase = "snapshot"
    /\ phase' = "truncate"
    /\ UNCHANGED <<up, records, versions, lastTx, pending, walTx, next, files, copies>>

\* persist_snapshot: written aside, synced and renamed, so it is never torn.
WriteSnapshot ==
    /\ up /\ phase = "snapshot"
    /\ snapshot' = State
    /\ phase' = "truncate"
    /\ UNCHANGED <<up, records, versions, lastTx, pending, walTx, next, wal, synced,
                   torn, replicaLog, copies>>

\* It fails before the rename, or after it (sync_parent): the log is kept.
WriteSnapshotFails ==
    /\ up /\ phase = "snapshot"
    /\ snapshot' \in {snapshot, State}
    /\ phase' = "idle"
    /\ UNCHANGED <<up, records, versions, lastTx, pending, walTx, next, wal, synced,
                   torn, replicaLog, copies>>

TruncateWal ==
    /\ up /\ phase = "truncate"
    /\ wal' = <<>> /\ synced' = 0
    /\ walTx' = 0
    /\ phase' = "idle"
    /\ UNCHANGED <<up, records, versions, lastTx, pending, next, torn, snapshot,
                   replicaLog, copies>>

\* set_len fails, or only the sync after it: reported as maintenance_error.
TruncateWalFails ==
    /\ up /\ phase = "truncate"
    /\ \/ UNCHANGED <<wal, synced>>
       \/ wal' = <<>> /\ synced' = 0
    /\ phase' = "idle"
    /\ UNCHANGED <<up, records, versions, lastTx, pending, walTx, next, torn,
                   snapshot, replicaLog, copies>>

-----------------------------------------------------------------------------
(* Crash and open.                                                           *)

\* The process or the machine stops: the log keeps the synced frames and any
\* number of the others, and may end in a partial frame.
Crash ==
    /\ up
    /\ up' = FALSE
    /\ \E n \in synced..Len(wal) : wal' = SubSeq(wal, 1, n)
    /\ torn' \in BOOLEAN
    /\ records' = EmptyState.records /\ versions' = EmptyState.versions
    /\ lastTx' = <<>> /\ pending' = {} /\ walTx' = 0
    /\ phase' = "idle" /\ next' = 1
    /\ UNCHANGED <<synced, snapshot, replicaLog, copies>>

\* Defect: a prepared transaction is dropped when the log is opened.
OpenDropsPrepared ==
    LET found == Replay(snapshot, wal) IN
    /\ ~up
    /\ found.ok
    /\ up' = TRUE
    /\ records' = found.state.records
    /\ versions' = found.state.versions
    /\ lastTx' = found.state.lastTx
    /\ walTx' = found.txs
    /\ torn' = FALSE
    /\ synced' = IF torn THEN Len(wal) ELSE synced
    /\ UNCHANGED <<pending, phase, next, wal, snapshot, replicaLog, copies>>

\* open_with_options; a Corrupt log or snapshot refuses to open.
Open ==
    LET found == Replay(snapshot, wal) IN
    /\ ~up
    /\ found.ok
    /\ up' = TRUE
    /\ records' = found.state.records
    /\ versions' = found.state.versions
    /\ lastTx' = found.state.lastTx
    /\ walTx' = found.txs
    /\ pending' = {[tx |-> p, proofs |-> {}] : p \in found.prepared}
    /\ torn' = FALSE
    /\ synced' = IF torn THEN Len(wal) ELSE synced   \* truncate syncs the file
    /\ UNCHANGED <<phase, next, wal, snapshot, replicaLog, copies>>

\* The catalog records replicas and damage independently of the registry.
CatalogChanges ==
    /\ up /\ phase = "idle"
    /\ \E c \in Content, n \in 0..MaxCopies : copies' = [copies EXCEPT ![c] = n]
    /\ UNCHANGED <<up, memory, files>>

-----------------------------------------------------------------------------
Call == submit \/ assign \/ mark_running \/ stage_output \/ commit_output
          \/ fail \/ cancel \/ compact

Progress ==
    \/ Replicate \/ GiveUp \/ CommitLocal \/ CommitLocalFails
    \/ WriteSnapshot \/ WriteSnapshotFails \/ TruncateWal \/ TruncateWalFails

Next == Call \/ Progress \/ Crash \/ Open \/ CatalogChanges

Spec == Init /\ [][Next]_vars

-----------------------------------------------------------------------------
(* Properties.                                                               *)

\* Whatever a crash leaves of the log opens again: no sequence of calls, failed
\* writes, interrupted compactions, crashes and restarts makes it Corrupt.
NeverCorrupt == \A image \in CrashImages : image.ok

\* Between calls the files hold exactly what is in memory: opening them gives
\* the same records, versions, last transaction and pending transaction.
ReplayMatchesMemory ==
    up /\ phase = "idle" =>
        LET found == Replay(snapshot, wal) IN
        /\ found.state = State
        /\ found.prepared = {p.tx : p \in pending}

\* Every published transaction is on as many replicas as its task's acceptance
\* mode demands beside the local copy, after any number of retries, failed
\* local commits and restarts.
PublishedCopies ==
    up => \A i \in DOMAIN lastTx :
            LET tx == SubSeq(lastTx, 1, i) IN
            Cardinality({r \in ReplicaId : ReplicaHolds(r, tx)})
              >= RequiredAcks(records[TaskOf(tx)].acceptance)

\* A replica only ever holds transactions of the registry's own history, or the
\* one that is pending: a restart that loses unsynced transactions never lets a
\* log index be reused for something else than what a replica committed.
ReplicasFollowHistory ==
    \A image \in CrashImages, r \in ReplicaId :
        \A i \in DOMAIN replicaLog[r] :
            LET tx == replicaLog[r][i] IN
            \/ InHistory(tx, image.state.lastTx)
            \/ tx \in image.prepared

-----------------------------------------------------------------------------
(* What a replica's log is for: another management node opens it.            *)

\* The frames a replica wrote, a prepare and a commit for every transaction.
ReplicaFrames(r) ==
    [i \in 1..(2 * Len(replicaLog[r])) |->
        LET tx == replicaLog[r][(i + 1) \div 2]
        IN  IF i % 2 = 1 THEN Prepare(tx) ELSE Commit(tx)]

ReplicaReplay(r) == Replay(EmptyState, ReplicaFrames(r))

\* docs/phase4-durable-registry.md, Durable: when the entry node is lost, another
\* management node can replay and query the task by its GlobalTaskId.  Some
\* replica's log opens as a registry and has the record that was published.
EntryLossSurvivable ==
    up => \A t \in Task :
            Syncs(records[t].acceptance) =>
                \E r \in ReplicaId :
                    LET found == ReplicaReplay(r) IN
                    /\ found.ok
                    /\ Known(found.state.records[t])
                    /\ (pending = {}) => found.state.records[t] = records[t]

=============================================================================
