# TLA+ models of MutsukiDistributedHost

The models below follow the Rust sources under `src/crates/`. They say what the
distributed host does when calls interleave, processes crash, files refuse
writes, nodes come and go and messages are lost or late, and they check what
the code and its documents promise in those situations. `PROJECT.json` lists the
runs, the source lines behind every definition, the mutants that show each
property can fail, the disagreements between documents and code, and the
hazards the properties are aimed at.

In what follows RT is `crates/mutsuki-distributed-runtime/src`, CT is
`crates/mutsuki-distributed-contracts/src`.

## 1. Inventory

The system runs a task that a host cannot or should not run itself on another
node. A **controller** process places tasks on **worker** processes, keeps
durable records of them, agrees with other management nodes on who may decide,
moves the bytes a task needs next to it, and decides which nodes are trusted.

| Component | State | Operations | Hard part |
| --- | --- | --- | --- |
| Global task state machine (CT/durability.rs, RT/persistent_registry.rs) | one `DurableTaskRecord` per task: state, attempts, staged, formal and conflicting outputs | the eight `RegistryMutation`s | fencing of replaced attempts, late outputs |
| Persistent registry (RT/persistent_registry.rs) | published records and versions, pending transaction with proofs, write-ahead log, snapshot, replica logs | submit, assign, mark_running, stage_output, commit_output, fail, cancel, compact, open | crash between any two writes, replicas that fail one by one, retries, compaction |
| Control plane (RT/ha_control.rs, CT/ha.rs) | per node: term, log, role, file; cluster: leader, lease, epoch, grants, executed-uncommitted results | elect, set_alive, isolate, recover, open, propose, propose_from, renew_control_lease, issue_grant, record_uncommitted_result, reconcile | partitions, half-finished elections and writes, reopened files |
| Registry over the control plane (`CftRegistryReplica`) | registry transactions in the control log | commit, recover | order of two logs |
| Failure detector, leadership preference (RT/ha_control.rs) | missed ticks, suspicion levels, cool-down | observe, tick, choose | flapping |
| Coordinator (RT/lib.rs) | `GlobalTaskRecord` per task | submit, restart_after_disconnect, accept_result, cancel, outcome | state read before an await and written after it |
| Worker registry (RT/lib.rs) | advertisement and last pulse of every worker | register, pulse, candidates | stale snapshot versions |
| Worker and controller processes (RT/process.rs) | sessions, in-flight count, worker gate, stopping flag | request, serve_connection, pulse_once, serve_management, shutdown | deadlines racing late answers, draining |
| Sidecar, host adapter, control client | wiring | forward calls | none of their own |
| Resource catalog (RT/resource_catalog.rs) | replicas, references and durability of every content | register, record_replica, add/release_reference, plan_repairs, collect_garbage | collecting what is still needed |
| Content store, transfer queue (RT/content_store.rs) | chunks, uploads, queued and running transfers | begin_upload, write_chunk, complete_upload, remove_content, enqueue, start_next, complete_one | half-written uploads, limits |
| Localization (RT/content_localization.rs, RT/localization_io.rs) | sessions, partial files, byte and buffer budgets | serve_once, localize_one, shutdown | resume after a cut, budget release on every path |
| Scheduler (RT/scheduler.rs) | performance model, node index, queue, reservations, budgets | schedule, admit, release, expire | snapshots that overtake one another, plans that are outdated, reservations that expire |
| Recovery (RT/recovery.rs) | checkpoints, mirrors | persist, restore, plan, admit, release | effects that may have happened |
| Trust (RT/trust_plane.rs, trust_audit.rs, trust_reputation.rs) | identities, grants, receipts, budgets, audit chain, reputation | approve, rotate, revoke, grant, validate, append, record | revocation racing use |

How they interact. The coordinator calls the worker registry under a mutex and
workers over authenticated links, awaiting each; a worker endpoint localizes
inputs, then hands the task to its host. The registry asks the resource catalog
whether outputs are recoverable, and its metadata replicas, or the control
plane's log through `CftRegistryReplica`, to store each transaction. The control
plane authorizes durable writes and issues the grants under which isolated
workers may finish. The scheduler and the trust plane filter candidates.

What makes each correct, in one sentence: a task's formal output is that of its
newest attempt; what was acknowledged as durable survives crashes and the loss of
the entry node; there is one leader per term and it knows everything committed;
a result from a fenced attempt or grant is never taken; every call ends; no
budget or limit is exceeded or leaked; nothing revoked is used.

## 2. Modules

    TaskLifecycle            records and mutations of a task (operators only)
      TaskLedger             abstract: atomic transactions, crashes
        TaskLedgerProofs     theorems about it
      PersistentRegistry     log, snapshot, replicas, recovery
        RegistryRefinement   PersistentRegistry implements TaskLedger
          RegistryProofs     theorems about both
    ReferenceCft             the control plane
      CftProofs              theorems about it
    Coordinator              placement, restart, fencing of results
      ControllerProcess      with workers, connections, pulses, management server
        ControllerProofs     theorems about both
    Localization             fetching the inputs of a task
      WorkerProofs           theorems about it, about Trust, AuditLog and AuditSegments
    ContentStore             chunks, manifests and the resource catalog
      Recovery               with checkpoints
        RecoveryProofs       theorems about both
    NodeAdmission            what a node lets in
      Placement              with the scheduler's index and its plans
    NodeBudgets              network budget and telemetry of a node
      SchedulingProofs       theorems about NodeAdmission, Placement, NodeBudgets
    FailureDetector          what a management node thinks of the members
    Trust                    identities, grants, receipts, isolation
      WorkerProofs           (see Localization)
    AuditLog                 the audit chain
      AuditSegments          its segments and their Merkle proofs
      WorkerProofs           (see Localization)
    Sums                     lemmas the proofs share: induction, sums
    MC*                      constants for TLC

An indented module extends or instantiates the one above it: `ControllerProcess`,
`Recovery` and `Placement` are compositions. A definition with the word `Defect`
in its comment is not part of a model; `PROJECT.json` uses it in place of the
definition below it to show that a property can fail.

**TaskLifecycle** translates `prepare_existing_mutation` and
`prepare_mutation`: for every mutation the guard (`AssignOk`, `StageOk`, ...) and
the resulting record. An `Option` is a set of at most one element. The vector of
attempts is a set of numbered attempts because a new number has to exceed all
others. Inputs, handles, generations and texts are left out: no transition
reads them.

**TaskLedger** is what a registry promises. `records` is what readers see,
`recoverable` every state a crash may leave. A transaction of a task accepted as
Durable or Critical is synced before it returns, and so are all before it.

**PersistentRegistry** is the code. The mutex of the registry is held for a whole
call, so two calls never interleave; `phase` and `next` say which step of
`transact_locked`, `replicate_transaction` or `compact_locked` is next, and a crash
may come between any two. `wal` is the sequence of whole frames, `synced` of which
survive any crash; `torn` is a partial frame at its end. A transaction id is a
hash over everything before it and is modelled as that sequence itself. `Replay`
is `replay_wal` with `validate_prepared_tail` and `recover_pending_transaction`:
it can find the log Corrupt, in which case `Open` is not enabled. The replicas are
file replicas without a gap check, as `FileMetadataReplica::commit` is. The
number of healthy copies of a content changes at any time between calls.

**RegistryRefinement** maps the registry to the ledger: the current records are
the published ones while the registry is open and what replay finds while it is
not; the recoverable states are the replays of every prefix of the log that can
survive. They are kept in two history variables, determined by the registry's
state, only so that replay is evaluated once per state.

**ReferenceCft** is `ReferenceCftModel`, one object that holds all control nodes,
so every call is one action. `log` and `term` are the nodes' snapshots in memory,
`disk` what their files hold; a storage error makes them differ. `Faults` says
which of three kinds a run allows: `rejoin` (a node comes back: revive, rejoin,
recover), `storage` (a file refuses a write) and `restart` (the object is opened
from the files). Where the code takes the maximum by node id, any node is taken.

**Coordinator** splits submit and restart_after_disconnect at each await: a request
is sent, answered or given up, the next candidate or the origin is tried, and the
record is written at the end. A request that was sent may be executed by the
worker at any later time, also when the caller has given up.

**ControllerProcess** puts the coordinator into its process. `server` is
`serve_management`, which takes one command at a time; `pulser` its background
task; `round` a round of pulses, a health command or the final StopWorker requests,
worker by worker; `carried` the requests whose connection is kept for the next
one. The gate is held by a submit and by a round of pulses. `DropCall` is a future
that is dropped at an await, where `InFlightConnection` must take the connection
along. `Shutdown` leads through closing (stop accepting), joining (the pulse
task), stopping (each worker) to the end.

**Localization** has one `run` for every execution of `localize_one_inner`, in the
phases validate, prepare, transfer, remove and ack, each of which is a blocking job
with its queue place and permits. In the transfer the receiver (`Connect`,
`Receive`, `Forward`) and the writer (`WriterTakes`, `WriterWrites`, `WriterEnds`,
`WriterCommits`) are separate actors joined by a channel. `Drop` removes a caller
at any time: its run goes on as a job without an owner. `Restart` keeps only the
files. `partial` and `final` name files, so that an open file stays what it is when
its path is renamed or created again, as in the file system. Both paths have the name
of the digest (`DigestOf`) while the cell that callers share is that of the content,
as the code's key has the size and the format too: contents of one digest may be
localized at once, each by a run of its own, over one partial and one final file
(`CellsApart` says that none are). An error or a drop closes the channel first and
sets the flag that cancels the writer in a later step (`StoreCancelled`).

**ContentStore** is the three directories of the store and the catalog in memory
and in its file. `Persist` is the end of every catalog call: memory has changed
already when the write fails. `collect_garbage_stops` is a collection that removed
some contents and did not reach its own `Persist`. `held` counts what callers
rely on: references they were given and have not released.

**Recovery** adds `CheckpointManager` (`persist` with its budget and lineage).
`restore` and `RecoveryPlanner::plan` change no state and are left out, see section 5.

**NodeAdmission** is `LocalAdmissionController` of every node: versions, pressure,
the limit that remote work has and local work has not, replacement of a
reservation with the same id, release, expiry.

**Placement** is `PlacementScheduler` with its snapshots on their way (each may
come late or again), the inverted index, the Top-K cut and the filter behind it.
`Ask` offers a work to the next candidate of its plan with the version the plan was
made from; the node decides with its own state.

**NodeBudgets** is `NetworkBudgetController` and `TelemetrySampler`.

**FailureDetector** is the class of that name with the members around it, which are
external: they pulse while they are up, describe themselves when the answer to a
pulse asks for it, change versions, stop and start. `silence` stands for the tick of
the last pulse, so that time has no bound.

**Trust** is `NodeIdentityRegistry`, `ResourceAuthorizer`, the receipts and
`CompromiseTracker`. `period` counts how often an identity was replaced or
withdrawn; no action reads it, the property does. Everything that was ever
issued stays with its holder and may be presented at any later time.

**AuditLog** is `PersistentAuditLog`: what a failed append leaves in the file, what
the next append makes of it, what `open` accepts. **AuditSegments** is `build_segment`
and the Merkle tree with its proofs. Each of their loops is a recursive function: what
it has computed after every round.

## 3. Runs

| Run | Shows | Bounds |
| --- | --- | --- |
| ledger | TypeOK; FencedAttempts and OnlyNewestCommits in every state a crash can leave; DurableAgrees: a crash cannot take a durable mutation; DurableHistory: no step rewrites a durable task's history | 2 tasks, 1 node, 2 attempts, 2 recoverable states |
| registry | NeverCorrupt: the log always opens; ReplayMatchesMemory; ReplicasFollowHistory; ImplementsLedger, Fast and Durable tasks mixed | 2 tasks, 1 replica, 3 transactions, compaction after 2 |
| registry_outputs | PublishedCopies where replicas fail one by one; EntryLossSurvivable and ImplementsLedger through a whole task | 1 Critical task that wants 3 copies, 2 replicas, 2 attempts, 4 transactions, compaction after 3 |
| cft_grants | CommitsOrdered; NewestGrantKept: no step puts an older grant in force, a reopen of files without gaps included; ResultsInGrantOrder. Nodes die, are cut off and come back, and the files are reopened | 2 full nodes and a witness, 2 terms, 2 epochs, 2 results, no ticks |
| cft_durable | OneLeaderPerTerm, MajorityStores under failed writes, failed rollbacks, expired leases and reopens | 3 full nodes, 2 terms, 2 epochs, 1 tick |
| controller | ActiveIsNewestAndRan, AcceptedInOrder; FreshCandidates: a submit's candidates are not outdated by a pulse; ConnectionsClean: no reply waits on a connection that is used again; QuietBeforeStop: workers are stopped last; CallsReturn, ShutdownEnds | 2 tasks (one LocalOnly) of which 1 fits, 1 caller of the library, 2 workers, 1 fallback, 2 attempts, 1 late request |
| controller_unsafe | UnsafeRunsOnce fails after a timeout | as controller |
| localization | TypeOK with the limits on jobs, permits and buffers; PublishedWhenApart: what is published is whole where contents of one digest are not localized at once; EverythingEnds: every call returns and every job ends | 2 callers, 2 contents of one digest and 2 chunks (one corrupt at its source), 1 reader, 1 writer, 2 hashers, 1 queued job, 1 buffer, 2 runs |
| localization_reuse | PublishedIsWhole fails with two writers and a dropped call | 1 caller, 1 content, 2 of each limit, 2 runs |
| content | TypeOK with the limits of catalog and checkpoint budget; CommittedReadable: a committed content has its chunks; HeldStored: what is referred to is stored and catalogued, also after a restart | 2 contents that share a chunk, 2 references, 1 epoch, 1 fault, 2 checkpoint operations |
| placement | LocalReserveKept; IndexExact: the index has exactly the keys of the snapshots that are kept; PlansNotAhead: no snapshot that comes late takes back what a plan was made from; AdmittedCapable: admitted work fits the version it was admitted at; AccountsExact: bytes, transfers and correctness events are conserved; TransfersEnd; HealthConverges: members that stay down are Dead for good, members that stay up are never Incompatible or Dead for good | 3 nodes, 3 works, 2 versions of one node, 1 tick, Top-2; 3 transfers, 1 at a time, one of them larger than a tick; 2 members for 1 place, 2 versions, 2 messages on their way, 1 lost |
| trust | EarlierIdentityFenced: no grant and no receipt of an identity that was replaced or withdrawn is accepted; AckedKept: a log that opens has all acknowledged events; ProofsVerify for every segment | 1 node, 1 task, 2 ticks, 3 keys, 2 signatures, 2 isolations; 5 events, 2 failed appends |

Why the bounds are enough. Two tasks are needed for one task's sync to matter to
another's, and three transactions for a compaction, a transaction after it and a
pending one; four are a whole task or a reassignment. Two attempts are needed for
fencing. Three nodes are the smallest cluster `open` accepts and two terms the
least in which there is an old leader. A lease or grant is valid for one tick. In
the ledger's run at most one unsynced transaction is at risk at a time
(`MaxRecoverable`); the theorems of section 4 have no such bound. Compaction is
due by number of transactions only; the limit in bytes has the same effect. Two
workers make a fallback, a single pending request makes a late answer. Two chunks
are the least that can be cut in the middle, two runs the least in which one
resumes what another left, and limits of one are where jobs can wait for each
other. Two contents with a common chunk are the least in which a collection can
take what is still needed. Two versions make an outdated snapshot; the third key
follows a rotation and a readmission. Five events give Merkle levels of odd
length above the leaves.

What a run leaves out. `EntryLossSurvivable` is checked where every transaction must
reach every replica: the log of a replica that a transaction did not reach has a
gap and does not open, which `registry`, with Fast tasks, allows. `localization` has one writer at a time, the least limit
the code accepts; with two, `localization_reuse` fails. `PublishedWhenApart` speaks of
behaviours in which contents of one digest are localized one after the other; the run
has the others too, and checks everything else in them. `NewestGrantKept` demands
nothing of a reopen of files with gaps. `TransfersEnd` speaks of data that fits into a
tick. `cft_grants` has no clock and
`cft_durable` no grants: their product is too large. `MCPlacement` and `MCTrust`
hold modules that share no state, and a behaviour exercises one of them. The
control plane's runs use the permutations of the full nodes as symmetry, which no
definition distinguishes; no run with a temporal property does.

Deadlock is checked in registry, registry_outputs and placement. Elsewhere the
system may stop: every task has ended (ledger), all nodes are dead and the bounds on terms and
epochs used up (control plane), the controller has shut down, localization has no
more runs, and the bounds of content and trust are used up.

Fairness. `controller` assumes weak fairness of the steps of a call that is under
way, of the server and of the pulse task: each request of `LinkWorkerTransport`
has a deadline, the candidates are a list fixed when the call begins, and the
origin's own host is a local call. It assumes strong fairness of the next request of a
round, which needs a transport that calls use in between: the transport's mutex is
tokio's, which is granted in the order of arrival. Nothing is assumed of workers or
of those who send commands. `localization` assumes that something that can go on
does (`WF` of `Progress`): threads of the blocking pool and polled futures, and a
receive that ends by its timeout. `placement` assumes that the owner of the network
budget starts what may start, completes what it started and calls next_tick; that time goes
on and the detector is advanced; and that a member that is up sends again and again
and what is not lost arrives. The
others assume nothing and state nothing about progress.

### Where documents and code differ

Two differences have a run that TLC ends with a counterexample.

- **controller_unsafe.** `src/docs/phase3-architecture.md:46` says unsafe work is not
  retried when its state is uncertain. `try_remote` (RT/lib.rs:693) asks the next
  worker, and then the origin, after a timeout, whatever the retry class.
- **localization_reuse.** `src/README.md:76` says size and SHA-256 are verified before
  a file is published. A writer whose call was dropped looks at its cancellation,
  then writes its chunk (RT/content_localization.rs:635) into the partial file that the
  next call has measured and hashed by then. The next writer checks its own count
  and digest, which are right, and publishes a file that is not. This way takes two
  active writes and a caller that drops `localize`, which `WorkerProcess` does not.
  A second way takes neither: two calls for one digest with different formats have
  different cells (:326) and the same files (:353). Both prepare, and measure a length
  of 0; the first writes and publishes the file; the second, which has it open,
  appends all its chunks to it, finds its own digest right, and fails only to rename.
  With `INVARIANT PublishedIsWhole` in place of the properties, `MCLocalization.cfg`
  ends with such a trace: one writer, two formats, no call dropped.

More were met while modelling and have no run of their own.

Registry and control plane:

- phase4 says another management node can replay after the entry node is lost. A
  replica's log lacks the transactions of Fast tasks, so with one before a
  Durable task it does not replay (persistent_registry.rs:146).
- phase5 says the log index increases with every write. When the leader's own file
  refuses a record that a quorum stores, the index is used again (ha_control.rs:611).
- phase5 says a candidate's log is not behind. Only last indices are compared; a node
  that rejoins without `recover` and stores the next record has a gap and may lead.
  After such a gap a reopen may rebuild an older grant: without the condition
  `GapFree`, `NewestGrantKept` is violated.
- phase5 says leadership is transferred after a sustained margin. `should_transfer` keeps
  its preferred candidate while the current leader is unfit, also when that candidate is
  unfit then, and counts the dwell time from before (ha_control.rs:916).
- `FailureDetector::new` accepts a stable pulse interval above `dead_after_ticks`, as its
  own test does; a member that pulses as told is then Dead in between. A dead member keeps
  its place among `max_members`.
- `CftRegistryReplica` asks for a quorum per record and restores from one node, which
  under failing files may lack any of them (ha_control.rs:661).
- issue-19 says an uncommitted prepare is truncated on restart; the code recovers it
  as pending, and is right: dropping it is the mutant that breaks
  `ReplayMatchesMemory`.
- issue-19 says a retry reuses the transaction. `stage_output` builds another mutation
  when the number of healthy copies changed, and is refused while the first is pending.
- A rollback of an append whose `set_len` fails too leaves a partial frame
  (persistent_registry.rs:1543), and `compaction_due` can return an error for a
  transaction that was published (:704).

Coordinator and controller:

- phase3 says a restart has an increased attempt number. Restarts that overlap read the
  same last one (lib.rs:754). Likewise submits that overlap both find the id new
  (lib.rs:613), and a cancel does not see a restart that happens while it waits
  (lib.rs:708). The management server serialises submits, the library does not.
- A worker that comes back with another snapshot version stays Incompatible
  (lib.rs:214).
- `serve_management` ends with an error when a reply cannot be sent, on undecodable
  bytes and after 24 hours of silence; the workers are not stopped then
  (process.rs:631).
- `ControllerClient::request` keeps its connection when its future is dropped, which
  `LinkWorkerTransport` avoids (process.rs:787).

Content and recovery:

- A checkpoint is uploaded before its lineage is checked, and a refused one is not
  charged to the budget (recovery.rs:73).
- `collect_garbage` removes contents before it writes the catalog; what it leaves
  behind when it stops half way accepts references again until the next
  collection. `HeldStored` therefore speaks of contents that are not `stranded`.
- A failed `persist` leaves the catalog in memory ahead of its file.
- `RecoveryPlanner` names a target for a checkpoint because a `ResourceCatalog` says
  that it is there (recovery.rs:261); `restore` reads the store of the target's own
  `CheckpointManager` (:140). Nothing in the code ties the one to the other.
- Chunks are not synced although manifests are (content_store.rs:214); the model's
  files survive.

Scheduling:

- The Top-K cut comes before the filter for works that stay at home, so such a work
  may find no candidate while its home would do.
- A reservation expires while its work runs.
- Data larger than a tick's data bytes is queued, never starts (scheduler.rs:910) and
  keeps its share of `max_queued_bytes`.
- The index has no operation that removes a node.

Trust:

- phase8 says a lowered trust level ends authorizations. `validate` asks for the lowest
  level only and looks a stored authorization up by its id (trust_plane.rs:484).
- An append that failed and left bytes, with another behind it, makes a log that
  does not open again; `AckedKept` speaks of logs that open.
- An expired identity comes back only through revoke and readmit.

## 4. Proofs

The theorems hold for all sets of tasks, nodes, contents and replicas and all
bounds. They rest on the named assumptions of the modules' constants only
(`LifecycleConstants`, `RegistryConstants`, `CftConstants`, ...): limits are
natural numbers, the sets that are counted are finite, a content has finitely
many chunks, the replicas are distinct. TLC evaluates the assumptions in every
run. Where a theorem needs more it says so in its statement, and the reason is
below.

| Module | Theorem | Establishes | Only if |
| --- | --- | --- | --- |
| TaskLedgerProofs | LedgerTypeCorrect, AttemptsAreFenced, NewestOutputCommits, DurableSurvives, DurableHistoryKept | `[]TypeOK`, `[]FencedAttempts`, `[]OnlyNewestCommits`, `[]DurableAgrees`, `DurableHistory` | |
| RegistryProofs | RegistryImplementsLedger | `RefinementSpec => ImplementsLedger` | |
| | LogAlwaysOpens, FilesMatchMemory, ReplicasNeverDiverge, PublishedIsCopied | `[]NeverCorrupt`, `[]ReplayMatchesMemory`, `[]ReplicasFollowHistory`, `[]PublishedCopies` | |
| | RegistryRecordsSafe, RegistryKeepsDurable | what FencedAttempts and OnlyNewestCommits say of one record, of every record of the open registry; `[]Ledger!DurableAgrees`, `Ledger!DurableHistory` | |
| | EntryLossSurvived | `[]EntryLossSurvivable` | `EveryReplicaAcknowledges`: tasks are submitted with modes for which all replicas must acknowledge |
| CftProofs | LeadersDiffer, ResultsStayInOrder | `[]OneLeaderPerTerm`, `[]ResultsInGrantOrder` | |
| | CommitsStayOrdered | `[]CommitsOrdered` | `"storage"` is not among `Faults`: no file refuses a write |
| | MajorityKeepsStoring | `[]MajorityStores` | `"rejoin"` is not among `Faults`: a node that is gone comes back by a reopen only |
| | NewestGrantStays | `NewestGrantKept` | `"storage"` is not among `Faults` |
| ControllerProofs | ConnectionsStayClean, CandidatesStayFresh, StopIsQuiet | `[]ConnectionsClean`, `[]FreshCandidates`, `[]QuietBeforeStop` | |
| | TasksStayBounded | at most `max_tasks` records, although `submit` looks for room before its await and inserts after it | |
| | HistoryStays | no insert replaces a record, no restart loses an attempt | |
| | ActiveIsNewest, ResultsAcceptedInOrder | `[]ActiveIsNewestAndRan`, `AcceptedInOrder` | `[]RestartsApart` |
| RecoveryProofs | RecoveryTypeCorrect, CommittedStaysReadable, ReferencesKeepContents | `[]TypeOK`, `[]CommittedReadable`, `[]HeldStored` | |
| SchedulingProofs | IndexIsExact, PlansStayBehind, AdmittedAreCapable, ReserveIsKept | `[]IndexExact`, `[]PlansNotAhead`, `[]AdmittedCapable`, `[]LocalReserveKept` | |
| | AccountsAreExact | `[]AccountsExact` | |
| WorkerProofs | LocalizationTypeCorrect | `[]TypeOK` of `Localization`, with its limits | |
| | PublishedStaysWhole | `PublishedWhenApart`, that is, `[]PublishedIsWhole` if `[]CellsApart` | `MaxWrites = 1` |
| | IdentitiesFenced | `[]EarlierIdentityFenced` | |
| | AcknowledgedEventsKept | `[]AckedKept` | |
| | InclusionProofsVerify | `[]ProofsVerify` | |
| Sums | (lemmas) | induction over the naturals; sums over finite sets | |

**TaskLedgerProofs.** None of the five is inductive as it stands. That a committed
output comes from the newest attempt needs that a staged one came from the attempt
that is still active, which needs that there is at most one active attempt, and that
the newest; and as a crash makes any recoverable state current, each has to hold of
all of them. `LedgerInvariant` therefore proves their conjunction, `LedgerInv`,
with the fact that the current state is itself recoverable. The argument is made
for a single record first: each mutation of a record that is well formed gives a
well-formed one (one lemma per mutation), and is then lifted to `Publish`, which
changes one record, and to `Crash`, which changes none. `DurableHistoryKept` adds
one lemma per mutation about `DurableStep`; a crash changes no durable record by
`DurableAgrees`.

**RegistryProofs.** Everything rests on what replay makes of a log. `ReplayExists`
and `ReplayUnfolds` show by induction that the recursion over the frames has a
solution; `ReplayPrefix`, that cutting or extending a log does not change the images
of what stays; `ReplaySkips`, that a snapshot makes all frames it covers void.
`RegistryInv` says that the image after *every* number of frames opens (`LogOK`, with
`Bounded`: no frame is beyond what its image has published or prepared, which is
what makes a snapshot cover the whole log), and that while the registry is open the
last image is its memory. Every step changes the files in one of five ways
(`FileEffect`: the log stays, grows by a prepare, grows by a commit, is saved in a
snapshot and perhaps emptied, or is cut by a crash), and each further result is
proved once per way. `ReplicaInv` adds that a prepared transaction which is synced
is the last thing a crash can leave, hence nothing reaches a replica that a crash
could still take from the log; `CopiesInv` adds that the proofs of a pending
transaction are replicas that hold it, and that the tasks of a history are known, so
that no later transaction changes the acceptance mode they were counted under.
`SurvivalInv` says of a replica's own log that it opens as the registry's last image,
or, when a prepared transaction has reached it, as that image with the transaction
committed (`Mirrors`); a transaction that misses a replica is never published, so no
log has a gap. It needs the proviso: a Fast transaction is sent to no replica and a
Durable one may miss some, and a log with a gap does not open.
In the refinement a commit is the ledger's `Publish`, a synced prepare, a snapshot and
the end of a torn log are its `Flush`, a cut is its `Crash`, and the rest changes
nothing the ledger shows. What `TaskLedgerProofs` proves of the ledger thereby holds
of the registry's records and of all that a crash may leave of them:
`RegistryRecordsSafe` and `RegistryKeepsDurable` state it, with the ledger's theorems
instantiated under the same mapping (`LedgerTheory`; `SameLedger` shows that it is the
ledger of the refinement). They are about `RefinementSpec`, whose two history
variables restrict no step of the registry.

**CftProofs.** The term of an election is above the term of every node, so nobody
else is in it; a vote that could not be stored, a recovery or a reopen makes a node a
follower or takes the term back, and never makes a second leader of a term
(`LeadersInv`). `CommitsStayOrdered` is the argument of a
replicated log: a quorum is as far as the last commit (`QuorumAhead`), the leader
was elected by a quorum and so is at least as far (`LeaderAhead`), and only committed
records are in the files (`OnlyCommitted`). `NewestGrantStays` is about the reopen,
which rebuilds the grants from one file only, one with the highest last index. Some file of
the quorum is as far as the last commit, so that one is; without a gap it then has a record at
every committed index, and since no two committed records have one index
(`CommitsOrdered`, `EpochsDiffer`) and nothing else is in the files, it has them all (`FurthestHasAll`).
Epochs rise with the indices, so the last grant of a task in it is the newest one
(`RebuiltIsNewest`). The provisos are not conveniences: when
the leader's own file refuses a write its index is used again; a recovery replaces a
node's log by the leader's, which may have a gap; and from a log with a gap a reopen
may put an older grant in force, which is why `NewestGrantKept` has `GapFree` as a
condition of that step. The code refuses none of these.

**ControllerProofs.** `ProcessInv` ties the gate to who holds it (`GateHeld`) and the
server's state to the commands and rounds under way (`ServerOK`). `RecordsInv` says
of every call what it has read before its await (`CallAgrees`) and that the last
attempt of a task is the active one (`LastIsActive`). It needs `RestartsApart`: two
restarts of one task do not overlap. `restart_after_disconnect` reads the last
attempt before its first await and nothing prevents a second restart from reading
the same one (`lib.rs:754`); with one caller, as in the process, it holds.
`RoomInv` is about what a submit has found before its await, that its id is free and
that there is room: it still holds when the record is inserted, since submits hold
`worker_gate` and restarts add no record. Hence `TasksStayBounded` and `HistoryStays`,
without the proviso. A program that calls `Coordinator::submit` twice at a time, without
the controller, has neither (`lib.rs:579`). The two are proved of the model of the run
`controller`, which does not list them.

**RecoveryProofs.** `StoreInv` says of the catalog in memory and of its file alike,
whichever a restart will read, that every reference a caller holds is counted and
that what has an entry is in the store or among what a collection removed without
its entry; `RecoveryInv` adds the checkpoints' lineage and budget.

**SchedulingProofs.** `PlacementInv` adds to the properties that a plan names only
nodes that fit (`PlansCapable`). `PlansStayBehind` holds because a plan copies the versions
that the scheduler knows and those never go down. `ReserveIsKept` and `AccountsAreExact` are about sums
over finite sets: `Sums` shows that such a sum does not depend on the order in which
it is computed, and what adding and removing an element do to it.

**WorkerProofs.** `LocalizerInv` is about the runs (`RunsOK`: a job without a caller is
one that works and has its permits), the callers (`CallsOK`: one run with a caller per
content, and enough runs for those who may start one) and the limits (`LimitsOK`). A
step adds a run, makes runs shrink, or moves one run (`Moves`) in a way that takes
something only if there is enough of it (`Takes`); that is shown once per action, and
each part of the invariant once per kind of step. The chunks in memory are a sum over
the runs, for which `Sums` has the lemmas. `FilesInv` adds what the digest vouches for:
the file that a run assembles is under the partial path and contains what the run
hashed. A run without a caller may be writing while the next run of its content
prepares, so this needs that the two exclude each other, and the only thing that does
is the permit to write: hence `MaxWrites = 1`. A run with a caller waits for its
permit between opening the file and writing to it, which is why `FilesInv` also says that
it is then the only one of its digest with a partial file (`TransfersAlone`); that in turn
needs that no two runs with callers are of one digest, which is `CellsApart`, the
hypothesis of `PublishedWhenApart`. Without either the property fails: with two permits
as `localization_reuse` shows, with two contents of one digest as section 3 describes.

For the trust plane, `TrustInv`: what was issued in an earlier period has an older
generation and a secret other than the current one, and no secret comes back.

For the audit log, `AuditInv`: the events in memory are the acknowledged ones, numbered
from 1, and either the file begins with them or it has a line that every open refuses
(`HasBadLine`). `AckedKept` itself is not inductive: it says nothing about a file that
does not open, and so does not exclude that a later write makes it open again. A write
never mends a bad line, since it only adds a line or turns an unfinished last one into
something that is no event; and an event that is acknowledged after a failed append that
had left its whole line has the number of that line, not its own place, which makes it bad.

`InclusionProofsVerify` has two halves. The one about the tree is for any non-empty
sequence of hashes: the loops have a value after every round (`LevelsExist` and its like,
by induction), the levels shrink to one hash (`RoundsFacts`), and verifying goes up the
levels along the leaf's positions (`ProofClimbs`), so that it ends at the root; joining the
same siblings to two different hashes keeps them different (`HashesDiffer`), so that no
other hash ends there (`ProofIsExact`). That is where the hash of a model being the data
it is of is used: collisions are excluded. The half about the log is `ChainInv`: every
event is numbered by its place and names the hash of the one before, hence no two events
have the same hash, and a segment is a run of consecutive events.

Left to TLC: liveness under fairness, which is `CallsReturn`, `ShutdownEnds`,
`EverythingEnds`, `TransfersEnd` and `HealthConverges`; the prover has no rule for it. Every
safety property that a passing run checks is stated by a theorem of the table, under
the proviso it names.

## 5. Not modelled

Bytes: frame encoding, checksums, size limits, hashes and signatures. Double
faults of one file in one call in the registry. Floating-point arithmetic: cost
predictions, reputation, smoothed pressure, checkpoint intervals; where a decision
depends on it, every outcome is possible. `CheckpointManager::restore` and
`RecoveryPlanner::plan`: the one reads a content of its own store, the other decides
from a catalog of all nodes that the code does not relate to those stores, so that a
property of both would rest on how a model relates them. Pure comparisons with no state: result
verification, artifact and governance checks, effect recovery, session migration.
`LeadershipPreference`, `CftRegistryReplica`, the task priority
queue, `DataTransferQueue` and mirror admission, which are small and planned below.
The worker's accept loop and the handshake's messages: they succeed or fail as a
whole. Sidecar, host adapter, control client and main are wiring; benchmarks are
measurements; they will stay out.

## 6. Plan

1. Done: `TaskLifecycle`, `TaskLedger`, `PersistentRegistry`, their refinement,
   `ReferenceCft`, `Coordinator`, and the theorems about the ledger.
2. Done: `ControllerProcess`, `Localization`, `ContentStore`, `Recovery`,
   `NodeAdmission`, `Placement`, `NodeBudgets`, `FailureDetector`, `Trust`, `AuditLog`,
   `AuditSegments`.
3. Done: the theorems of section 4 about the registry, the control plane, the
   controller, localization, the content store, scheduling, trust, the audit log and its
   Merkle proofs.
   The ledger's theorems are carried over to the registry through the refinement.
4. `CftRegistryReplica` composed with `PersistentRegistry`: the registry recovered
   from the control log is a published one. `LeadershipPreference`,
   `DataTransferQueue`, mirror admission.
