---------------------------- MODULE ReferenceCft ----------------------------
(***************************************************************************)
(* ReferenceCftModel: the control plane of a small cluster.  One object      *)
(* holds every control node, so each call is atomic; the nodes differ in     *)
(* what they have persisted, and the calls that kill, isolate and recover    *)
(* nodes, storage errors and a reopen of the files come in any order between *)
(* the others.                                                               *)
(*                                                                           *)
(* Abstractions.  Logical ticks are a variable that only grows.  A control   *)
(* record is a plain write, a grant or a reconciliation; record sizes and    *)
(* metadata texts are left out.  Node ids are arbitrary, so a choice the     *)
(* code makes by their order is nondeterministic.                            *)
(***************************************************************************)
EXTENDS Naturals, Sequences, FiniteSets

CONSTANTS
    Full, Witness,    \* voting nodes that can, and cannot, become leader
    Task, Value,      \* global tasks, plain control writes
    Worker,           \* the nodes that are granted work
    Faults,           \* which of "rejoin", "storage" and "restart" may happen
    MaxTerm, MaxEpoch, MaxTick,   \* bounds
    MaxValid,         \* bound: longest lease or grant, in ticks
    MaxResults        \* MAX_UNCOMMITTED_RESULTS

Node == Full \cup Witness

\* The topologies that open accepts.
ASSUME CftConstants ==
    /\ IsFiniteSet(Node) /\ Full \cap Witness = {}
    /\ \/ Cardinality(Full) >= 3
       \/ Cardinality(Full) >= 2 /\ Cardinality(Witness) >= 1
    /\ Faults \subseteq {"rejoin", "storage", "restart"}
    /\ {MaxTerm, MaxEpoch, MaxTick, MaxValid, MaxResults} \subseteq Nat

VARIABLES
    alive,      \* nodes that are alive
    cut,        \* pairs of nodes whose link is down
    leader,     \* the leader, as an Option
    role, term, log,     \* ControlNodeSnapshot of every node
    disk,       \* the term and log each node's file holds
    epoch,      \* current_epoch
    lease,      \* the control lease, as an Option
    grants,     \* the grant in force for every task, as an Option
    results,    \* uncommitted_results
    tick,
    committed   \* history: the entries that propose has returned

nodeVars == <<role, term, log, disk>>
netVars == <<alive, cut>>
authority == <<epoch, lease, grants, results>>
vars == <<alive, cut, leader, role, term, log, disk, epoch, lease, grants,
          results, tick, committed>>

-----------------------------------------------------------------------------
Quorum == Cardinality(Node) \div 2 + 1          \* quorum_size

Connected(m, n) == m = n \/ {m, n} \notin cut

LastIndex(l) == IF l = <<>> THEN 0 ELSE l[Len(l)].index

EntriesOf(l) == {l[i] : i \in DOMAIN l}

FollowerRole(n) == IF n \in Full THEN "Follower" ELSE "Witness"

Reachable(n) == {m \in alive : Connected(n, m)}  \* reachable_voters

\* has_leader_quorum.
LeaderQuorum(n) ==
    leader = {n} /\ n \in alive /\ Cardinality(Reachable(n)) >= Quorum

CurrentTerm(n) == term[n]                        \* current_term, of the leader

ValidAt(x, t) == x.issued <= t /\ t <= x.until

\* authorize, for the operations that need a quorum and a lease.
Authorized(n) ==
    /\ LeaderQuorum(n)
    /\ \E l \in lease : l.leader = n /\ l.term = CurrentTerm(n) /\ ValidAt(l, tick)

GrantOf(e) ==
    [task |-> e.record.task, worker |-> e.record.worker, term |-> e.term,
     epoch |-> e.epoch, issued |-> e.record.issued, until |-> e.record.until]

IsGrantOf(e, t) == e.record.kind = "Grant" /\ e.record.task = t

\* rebuild_grants, of one log: its last grant for every task, as an Option.
GrantsIn(l) ==
    [t \in Task |-> {GrantOf(l[i]) : i \in {j \in DOMAIN l :
        IsGrantOf(l[j], t) /\ \A k \in (j + 1)..Len(l) : ~IsGrantOf(l[k], t)}}]

Init ==
    /\ alive = Node /\ cut = {}
    /\ leader = {}
    /\ role = [n \in Node |-> FollowerRole(n)]
    /\ term = [n \in Node |-> 0]
    /\ log = [n \in Node |-> <<>>]
    /\ disk = [n \in Node |-> [term |-> 0, log |-> <<>>]]
    /\ epoch = 0 /\ lease = {} /\ grants = [t \in Task |-> {}] /\ results = <<>>
    /\ tick = 0
    /\ committed = {}

-----------------------------------------------------------------------------
(* Elections.                                                                *)

\* Defect: a node votes for a candidate whose log is behind its own.
VotersAny(c) == {n \in alive : Connected(c, n)}

\* The nodes that vote for a candidate: alive, connected, and not ahead of it.
Voters(c) ==
    {n \in alive : Connected(c, n) /\ LastIndex(log[n]) <= LastIndex(log[c])}

\* Defect: the new term is the candidate's own term plus one.
NextTermLocal(c) == term[c] + 1

NextTerm(c) == 1 + CHOOSE t \in {term[n] : n \in Node} : \A n \in Node : term[n] <= t

\* The vote is written to every node of `voting`, and reaches the file of every
\* node of `stored`.
WriteVotes(c, voting, stored) ==
    /\ term' = [n \in Node |-> IF n \in voting THEN NextTerm(c) ELSE term[n]]
    /\ role' = [n \in Node |-> CASE n \notin voting -> role[n]
                                 [] n \in voting /\ n = c -> "Leader"
                                 [] n \in voting /\ n # c -> FollowerRole(n)]
    /\ disk' = [n \in Node |-> IF n \in stored
                                 THEN [term |-> NextTerm(c), log |-> log[n]]
                                 ELSE disk[n]]

elect(c) ==
    /\ c \in alive \cap Full
    /\ NextTerm(c) <= MaxTerm
    /\ Cardinality(Voters(c)) >= Quorum
    /\ WriteVotes(c, Voters(c), Voters(c))
    /\ leader' = {c} /\ lease' = {}
    /\ UNCHANGED <<netVars, log, epoch, grants, results, tick, committed>>

\* Without a quorum the cluster has no leader, whoever it was before.
elect_without_quorum(c) ==
    /\ c \in alive \cap Full
    /\ Cardinality(Voters(c)) < Quorum
    /\ leader' = {}
    /\ UNCHANGED <<netVars, nodeVars, authority, tick, committed>>

\* Writing one vote fails: the voters before it have voted, the leader stays.
elect_fails(c) ==
    /\ "storage" \in Faults
    /\ c \in alive \cap Full
    /\ NextTerm(c) <= MaxTerm
    /\ Cardinality(Voters(c)) >= Quorum
    /\ \E stored \in SUBSET Voters(c) : \E failing \in Voters(c) \ stored :
          WriteVotes(c, stored \cup {failing}, stored)
    /\ UNCHANGED <<netVars, leader, log, authority, tick, committed>>

-----------------------------------------------------------------------------
(* Failures and recovery of nodes.                                           *)

LosesLeader(n) ==
    IF leader = {n} THEN leader' = {} /\ lease' = {} ELSE UNCHANGED <<leader, lease>>

kill(n) ==                                       \* set_alive(n, false)
    /\ n \in alive
    /\ alive' = alive \ {n}
    /\ LosesLeader(n)
    /\ UNCHANGED <<cut, nodeVars, epoch, grants, results, tick, committed>>

revive(n) ==                                     \* set_alive(n, true)
    /\ "rejoin" \in Faults
    /\ n \notin alive
    /\ alive' = alive \cup {n}
    /\ UNCHANGED <<cut, leader, nodeVars, authority, tick, committed>>

isolate(n) ==                                    \* isolate(n, true)
    /\ cut' = cut \cup {{n, m} : m \in Node \ {n}}
    /\ LosesLeader(n)
    /\ UNCHANGED <<alive, nodeVars, epoch, grants, results, tick, committed>>

rejoin(n) ==                                     \* isolate(n, false)
    /\ "rejoin" \in Faults
    /\ cut' = cut \ {{n, m} : m \in Node \ {n}}
    /\ UNCHANGED <<alive, leader, nodeVars, authority, tick, committed>>

\* recover: the node is alive again and, when there is a leader it can reach,
\* takes over the leader's log and term; otherwise it keeps its own.
recover(n) ==
    /\ "rejoin" \in Faults
    /\ alive' = alive \cup {n}
    /\ \/ /\ \A l \in leader : ~Connected(n, l)
          /\ UNCHANGED nodeVars
       \/ \E l \in leader :
            /\ Connected(n, l)
            /\ log' = [log EXCEPT ![n] = log[l]]
            /\ term' = [term EXCEPT ![n] = term[l]]
            /\ role' = [role EXCEPT ![n] = FollowerRole(n)]
            /\ \/ disk' = [disk EXCEPT ![n] = [term |-> term[l], log |-> log[l]]]
               \/ "storage" \in Faults /\ UNCHANGED disk
    /\ UNCHANGED <<cut, leader, authority, tick, committed>>

\* Defect: rebuild_grants reads a node of the highest term.
FurthestByTerm(n) == \A m \in Node : disk[m].term <= disk[n].term

\* No file has a higher last index than that of node n.
Furthest(n) == \A m \in Node : LastIndex(disk[m].log) <= LastIndex(disk[n].log)

\* open on the files that the nodes have persisted.
restart ==
    /\ "restart" \in Faults
    /\ alive' = Node /\ cut' = {}
    /\ leader' = {} /\ lease' = {} /\ results' = <<>>
    /\ role' = [n \in Node |-> FollowerRole(n)]
    /\ term' = [n \in Node |-> disk[n].term]
    /\ log' = [n \in Node |-> disk[n].log]
    /\ LET epochs == {0} \cup {e.epoch : e \in UNION {EntriesOf(disk[n].log) : n \in Node}}
       IN  epoch' = CHOOSE x \in epochs : \A y \in epochs : y <= x
    /\ \E n \in Node : Furthest(n) /\ grants' = GrantsIn(disk[n].log)
    /\ UNCHANGED <<disk, tick, committed>>

-----------------------------------------------------------------------------
(* Writes.                                                                   *)

NextEntry(l, record) ==
    [index |-> LastIndex(log[l]) + 1, term |-> CurrentTerm(l), epoch |-> epoch + 1,
     record |-> record]

\* The entry is pushed to `stored`, nodes whose file takes it.
Push(stored, e) ==
    /\ log' = [n \in Node |-> IF n \in stored THEN Append(log[n], e) ELSE log[n]]
    /\ disk' = [n \in Node |-> IF n \in stored
                                 THEN [term |-> term[n], log |-> log'[n]] ELSE disk[n]]

\* Which of the reachable nodes' files may take a write.
Storable(l) ==
    IF "storage" \in Faults THEN SUBSET Reachable(l) ELSE {Reachable(l)}

\* Defect: the leader is counted whether or not its own file took the entry.
EnoughWithLeader(l, stored) == Cardinality(stored \cup {l}) >= Quorum

EnoughStored(l, stored) == Cardinality(stored) >= Quorum

\* propose, when it commits.
Commits(l, record) ==
    /\ LeaderQuorum(l)
    /\ epoch < MaxEpoch
    /\ \E stored \in Storable(l) :
          /\ EnoughStored(l, stored)
          /\ Push(stored, NextEntry(l, record))
    /\ epoch' = epoch + 1
    /\ committed' = committed \cup {NextEntry(l, record)}

\* propose, called directly with the leader's id.
propose(l, v) ==
    /\ Commits(l, [kind |-> "Write", value |-> v])
    /\ UNCHANGED <<netVars, leader, role, term, lease, grants, results, tick>>

\* propose_from: any live node that reaches the leader routes the write to it.
propose_from(ingress, v) ==
    /\ ingress \in alive
    /\ \E l \in leader :
          /\ Connected(ingress, l)
          /\ Authorized(l)
          /\ propose(l, v)

renew_control_lease(n, valid) ==
    /\ LeaderQuorum(n)
    /\ lease' = {[leader |-> n, term |-> CurrentTerm(n), issued |-> tick, until |-> tick + valid]}
    /\ UNCHANGED <<netVars, leader, nodeVars, epoch, grants, results, tick, committed>>

-----------------------------------------------------------------------------
(* Grants and the results of isolated workers.                               *)

GrantRecord(t, w, valid) ==
    [kind |-> "Grant", task |-> t, worker |-> w, issued |-> tick, until |-> tick + valid]

\* Defect: a grant is put in force before it is committed, with the old epoch.
GrantEntryStale(l, t, w, valid) ==
    [NextEntry(l, GrantRecord(t, w, valid)) EXCEPT !.epoch = epoch]

GrantEntry(l, t, w, valid) == NextEntry(l, GrantRecord(t, w, valid))

issue_grant(l, t, w, valid) ==
    /\ Authorized(l)
    /\ Commits(l, GrantRecord(t, w, valid))
    /\ grants' = [grants EXCEPT ![t] = {GrantOf(GrantEntry(l, t, w, valid))}]
    /\ UNCHANGED <<netVars, leader, role, term, lease, results, tick>>

\* The records of a write or a grant.
Proposable ==
    {[kind |-> "Write", value |-> v] : v \in Value}
      \cup {GrantRecord(t, w, 1) : t \in Task, w \in Worker}

\* A propose that fails: too few of the files take the entry, and the ones that
\* did are rolled back; the error of a rollback is ignored, so its file keeps
\* the entry.
propose_fails(l) ==
    /\ "storage" \in Faults
    /\ LeaderQuorum(l)
    /\ epoch < MaxEpoch
    /\ \E record \in Proposable :
         \E stored \in SUBSET Reachable(l) : \E left \in SUBSET stored :
          /\ Cardinality(stored) < Quorum
          /\ record.kind = "Grant" => Authorized(l)
          /\ disk' = [n \in Node |->
               IF n \notin stored THEN disk[n]
               ELSE [term |-> term[n],
                     log  |-> IF n \in left THEN Append(log[n], NextEntry(l, record)) ELSE log[n]]]
    /\ UNCHANGED <<netVars, leader, role, term, log, authority, tick, committed>>

\* validate_result.
ResultValid(g) == ValidAt(g, tick) /\ grants[g.task] = {g}

\* Defect: the grant a result names is not compared with the one in force.
RecordableAny(n, g) ==
    /\ ~LeaderQuorum(n)
    /\ Len(results) < MaxResults
    /\ g.worker = n
    /\ ValidAt(g, tick)

\* What record_uncommitted_result demands of a result and its grant.
Recordable(n, g) ==
    /\ ~LeaderQuorum(n)
    /\ Len(results) < MaxResults
    /\ g.worker = n
    /\ ResultValid(g)

record_uncommitted_result(n, g) ==
    /\ Recordable(n, g)
    /\ results' = Append(results, g)
    /\ UNCHANGED <<netVars, leader, nodeVars, epoch, lease, grants, tick, committed>>

\* The grants a worker may still hold.
Issued == {GrantOf(e) : e \in {f \in committed : f.record.kind = "Grant"}}

\* reconcile: an explicit decision on the oldest result of a task.
reconcile(l, t) ==
    /\ Authorized(l)
    /\ \E i \in DOMAIN results :
          /\ results[i].task = t
          /\ \A j \in 1..(i - 1) : results[j].task # t
          /\ results' = SubSeq(results, 1, i - 1) \o SubSeq(results, i + 1, Len(results))
    /\ Commits(l, [kind |-> "Reconciliation", task |-> t])
    /\ UNCHANGED <<netVars, leader, role, term, lease, grants, tick>>

Tick ==
    /\ tick < MaxTick
    /\ tick' = tick + 1
    /\ UNCHANGED <<netVars, leader, nodeVars, authority, committed>>

-----------------------------------------------------------------------------
Next ==
    \/ \E n \in Node : \/ elect(n) \/ elect_without_quorum(n) \/ elect_fails(n)
                       \/ kill(n) \/ revive(n) \/ isolate(n) \/ rejoin(n) \/ recover(n)
                       \/ propose_fails(n)
    \/ restart
    \/ \E n \in Node, v \in Value : propose(n, v) \/ propose_from(n, v)
    \/ \E n \in Node, valid \in 1..MaxValid : renew_control_lease(n, valid)
    \/ \E l \in Node, t \in Task, w \in Worker, valid \in 1..MaxValid : issue_grant(l, t, w, valid)
    \/ \E n \in Worker, g \in Issued : record_uncommitted_result(n, g)
    \/ \E l \in Node, t \in Task : reconcile(l, t)
    \/ Tick

Spec == Init /\ [][Next]_vars

-----------------------------------------------------------------------------
(* Properties.                                                               *)

\* No two nodes believe they lead in the same term, whatever failed elections,
\* kills, partitions, recoveries and reopened files came before.
OneLeaderPerTerm ==
    \A m, n \in Node :
        role[m] = "Leader" /\ role[n] = "Leader" /\ term[m] = term[n] => m = n

\* Commits are totally ordered: a later epoch has a later index and no earlier
\* term.  A leader elected after a partition never reuses the index of a record
\* that was committed without it, and the writes of an old term are refused.
CommitsOrdered ==
    \A e, f \in committed :
        e.epoch < f.epoch => e.index < f.index /\ e.term <= f.term

\* A committed record stays in the files of a majority of the nodes, through failed
\* writes, rollbacks that fail, failed elections and reopens.
MajorityStores ==
    \A e \in committed :
        Cardinality({n \in Node : e \in EntriesOf(disk[n].log)}) >= Quorum

\* No file misses an entry in front of one it has.  A node that comes back without
\* recover takes the next write behind the ones it missed.
GapFree == \A n \in Node : \A i \in DOMAIN disk[n].log : disk[n].log[i].index = i

\* Of every task that was granted, the newest grant issued is in force.
NewestGrantInForce == \A h \in Issued : \E g \in grants[h.task] : h.epoch <= g.epoch

\* No step forgets the newest grant of a task or puts an older one in force.  A
\* reopen restores it from one file only; that file has it, whatever elections,
\* partitions and earlier reopens came before, when no file has a gap.
NewestGrantKept ==
    [][(IF restart THEN GapFree ELSE NewestGrantInForce) => NewestGrantInForce']_vars

\* A result under a grant that was replaced is not recorded any more: the results
\* kept for a task come in the order of their grants.
ResultsInGrantOrder ==
    \A i, j \in DOMAIN results :
        i < j /\ results[i].task = results[j].task => results[i].epoch <= results[j].epoch

=============================================================================
