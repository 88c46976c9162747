------------------------------ MODULE CftProofs ------------------------------
(***************************************************************************)
(* What the reference control plane guarantees for any number of full nodes  *)
(* and witnesses, and which faults each guarantee survives.                  *)
(***************************************************************************)
EXTENDS ReferenceCft, Sums, SequenceTheorems

Record ==
    [kind : {"Write"}, value : Value]
      \cup [kind : {"Grant"}, task : Task, worker : Worker, issued : Nat, until : Nat]
      \cup [kind : {"Reconciliation"}, task : Task]

Entry == [index : Nat \ {0}, term : Nat, epoch : Nat, record : Record]

Grant == [task : Task, worker : Worker, term : Nat, epoch : Nat, issued : Nat, until : Nat]

NodesOK ==
    /\ alive \in SUBSET Node
    /\ leader = {} \/ \E n \in Node : leader = {n}
    /\ role \in [Node -> {"Leader", "Follower", "Witness"}]
    /\ term \in [Node -> Nat]
    /\ log \in [Node -> Seq(Entry)]
    /\ disk \in [Node -> [term : Nat, log : Seq(Entry)]]

AuthorityOK ==
    /\ epoch \in Nat
    /\ grants \in [Task -> SUBSET Grant]
    /\ results \in Seq(Grant)
    /\ tick \in Nat
    /\ committed \in SUBSET Entry

\* No entry on disk is more than one epoch ahead: a write that failed keeps at most
\* the epoch that the next one takes.
EpochsOnDisk ==
    \A n \in Node : \A e \in EntriesOf(disk[n].log) \cup EntriesOf(log[n]) : e.epoch <= epoch + 1

CftTypeOK == NodesOK /\ AuthorityOK /\ EpochsOnDisk

-----------------------------------------------------------------------------
(* Largest numbers.                                                          *)

\* Among the nodes of a set that is not empty, one has the largest value.
LEMMA LargestAt ==
    ASSUME NEW S, IsFiniteSet(S), S # {}, NEW f, \A n \in S : f[n] \in Nat
    PROVE  \E m \in S : \A n \in S : f[n] <= f[m]
  <1> DEFINE HasLargest(s) == \E m \in s : \A n \in s : f[n] <= f[m]
             K == {k \in Nat : \A s \in SUBSET S : s # {} /\ Cardinality(s) <= k => HasLargest(s)}
  <1>1. 0 \in K
    <2> SUFFICES ASSUME NEW s \in SUBSET S, s # {}, Cardinality(s) <= 0 PROVE FALSE
      OBVIOUS
    <2>1. IsFiniteSet(s)
      BY FS_Subset
    <2> QED
      BY <2>1, FS_EmptySet, FS_CardinalityType
  <1>2. ASSUME NEW k \in K PROVE k + 1 \in K
    <2> SUFFICES ASSUME NEW s \in SUBSET S, s # {}, Cardinality(s) <= k + 1 PROVE HasLargest(s)
      OBVIOUS
    <2>1. IsFiniteSet(s)
      BY FS_Subset
    <2>2. PICK x : x = Chosen(s)
      OBVIOUS
    <2>3. x \in s /\ Cardinality(s \ {x}) <= k
      BY <2>1, <2>2, ChosenLeaves
    <2>4. CASE s \ {x} = {}
      <3>1. s = {x}
        BY <2>3, <2>4
      <3> QED
        BY <3>1
    <2>5. CASE s \ {x} # {}
      <3>1. s \ {x} \in SUBSET S
        OBVIOUS
      <3>2. HasLargest(s \ {x})
        BY <2>3, <2>5, <3>1
      <3>3. PICK m \in s \ {x} : \A n \in s \ {x} : f[n] <= f[m]
        BY <3>2
      <3>4. f[m] \in Nat /\ f[x] \in Nat /\ \A n \in s : f[n] \in Nat
        BY <2>3
      <3>5. CASE f[x] <= f[m]
        BY <3>3, <3>5
      <3>6. CASE f[m] <= f[x]
        <4>1. \A n \in s : f[n] <= f[x]
          BY <3>3, <3>4, <3>6
        <4> QED
          BY <4>1, <2>3
      <3> QED
        BY <3>4, <3>5, <3>6
    <2> QED
      BY <2>4, <2>5
  <1>3. K = Nat
    <2> HIDE DEF K
    <2>1. K \in SUBSET Nat
      BY DEF K
    <2> QED
      BY <1>1, <1>2, <2>1, InductiveSet
  <1>4. Cardinality(S) \in Nat
    BY FS_CardinalityType
  <1>5. Cardinality(S) \in K
    BY <1>3, <1>4
  <1> QED
    BY <1>4, <1>5

\* A set of numbers that is not empty and has a bound has a largest element.
LEMMA LargestNumber ==
    ASSUME NEW T \in SUBSET Nat, T # {}, NEW b \in Nat, \A x \in T : x <= b
    PROVE  \E x \in T : \A y \in T : y <= x
  <1> DEFINE U == {b - x : x \in T}
  <1>1. U \in SUBSET Nat /\ U # {}
    <2>1. \A x \in T : b - x \in Nat
      OBVIOUS
    <2>2. PICK x \in T : TRUE
      OBVIOUS
    <2>3. b - x \in U
      OBVIOUS
    <2> QED
      BY <2>1, <2>3
  <1>2. PICK u \in U : \A v \in U : u <= v
    BY <1>1, LeastNumber
  <1>3. PICK x \in T : u = b - x
    BY <1>2
  <1>4. ASSUME NEW y \in T PROVE y <= x
    <2>1. b - y \in U
      OBVIOUS
    <2>2. b - x <= b - y
      BY <1>2, <1>3, <2>1
    <2> QED
      BY <2>2
  <1> QED
    BY <1>4

\* The nodes are a finite set that is not empty, and two quorums of them meet.
LEMMA NodesFinite ==
    /\ IsFiniteSet(Node) /\ Node # {}
    /\ Cardinality(Node) \in Nat /\ Quorum \in Nat \ {0}
  <1>1. IsFiniteSet(Node)
    BY CftConstants
  <1>2. Full # {}
    BY CftConstants, FS_EmptySet
  <1>3. Cardinality(Node) \in Nat
    BY <1>1, FS_CardinalityType
  <1> QED
    BY <1>1, <1>2, <1>3 DEF Quorum, Node

\* Two majorities have a node in common: quorum_size is more than half the nodes.
LEMMA QuorumsMeet ==
    ASSUME NEW S \in SUBSET Node, NEW T \in SUBSET Node,
           Cardinality(S) >= Quorum, Cardinality(T) >= Quorum
    PROVE  S \cap T # {}
  <1>1. Cardinality(S) \in Nat /\ Cardinality(T) \in Nat
    BY NodesFinite, FS_Subset, FS_CardinalityType
  <1>2. Cardinality(S) + Cardinality(T) > Cardinality(Node)
    BY <1>1, NodesFinite DEF Quorum
  <1> QED
    BY <1>2, NodesFinite, FS_MajoritiesIntersect

\* A quorum that only gains nodes stays a quorum.
LEMMA QuorumGrows ==
    ASSUME NEW S, NEW T \in SUBSET Node, S \subseteq T, Cardinality(S) >= Quorum
    PROVE  Cardinality(T) >= Quorum
  <1>1. IsFiniteSet(T) /\ S \in SUBSET T
    BY NodesFinite, FS_Subset
  <1>2. Cardinality(S) <= Cardinality(T) /\ Cardinality(S) \in Nat /\ Cardinality(T) \in Nat
    BY <1>1, FS_Subset, FS_CardinalityType
  <1> QED
    BY <1>2, NodesFinite

\* The term of an election is larger than the term of every node.
LEMMA NextTermIsNew ==
    ASSUME term \in [Node -> Nat], NEW c
    PROVE  NextTerm(c) \in Nat /\ \A n \in Node : term[n] < NextTerm(c)
  <1>1. \E m \in Node : \A n \in Node : term[n] <= term[m]
    BY NodesFinite, LargestAt
  <1>2. \E t \in {term[n] : n \in Node} : \A n \in Node : term[n] <= t
    BY <1>1
  <1>3. PICK t : t = CHOOSE x \in {term[n] : n \in Node} : \A n \in Node : term[n] <= x
    OBVIOUS
  <1>4. t \in {term[n] : n \in Node} /\ \A n \in Node : term[n] <= t
    BY <1>2, <1>3
  <1>5. NextTerm(c) = 1 + t
    BY <1>3 DEF NextTerm
  <1> QED
    BY <1>4, <1>5

-----------------------------------------------------------------------------
(* What single operations do.                                                *)

\* The entries of a log that one entry is appended to.
LEMMA EntriesAppend ==
    ASSUME NEW l \in Seq(Entry), NEW e
    PROVE  EntriesOf(Append(l, e)) = EntriesOf(l) \cup {e}
  <1>1. /\ DOMAIN Append(l, e) = 1..(Len(l) + 1) /\ DOMAIN l = 1..Len(l) /\ Len(l) \in Nat
        /\ \A i \in 1..Len(l) : Append(l, e)[i] = l[i]
        /\ Append(l, e)[Len(l) + 1] = e
    OBVIOUS
  <1> QED
    BY <1>1 DEF EntriesOf

\* A log has entries only, and its last index is a number.
LEMMA LogType ==
    ASSUME NEW l \in Seq(Entry)
    PROVE  /\ EntriesOf(l) \subseteq Entry
           /\ LastIndex(l) \in Nat
           /\ l # <<>> => l[Len(l)] \in EntriesOf(l) /\ LastIndex(l) = l[Len(l)].index
  <1>1. l # <<>> => Len(l) \in DOMAIN l /\ l[Len(l)] \in Entry
    OBVIOUS
  <1>2. \A i \in DOMAIN l : l[i] \in Entry
    OBVIOUS
  <1> QED
    BY <1>1, <1>2 DEF EntriesOf, LastIndex, Entry

\* The appended entry is the last one.
LEMMA LastOfAppend ==
    ASSUME NEW l \in Seq(Entry), NEW e \in Entry
    PROVE  Append(l, e) \in Seq(Entry) /\ LastIndex(Append(l, e)) = e.index
  <1>1. Append(l, e) \in Seq(Entry) /\ Len(Append(l, e)) = Len(l) + 1 /\ Append(l, e)[Len(l) + 1] = e
    OBVIOUS
  <1>2. Append(l, e) # <<>>
    BY <1>1
  <1> QED
    BY <1>1, <1>2 DEF LastIndex

\* The entry of a write is the leader's next one.
LEMMA NextEntryType ==
    ASSUME NodesOK, AuthorityOK, NEW l \in Node, NEW r \in Record
    PROVE  /\ NextEntry(l, r) \in Entry
           /\ NextEntry(l, r).index = LastIndex(log[l]) + 1
           /\ NextEntry(l, r).term = term[l]
           /\ NextEntry(l, r).epoch = epoch + 1
           /\ NextEntry(l, r).record = r
  <1>1. log[l] \in Seq(Entry) /\ term[l] \in Nat /\ epoch \in Nat
    BY DEF NodesOK, AuthorityOK
  <1>2. LastIndex(log[l]) \in Nat
    BY <1>1, LogType
  <1> QED
    BY <1>1, <1>2 DEF NextEntry, Entry, CurrentTerm

\* The records of the writes are records.
LEMMA RecordType ==
    /\ \A v \in Value : [kind |-> "Write", value |-> v] \in Record
    /\ \A t \in Task : [kind |-> "Reconciliation", task |-> t] \in Record
    /\ AuthorityOK => \A t \in Task, w \in Worker, valid \in Nat : GrantRecord(t, w, valid) \in Record
  <1>1. \A v \in Value : [kind |-> "Write", value |-> v] \in Record
    BY DEF Record
  <1>2. \A t \in Task : [kind |-> "Reconciliation", task |-> t] \in Record
    BY DEF Record
  <1>3. ASSUME AuthorityOK, NEW t \in Task, NEW w \in Worker, NEW valid \in Nat
        PROVE  GrantRecord(t, w, valid) \in Record
    <2>1. tick \in Nat /\ tick + valid \in Nat
      BY <1>3 DEF AuthorityOK
    <2> QED
      BY <2>1 DEF Record, GrantRecord
  <1> QED
    BY <1>1, <1>2, <1>3

\* The grant of a grant entry keeps its task and epoch.
LEMMA GrantOfType ==
    ASSUME NEW e \in Entry, e.record.kind = "Grant"
    PROVE  /\ GrantOf(e) \in Grant
           /\ GrantOf(e).epoch = e.epoch /\ GrantOf(e).task = e.record.task
  <1>1. e.record \in Record /\ e.term \in Nat /\ e.epoch \in Nat
    BY DEF Entry
  <1>2. e.record \in [kind : {"Grant"}, task : Task, worker : Worker, issued : Nat, until : Nat]
    BY <1>1 DEF Record
  <1> QED
    BY <1>1, <1>2 DEF GrantOf, Grant

\* The logs and the files once the nodes of `stored` have taken entry e.
PushedLog(stored, e) == [n \in Node |-> IF n \in stored THEN Append(log[n], e) ELSE log[n]]

PushedDisk(stored, e) ==
    [n \in Node |-> IF n \in stored THEN [term |-> term[n], log |-> Append(log[n], e)] ELSE disk[n]]

\* The files once a write of e that reached `stored` is rolled back except on `left`.
LeftDisk(stored, left, e) ==
    [n \in Node |-> IF n \notin stored THEN disk[n]
                    ELSE [term |-> term[n],
                          log  |-> IF n \in left THEN Append(log[n], e) ELSE log[n]]]

\* What a committed write does: it reaches the log and the file of a quorum, and of the
\* leader too unless a file can fail.
LEMMA CommitEffect ==
    ASSUME NodesOK, AuthorityOK, NEW l \in Node, NEW r \in Record, Commits(l, r)
    PROVE  /\ leader = {l}
           /\ epoch' = epoch + 1 /\ committed' = committed \cup {NextEntry(l, r)}
           /\ \E stored \in SUBSET Node :
                 /\ Cardinality(stored) >= Quorum
                 /\ "storage" \notin Faults => l \in stored
                 /\ log' = PushedLog(stored, NextEntry(l, r))
                 /\ disk' = PushedDisk(stored, NextEntry(l, r))
  <1>1. leader = {l} /\ l \in alive
    BY DEF Commits, LeaderQuorum
  <1>2. l \in Reachable(l) /\ Reachable(l) \in SUBSET Node
    BY <1>1 DEF Reachable, Connected, NodesOK
  <1>3. PICK stored \in Storable(l) : Cardinality(stored) >= Quorum /\ Push(stored, NextEntry(l, r))
    BY DEF Commits, EnoughStored
  <1>4. stored \in SUBSET Node /\ ("storage" \notin Faults => l \in stored)
    BY <1>2, <1>3 DEF Storable
  <1>5. log' = PushedLog(stored, NextEntry(l, r))
    BY <1>3 DEF Push, PushedLog
  <1>6. \A n \in Node : n \in stored => log'[n] = Append(log[n], NextEntry(l, r))
    BY <1>5 DEF PushedLog
  <1>7. disk' = [n \in Node |-> IF n \in stored
                   THEN [term |-> term[n], log |-> log'[n]] ELSE disk[n]]
    BY <1>3 DEF Push
  <1>8. disk' = PushedDisk(stored, NextEntry(l, r))
    BY <1>6, <1>7 DEF PushedDisk
  <1>9. epoch' = epoch + 1 /\ committed' = committed \cup {NextEntry(l, r)}
    BY DEF Commits
  <1> QED
    BY <1>1, <1>3, <1>4, <1>5, <1>8, <1>9

\* A sequence without its i-th element.
Without(s, i) == SubSeq(s, 1, i - 1) \o SubSeq(s, i + 1, Len(s))

\* The writes that commit: which record they write, and what else they change.
LEMMA WriteEffect ==
    ASSUME NodesOK, AuthorityOK, NEW l \in Node,
           \/ \E v \in Value : propose(l, v) \/ propose_from(l, v)
           \/ \E t \in Task, w \in Worker, valid \in 1..MaxValid : issue_grant(l, t, w, valid)
           \/ \E t \in Task : reconcile(l, t)
    PROVE  /\ \E m \in Node, r \in Record :
                /\ Commits(m, r)
                /\ \/ r.kind # "Grant" /\ grants' = grants
                   \/ /\ r.kind = "Grant"
                      /\ grants' = [grants EXCEPT ![r.task] = {GrantOf(NextEntry(m, r))}]
           /\ \/ results' = results
              \/ /\ grants' = grants
                 /\ \E i \in 1..Len(results) : results' = Without(results, i)
           /\ UNCHANGED <<alive, cut, leader, role, term, lease, tick>>
  <1>1. ASSUME NEW m \in Node, NEW v \in Value, propose(m, v)
        PROVE  /\ \E r \in Record : Commits(m, r) /\ r.kind # "Grant"
               /\ grants' = grants /\ results' = results
               /\ UNCHANGED <<alive, cut, leader, role, term, lease, tick>>
    <2>1. [kind |-> "Write", value |-> v] \in Record
      BY RecordType
    <2> QED
      BY <1>1, <2>1 DEF propose, netVars
  <1>2. ASSUME NEW v \in Value, propose_from(l, v)
        PROVE  \E m \in Node : propose(m, v)
    BY <1>2 DEF propose_from, NodesOK
  <1>3. ASSUME NEW t \in Task, NEW w \in Worker, NEW valid \in 1..MaxValid, issue_grant(l, t, w, valid)
        PROVE  /\ \E r \in Record :
                    /\ Commits(l, r) /\ r.kind = "Grant"
                    /\ grants' = [grants EXCEPT ![r.task] = {GrantOf(NextEntry(l, r))}]
               /\ results' = results
               /\ UNCHANGED <<alive, cut, leader, role, term, lease, tick>>
    <2>1. PICK r : r = GrantRecord(t, w, valid)
      OBVIOUS
    <2>2. r \in Record
      BY <2>1, RecordType
    <2>3. r.kind = "Grant" /\ r.task = t
      BY <2>1 DEF GrantRecord
    <2>4. /\ Commits(l, r)
          /\ grants' = [grants EXCEPT ![t] = {GrantOf(NextEntry(l, r))}]
          /\ UNCHANGED <<alive, cut, leader, role, term, lease, results, tick>>
      BY <1>3, <2>1 DEF issue_grant, GrantEntry, netVars
    <2> QED
      BY <2>2, <2>3, <2>4
  <1>4. ASSUME NEW t \in Task, reconcile(l, t)
        PROVE  /\ \E r \in Record : Commits(l, r) /\ r.kind # "Grant"
               /\ grants' = grants
               /\ \E i \in 1..Len(results) : results' = Without(results, i)
               /\ UNCHANGED <<alive, cut, leader, role, term, lease, tick>>
    <2>1. [kind |-> "Reconciliation", task |-> t] \in Record
      BY RecordType
    <2>2. DOMAIN results = 1..Len(results)
      BY DEF AuthorityOK
    <2> QED
      BY <1>4, <2>1, <2>2 DEF reconcile, netVars, Without
  <1>5. CASE \E v \in Value : propose(l, v) \/ propose_from(l, v)
    BY <1>1, <1>2, <1>5
  <1>6. CASE \E t \in Task, w \in Worker, valid \in 1..MaxValid : issue_grant(l, t, w, valid)
    BY <1>3, <1>6
  <1>7. CASE \E t \in Task : reconcile(l, t)
    BY <1>4, <1>7
  <1> QED
    BY <1>5, <1>6, <1>7

\* What a vote does, whole or failing half way: every voter takes a term that no node had,
\* only the candidate may lead in it, and a file that is written holds its node's log.
LEMMA VotesEffect ==
    ASSUME NodesOK, NEW c \in Node, elect(c) \/ elect_fails(c)
    PROVE  /\ NextTerm(c) \in Nat /\ \A n \in Node : term[n] < NextTerm(c)
           /\ \E voting \in SUBSET Node, stored \in SUBSET Node :
                 /\ stored \subseteq voting
                 /\ \A n \in voting : LastIndex(log[n]) <= LastIndex(log[c])
                 /\ WriteVotes(c, voting, stored)
                 /\ \/ /\ leader' = {c} /\ Cardinality(voting) >= Quorum
                       /\ stored = voting /\ c \in voting
                    \/ leader' = leader /\ "storage" \in Faults
           /\ UNCHANGED <<alive, cut, log, epoch, grants, results, tick, committed>>
  <1>1. NextTerm(c) \in Nat /\ \A n \in Node : term[n] < NextTerm(c)
    BY NextTermIsNew DEF NodesOK
  <1>2. Voters(c) \in SUBSET Node /\ \A n \in Voters(c) : LastIndex(log[n]) <= LastIndex(log[c])
    BY DEF Voters, NodesOK
  <1>3. CASE elect(c)
    <2>1. c \in Voters(c)
      <3>1. log[c] \in Seq(Entry)
        BY DEF NodesOK
      <3>2. LastIndex(log[c]) \in Nat
        BY <3>1, LogType
      <3> QED
        BY <1>3, <3>2 DEF elect, Voters, Connected
    <2> QED
      BY <1>1, <1>2, <1>3, <2>1 DEF elect, netVars
  <1>4. CASE elect_fails(c)
    <2>1. PICK stored \in SUBSET Voters(c), failing \in Voters(c) : WriteVotes(c, stored \cup {failing}, stored)
      BY <1>4 DEF elect_fails
    <2>2. /\ stored \cup {failing} \in SUBSET Node /\ stored \in SUBSET Node
          /\ stored \subseteq stored \cup {failing}
          /\ \A n \in stored \cup {failing} : LastIndex(log[n]) <= LastIndex(log[c])
      BY <1>2
    <2>3. leader' = leader /\ "storage" \in Faults
          /\ UNCHANGED <<alive, cut, log, epoch, grants, results, tick, committed>>
      BY <1>4 DEF elect_fails, netVars, authority
    <2> QED
      BY <1>1, <2>1, <2>2, <2>3
  <1> QED
    BY <1>3, <1>4

\* What opening the files does: the epoch is at least that of every entry on disk, and
\* every grant that is rebuilt comes from such an entry.
LEMMA RestartEffect ==
    ASSUME CftTypeOK, restart
    PROVE  /\ epoch' \in Nat
           /\ \A n \in Node : \A e \in EntriesOf(disk[n].log) : e.epoch <= epoch'
           /\ grants' \in [Task -> SUBSET Grant]
           /\ \A t \in Task : \A g \in grants'[t] : g.epoch <= epoch'
  <1> DEFINE entries == UNION {EntriesOf(disk[n].log) : n \in Node}
             epochs == {0} \cup {e.epoch : e \in entries}
  <1>1. \A n \in Node : disk[n].log \in Seq(Entry) /\ EntriesOf(disk[n].log) \subseteq Entry
    <2>1. \A n \in Node : disk[n].log \in Seq(Entry)
      BY DEF CftTypeOK, NodesOK
    <2> QED
      BY <2>1, LogType
  <1>2. \A e \in entries : e.epoch \in Nat /\ e.epoch <= epoch + 1
    BY <1>1 DEF CftTypeOK, EpochsOnDisk, Entry
  <1>3. epoch \in Nat
    BY DEF CftTypeOK, AuthorityOK
  <1>4. epochs \in SUBSET Nat /\ epochs # {} /\ \A x \in epochs : x <= epoch + 1
    BY <1>2, <1>3
  <1>5. \E x \in epochs : \A y \in epochs : y <= x
    <2> HIDE DEF epochs
    <2>1. epoch + 1 \in Nat
      BY <1>3
    <2> QED
      BY <1>4, <2>1, LargestNumber
  <1>6. epoch' = CHOOSE x \in epochs : \A y \in epochs : y <= x
    BY DEF restart
  <1>7. epoch' \in epochs /\ \A y \in epochs : y <= epoch'
    <2> HIDE DEF epochs
    <2> QED
      BY <1>5, <1>6
  <1>8. \A n \in Node : \A e \in EntriesOf(disk[n].log) : e.epoch <= epoch'
    BY <1>7
  <1>9. PICK n \in Node : grants' = GrantsIn(disk[n].log)
    BY DEF restart
  <1>10. ASSUME NEW t \in Task, NEW g \in grants'[t]
         PROVE  g \in Grant /\ g.epoch <= epoch'
    <2>1. PICK i \in DOMAIN disk[n].log : IsGrantOf(disk[n].log[i], t) /\ g = GrantOf(disk[n].log[i])
      BY <1>9 DEF GrantsIn
    <2>2. PICK e : e = disk[n].log[i]
      OBVIOUS
    <2>3. e \in EntriesOf(disk[n].log) /\ e \in Entry
      BY <1>1, <2>1, <2>2 DEF EntriesOf
    <2>4. e.record.kind = "Grant" /\ g = GrantOf(e)
      BY <2>1, <2>2 DEF IsGrantOf
    <2>5. g \in Grant /\ g.epoch = e.epoch
      BY <2>3, <2>4, GrantOfType
    <2> QED
      BY <1>8, <2>3, <2>5
  <1>11. grants' \in [Task -> SUBSET Grant]
    <2>1. grants' = [t \in Task |-> grants'[t]]
      BY <1>9 DEF GrantsIn
    <2>2. \A t \in Task : grants'[t] \in SUBSET Grant
      BY <1>10
    <2> QED
      BY <2>1, <2>2
  <1> QED
    BY <1>4, <1>7, <1>8, <1>10, <1>11

\* The steps that leave the nodes' terms, logs and files alone.
QuietStep ==
    \/ \E n \in Node : \/ elect_without_quorum(n) \/ kill(n) \/ revive(n) \/ isolate(n) \/ rejoin(n)
    \/ \E n \in Node, valid \in 1..MaxValid : renew_control_lease(n, valid)
    \/ \E n \in Worker, g \in Issued : record_uncommitted_result(n, g)
    \/ Tick
    \/ UNCHANGED vars

\* The steps of the control plane by what they write.
WriteStep(l) ==
    \/ \E v \in Value : propose(l, v) \/ propose_from(l, v)
    \/ \E t \in Task, w \in Worker, valid \in 1..MaxValid : issue_grant(l, t, w, valid)
    \/ \E t \in Task : reconcile(l, t)

VoteStep(c) == elect(c) \/ elect_fails(c)

\* Every step is of one of these kinds.
LEMMA StepCases ==
    ASSUME [Next]_vars
    PROVE  \/ QuietStep \/ restart
           \/ \E n \in Node : VoteStep(n) \/ WriteStep(n) \/ recover(n) \/ propose_fails(n)
  BY DEF Next, QuietStep, WriteStep, VoteStep

\* What the quiet steps change.
LEMMA QuietEffect ==
    ASSUME QuietStep
    PROVE  /\ UNCHANGED <<role, term, log, disk, epoch, grants, committed>>
           /\ leader' = leader \/ leader' = {}
           /\ \/ results' = results
              \/ \E g \in Issued : ResultValid(g) /\ results' = Append(results, g)
  <1>1. ASSUME NEW n \in Node, elect_without_quorum(n) \/ kill(n) \/ revive(n) \/ isolate(n) \/ rejoin(n)
        PROVE  /\ UNCHANGED <<role, term, log, disk, epoch, grants, committed, results>>
               /\ leader' = leader \/ leader' = {}
    <2>1. CASE elect_without_quorum(n)
      BY <2>1 DEF elect_without_quorum, nodeVars, authority
    <2>2. CASE kill(n)
      BY <2>2 DEF kill, nodeVars, LosesLeader
    <2>3. CASE revive(n)
      BY <2>3 DEF revive, nodeVars, authority
    <2>4. CASE isolate(n)
      BY <2>4 DEF isolate, nodeVars, LosesLeader
    <2>5. CASE rejoin(n)
      BY <2>5 DEF rejoin, nodeVars, authority
    <2> QED
      BY <1>1, <2>1, <2>2, <2>3, <2>4, <2>5
  <1>2. ASSUME NEW n \in Node, NEW valid \in 1..MaxValid, renew_control_lease(n, valid)
        PROVE  UNCHANGED <<role, term, log, disk, epoch, grants, committed, results, leader>>
    BY <1>2 DEF renew_control_lease, nodeVars
  <1>3. ASSUME NEW n \in Worker, NEW g \in Issued, record_uncommitted_result(n, g)
        PROVE  /\ UNCHANGED <<role, term, log, disk, epoch, grants, committed, leader>>
               /\ ResultValid(g) /\ results' = Append(results, g)
    BY <1>3 DEF record_uncommitted_result, Recordable, nodeVars
  <1>4. CASE Tick
    BY <1>4 DEF Tick, nodeVars, authority
  <1>5. CASE UNCHANGED vars
    BY <1>5 DEF vars
  <1> QED
    BY <1>1, <1>2, <1>3, <1>4, <1>5 DEF QuietStep

\* The quiet steps keep the types of what they change.
LEMMA QuietType ==
    ASSUME alive \in SUBSET Node, tick \in Nat, QuietStep
    PROVE  alive' \in SUBSET Node /\ tick' \in Nat
  <1>1. ASSUME NEW n \in Node, elect_without_quorum(n) \/ kill(n) \/ revive(n) \/ isolate(n) \/ rejoin(n)
        PROVE  alive' \in SUBSET Node /\ tick' \in Nat
    BY <1>1 DEF elect_without_quorum, kill, revive, isolate, rejoin, netVars
  <1>2. CASE Tick
    BY <1>2 DEF Tick, netVars
  <1>3. CASE UNCHANGED vars
    BY <1>3 DEF vars
  <1>4. ASSUME NEW n \in Node, NEW valid \in 1..MaxValid, renew_control_lease(n, valid)
        PROVE  UNCHANGED <<alive, tick>>
    BY <1>4 DEF renew_control_lease, netVars
  <1>5. ASSUME NEW n \in Worker, NEW g \in Issued, record_uncommitted_result(n, g)
        PROVE  UNCHANGED <<alive, tick>>
    BY <1>5 DEF record_uncommitted_result, netVars
  <1> QED
    BY <1>1, <1>2, <1>3, <1>4, <1>5 DEF QuietStep

-----------------------------------------------------------------------------
(* Types, and one leader for every term.                                     *)

LeadersInv == CftTypeOK /\ OneLeaderPerTerm

\* The types and the leaders at the start.
LEMMA LeadersInit == Init => LeadersInv
  <1> SUFFICES ASSUME Init PROVE LeadersInv
    OBVIOUS
  <1>1. <<>> \in Seq(Entry) /\ <<>> \in Seq(Grant) /\ EntriesOf(<<>>) = {}
    BY DEF EntriesOf
  <1>2. \A n \in Node : FollowerRole(n) \in {"Follower", "Witness"}
    BY DEF FollowerRole
  <1>3. NodesOK
    BY <1>1, <1>2 DEF Init, NodesOK
  <1>4. AuthorityOK
    BY <1>1 DEF Init, AuthorityOK
  <1>5. EpochsOnDisk
    BY <1>1 DEF Init, EpochsOnDisk
  <1>6. OneLeaderPerTerm
    BY <1>2 DEF Init, OneLeaderPerTerm
  <1> QED
    BY <1>3, <1>4, <1>5, <1>6 DEF LeadersInv, CftTypeOK

\* The quiet steps keep the types and the leaders.
LEMMA LeadersQuiet ==
    ASSUME LeadersInv, QuietStep
    PROVE  LeadersInv'
  <1>1. NodesOK /\ AuthorityOK /\ EpochsOnDisk /\ OneLeaderPerTerm
    BY DEF LeadersInv, CftTypeOK
  <1>2. UNCHANGED <<role, term, log, disk, epoch, grants, committed>>
    BY QuietEffect
  <1>3. alive' \in SUBSET Node /\ tick' \in Nat
    BY <1>1, QuietType DEF NodesOK, AuthorityOK
  <1>4. results' \in Seq(Grant)
    <2>1. CASE results' = results
      BY <1>1, <2>1 DEF AuthorityOK
    <2>2. ASSUME NEW g \in Issued, results' = Append(results, g)
          PROVE  results' \in Seq(Grant)
      <3>1. PICK e \in committed : e.record.kind = "Grant" /\ g = GrantOf(e)
        BY DEF Issued
      <3>2. g \in Grant
        BY <1>1, <3>1, GrantOfType DEF AuthorityOK
      <3> QED
        BY <1>1, <2>2, <3>2 DEF AuthorityOK
    <2> QED
      BY <2>1, <2>2, QuietEffect
  <1>5. NodesOK'
    <2>1. leader' = {} \/ \E n \in Node : leader' = {n}
      BY <1>1, QuietEffect DEF NodesOK
    <2> QED
      BY <1>1, <1>2, <1>3, <2>1 DEF NodesOK
  <1>6. AuthorityOK'
    BY <1>1, <1>2, <1>3, <1>4 DEF AuthorityOK
  <1>7. EpochsOnDisk' /\ OneLeaderPerTerm'
    BY <1>1, <1>2 DEF EpochsOnDisk, OneLeaderPerTerm
  <1> QED
    BY <1>5, <1>6, <1>7 DEF LeadersInv, CftTypeOK

\* So does an election, whole or failing half way: its term is new.
LEMMA LeadersVote ==
    ASSUME LeadersInv, NEW c \in Node, VoteStep(c)
    PROVE  LeadersInv'
  <1>1. NodesOK /\ AuthorityOK /\ EpochsOnDisk /\ OneLeaderPerTerm
    BY DEF LeadersInv, CftTypeOK
  <1>2. elect(c) \/ elect_fails(c)
    BY DEF VoteStep
  <1>3. /\ NextTerm(c) \in Nat /\ \A n \in Node : term[n] < NextTerm(c)
        /\ UNCHANGED <<alive, log, epoch, grants, results, tick, committed>>
    BY <1>1, <1>2, VotesEffect
  <1>4. PICK voting \in SUBSET Node, stored \in SUBSET Node :
           /\ stored \subseteq voting
           /\ WriteVotes(c, voting, stored)
           /\ leader' = {c} \/ leader' = leader
    BY <1>1, <1>2, VotesEffect
  <1>5. /\ term' = [n \in Node |-> IF n \in voting THEN NextTerm(c) ELSE term[n]]
        /\ disk' = [n \in Node |-> IF n \in stored THEN [term |-> NextTerm(c), log |-> log[n]] ELSE disk[n]]
    BY <1>4 DEF WriteVotes
  <1>6. role' = [n \in Node |-> CASE n \notin voting -> role[n]
                                  [] n \in voting /\ n = c -> "Leader"
                                  [] n \in voting /\ n # c -> FollowerRole(n)]
    BY <1>4 DEF WriteVotes
  <1>7. \A n \in Node : /\ n \notin voting => role'[n] = role[n]
                        /\ n \in voting /\ n = c => role'[n] = "Leader"
                        /\ n \in voting /\ n # c => role'[n] \in {"Follower", "Witness"}
    BY <1>6 DEF FollowerRole
  <1>8. role' \in [Node -> {"Leader", "Follower", "Witness"}]
    <2>1. role' = [n \in Node |-> role'[n]]
      BY <1>6
    <2>2. \A n \in Node : role'[n] \in {"Leader", "Follower", "Witness"}
      BY <1>1, <1>7 DEF NodesOK
    <2> QED
      BY <2>1, <2>2
  <1>9. disk' \in [Node -> [term : Nat, log : Seq(Entry)]] /\ term' \in [Node -> Nat]
    BY <1>1, <1>3, <1>5 DEF NodesOK
  <1>10. NodesOK'
    BY <1>1, <1>3, <1>4, <1>8, <1>9 DEF NodesOK
  <1>11. AuthorityOK'
    BY <1>1, <1>3 DEF AuthorityOK
  <1>12. EpochsOnDisk'
    BY <1>1, <1>3, <1>5 DEF EpochsOnDisk
  <1>13. OneLeaderPerTerm'
    <2> SUFFICES ASSUME NEW m \in Node, NEW n \in Node, m # n,
                        role'[m] = "Leader", role'[n] = "Leader", term'[m] = term'[n]
                 PROVE  FALSE
      BY DEF OneLeaderPerTerm
    <2>1. term[m] \in Nat /\ term[n] \in Nat /\ term[m] < NextTerm(c) /\ term[n] < NextTerm(c)
      BY <1>1, <1>3 DEF NodesOK
    <2>2. m \in voting <=> n \in voting
      BY <1>3, <1>5, <2>1
    <2>3. CASE m \in voting
      BY <1>7, <2>2, <2>3
    <2>4. CASE m \notin voting
      BY <1>1, <1>5, <1>7, <2>2, <2>4 DEF OneLeaderPerTerm
    <2> QED
      BY <2>3, <2>4
  <1> QED
    BY <1>10, <1>11, <1>12, <1>13 DEF LeadersInv, CftTypeOK

\* Taking one element out of a sequence keeps the others, in their order.
LEMMA OneRemoved ==
    ASSUME NEW S, NEW s \in Seq(S), NEW i \in 1..Len(s), NEW r, r = Without(s, i)
    PROVE  /\ r \in Seq(S)
           /\ Len(r) = Len(s) - 1
           /\ \A k \in DOMAIN r : r[k] = s[IF k < i THEN k ELSE k + 1]
  <1>0. Len(s) \in Nat /\ \A k \in 1..Len(s) : s[k] \in S
    OBVIOUS
  <1>1. PICK a : a = SubSeq(s, 1, i - 1)
    OBVIOUS
  <1>2. PICK b : b = SubSeq(s, i + 1, Len(s))
    OBVIOUS
  <1>3. a \in Seq(S) /\ Len(a) = i - 1 /\ \A k \in 1..(i - 1) : a[k] = s[k]
    BY <1>0, <1>1, SubSeqProperties
  <1>4. b \in Seq(S) /\ Len(b) = Len(s) - i /\ \A k \in 1..(Len(s) - i) : b[k] = s[i + k]
    BY <1>0, <1>2, SubSeqProperties
  <1>5. r = a \o b
    BY <1>1, <1>2 DEF Without
  <1>6. /\ r \in Seq(S) /\ Len(r) = Len(a) + Len(b)
        /\ \A k \in 1..(Len(a) + Len(b)) : r[k] = IF k <= Len(a) THEN a[k] ELSE b[k - Len(a)]
    <2>1. a \in Seq(S) /\ b \in Seq(S)
      BY <1>3, <1>4
    <2>2. /\ a \o b \in Seq(S) /\ Len(a \o b) = Len(a) + Len(b)
          /\ \A k \in 1..(Len(a) + Len(b)) : (a \o b)[k] = IF k <= Len(a) THEN a[k] ELSE b[k - Len(a)]
      BY <2>1, ConcatProperties
    <2> QED
      BY <1>5, <2>2
  <1>7. Len(r) = Len(s) - 1 /\ DOMAIN r = 1..(Len(s) - 1)
    <2>1. Len(r) = (i - 1) + (Len(s) - i)
      BY <1>3, <1>4, <1>6
    <2>2. Len(r) = Len(s) - 1
      BY <1>0, <2>1
    <2>3. DOMAIN r = 1..Len(r)
      BY <1>6
    <2> QED
      BY <2>2, <2>3
  <1>8. ASSUME NEW k \in DOMAIN r PROVE r[k] = s[IF k < i THEN k ELSE k + 1]
    <2>1. k \in 1..(Len(a) + Len(b))
      BY <1>6, <1>7
    <2>2. CASE k < i
      <3>1. k <= Len(a) /\ k \in 1..(i - 1)
        BY <1>0, <1>3, <2>1, <2>2
      <3> QED
        BY <1>3, <1>6, <2>1, <2>2, <3>1
    <2>3. CASE ~(k < i)
      <3>0. k \in 1..(Len(s) - 1) /\ Len(a) = i - 1
        BY <1>3, <1>7
      <3>1. ~(k <= Len(a)) /\ k - Len(a) \in 1..(Len(s) - i) /\ i + (k - Len(a)) = k + 1
        BY <1>0, <2>3, <3>0
      <3>2. r[k] = b[k - Len(a)]
        BY <1>6, <2>1, <3>1
      <3> QED
        BY <1>4, <2>3, <3>1, <3>2
    <2> QED
      BY <2>2, <2>3
  <1> QED
    BY <1>6, <1>7, <1>8

\* So does a write that commits.
LEMMA LeadersWrite ==
    ASSUME LeadersInv, NEW n \in Node, WriteStep(n)
    PROVE  LeadersInv'
  <1>1. NodesOK /\ AuthorityOK /\ EpochsOnDisk /\ OneLeaderPerTerm
    BY DEF LeadersInv, CftTypeOK
  <1>2. PICK l \in Node, r \in Record :
           /\ Commits(l, r)
           /\ \/ r.kind # "Grant" /\ grants' = grants
              \/ r.kind = "Grant" /\ grants' = [grants EXCEPT ![r.task] = {GrantOf(NextEntry(l, r))}]
    BY <1>1, WriteEffect DEF WriteStep
  <1>3. UNCHANGED <<alive, cut, leader, role, term, lease, tick>>
    BY <1>1, WriteEffect DEF WriteStep
  <1> DEFINE e == NextEntry(l, r)
  <1>5. e \in Entry /\ e.epoch = epoch + 1 /\ e.record = r
    BY <1>1, NextEntryType
  <1>6. epoch' = epoch + 1 /\ committed' = committed \cup {e}
    BY <1>1, <1>2, CommitEffect
  <1>7. PICK stored \in SUBSET Node :
           log' = PushedLog(stored, e) /\ disk' = PushedDisk(stored, e)
    BY <1>1, <1>2, CommitEffect
  <1>4. \/ grants' = grants
        \/ r.kind = "Grant" /\ grants' = [grants EXCEPT ![r.task] = {GrantOf(e)}]
    BY <1>2
  <1> HIDE DEF e
  <1>8. \A m \in Node : /\ log[m] \in Seq(Entry) /\ Append(log[m], e) \in Seq(Entry)
                        /\ EntriesOf(Append(log[m], e)) = EntriesOf(log[m]) \cup {e}
                        /\ disk[m] \in [term : Nat, log : Seq(Entry)] /\ term[m] \in Nat
    BY <1>1, <1>5, EntriesAppend, LastOfAppend DEF NodesOK
  <1>9. NodesOK'
    <2>1. log' \in [Node -> Seq(Entry)]
      BY <1>7, <1>8 DEF PushedLog
    <2>2. disk' \in [Node -> [term : Nat, log : Seq(Entry)]]
      BY <1>7, <1>8 DEF PushedDisk
    <2> QED
      BY <1>1, <1>3, <2>1, <2>2 DEF NodesOK
  <1>10. AuthorityOK'
    <2>1. results' \in Seq(Grant)
      <3>1. CASE results' = results
        BY <1>1, <3>1 DEF AuthorityOK
      <3>2. ASSUME NEW i \in 1..Len(results), results' = Without(results, i)
            PROVE  results' \in Seq(Grant)
        <4>1. results \in Seq(Grant)
          BY <1>1 DEF AuthorityOK
        <4> QED
          BY <3>2, <4>1, OneRemoved
      <3> QED
        BY <1>1, <3>1, <3>2, WriteEffect DEF WriteStep
    <2>2. grants' \in [Task -> SUBSET Grant]
      <3>1. CASE grants' = grants
        BY <1>1, <3>1 DEF AuthorityOK
      <3>2. CASE r.kind = "Grant" /\ grants' = [grants EXCEPT ![r.task] = {GrantOf(e)}]
        <4>1. GrantOf(e) \in Grant
          BY <1>5, <3>2, GrantOfType
        <4> QED
          BY <1>1, <3>2, <4>1 DEF AuthorityOK
      <3> QED
        BY <1>4, <3>1, <3>2
    <2> QED
      BY <1>1, <1>3, <1>5, <1>6, <2>1, <2>2 DEF AuthorityOK
  <1>11. EpochsOnDisk'
    <2> SUFFICES ASSUME NEW m \in Node, NEW x \in EntriesOf(disk'[m].log) \cup EntriesOf(log'[m])
                 PROVE  x.epoch <= epoch' + 1
      BY DEF EpochsOnDisk
    <2>1. x = e \/ x \in EntriesOf(disk[m].log) \cup EntriesOf(log[m])
      <3>1. CASE m \in stored
        <4>1. log'[m] = Append(log[m], e) /\ disk'[m].log = Append(log[m], e)
          BY <1>7, <3>1 DEF PushedLog, PushedDisk
        <4> QED
          BY <1>8, <4>1
      <3>2. CASE m \notin stored
        BY <1>7, <3>2 DEF PushedLog, PushedDisk
      <3> QED
        BY <3>1, <3>2
    <2>2. epoch \in Nat
      BY <1>1 DEF AuthorityOK
    <2>3. CASE x = e
      BY <1>5, <1>6, <2>2, <2>3
    <2>4. CASE x \in EntriesOf(disk[m].log) \cup EntriesOf(log[m])
      <3>1. x.epoch <= epoch + 1
        BY <1>1, <2>4 DEF EpochsOnDisk
      <3>2. x \in Entry
        BY <1>8, <2>4, LogType
      <3> QED
        BY <1>6, <2>2, <3>1, <3>2 DEF Entry
    <2> QED
      BY <2>1, <2>3, <2>4
  <1>12. OneLeaderPerTerm'
    BY <1>1, <1>3 DEF OneLeaderPerTerm
  <1> QED
    BY <1>9, <1>10, <1>11, <1>12 DEF LeadersInv, CftTypeOK

\* And a write that fails, whatever it leaves in the files.
LEMMA LeadersFailedWrite ==
    ASSUME LeadersInv, NEW l \in Node, propose_fails(l)
    PROVE  LeadersInv'
  <1>1. NodesOK /\ AuthorityOK /\ EpochsOnDisk /\ OneLeaderPerTerm
    BY DEF LeadersInv, CftTypeOK
  <1>2. UNCHANGED <<alive, leader, role, term, log, epoch, grants, results, tick, committed>>
    BY DEF propose_fails, netVars, authority
  <1>3. PICK r \in Proposable, stored \in SUBSET Reachable(l) :
           \E left \in SUBSET stored : disk' = LeftDisk(stored, left, NextEntry(l, r))
    BY DEF propose_fails, LeftDisk
  <1>4. r \in Record
    BY <1>1, <1>3, RecordType DEF Proposable
  <1> DEFINE e == NextEntry(l, r)
  <1>5. PICK left \in SUBSET stored :
           disk' = LeftDisk(stored, left, e)
    BY <1>3
  <1>6. e \in Entry /\ e.epoch = epoch + 1
    BY <1>1, <1>4, NextEntryType
  <1> HIDE DEF e
  <1>7. \A m \in Node : /\ log[m] \in Seq(Entry) /\ Append(log[m], e) \in Seq(Entry)
                        /\ EntriesOf(Append(log[m], e)) = EntriesOf(log[m]) \cup {e}
                        /\ disk[m] \in [term : Nat, log : Seq(Entry)] /\ term[m] \in Nat
    BY <1>1, <1>6, EntriesAppend, LastOfAppend DEF NodesOK
  <1>8. \A m \in Node : \/ disk'[m] = disk[m]
                        \/ disk'[m] = [term |-> term[m], log |-> log[m]]
                        \/ disk'[m] = [term |-> term[m], log |-> Append(log[m], e)]
    BY <1>5 DEF LeftDisk
  <1>9. NodesOK'
    <2>1. ASSUME NEW m \in Node PROVE disk'[m] \in [term : Nat, log : Seq(Entry)]
      <3>1. CASE disk'[m] = disk[m]
        BY <1>7, <3>1
      <3>2. CASE disk'[m] = [term |-> term[m], log |-> log[m]]
        BY <1>7, <3>2
      <3>3. CASE disk'[m] = [term |-> term[m], log |-> Append(log[m], e)]
        BY <1>7, <3>3
      <3> QED
        BY <1>8, <3>1, <3>2, <3>3
    <2>2. disk' = [m \in Node |-> disk'[m]]
      BY <1>5 DEF LeftDisk
    <2>3. disk' \in [Node -> [term : Nat, log : Seq(Entry)]]
      BY <2>1, <2>2
    <2> QED
      BY <1>1, <1>2, <2>3 DEF NodesOK
  <1>10. AuthorityOK' /\ OneLeaderPerTerm'
    BY <1>1, <1>2 DEF AuthorityOK, OneLeaderPerTerm
  <1>11. EpochsOnDisk'
    <2> SUFFICES ASSUME NEW m \in Node, NEW x \in EntriesOf(disk'[m].log) \cup EntriesOf(log[m])
                 PROVE  x.epoch <= epoch + 1
      BY <1>2 DEF EpochsOnDisk
    <2>1. x = e \/ x \in EntriesOf(disk[m].log) \cup EntriesOf(log[m])
      <3>1. \/ disk'[m].log = disk[m].log \/ disk'[m].log = log[m]
            \/ disk'[m].log = Append(log[m], e)
        <4>1. CASE disk'[m] = [term |-> term[m], log |-> log[m]]
          BY <4>1
        <4>2. CASE disk'[m] = [term |-> term[m], log |-> Append(log[m], e)]
          BY <4>2
        <4> QED
          BY <1>8, <4>1, <4>2
      <3>2. EntriesOf(Append(log[m], e)) = EntriesOf(log[m]) \cup {e}
        BY <1>7
      <3> QED
        BY <3>1, <3>2
    <2>2. epoch \in Nat
      BY <1>1 DEF AuthorityOK
    <2> QED
      BY <1>1, <1>6, <2>1, <2>2 DEF EpochsOnDisk
  <1> QED
    BY <1>9, <1>10, <1>11 DEF LeadersInv, CftTypeOK

\* And the recovery of a node, which does not lead afterwards.
LEMMA LeadersRecover ==
    ASSUME LeadersInv, NEW n \in Node, recover(n)
    PROVE  LeadersInv'
  <1>1. NodesOK /\ AuthorityOK /\ EpochsOnDisk /\ OneLeaderPerTerm
    BY DEF LeadersInv, CftTypeOK
  <1>2. UNCHANGED <<leader, epoch, grants, results, tick, committed>> /\ alive' \in SUBSET Node
    BY <1>1 DEF recover, authority, NodesOK
  <1>3. AuthorityOK'
    BY <1>1, <1>2 DEF AuthorityOK
  <1>4. CASE UNCHANGED nodeVars
    BY <1>1, <1>2, <1>3, <1>4
       DEF nodeVars, NodesOK, EpochsOnDisk, OneLeaderPerTerm, LeadersInv, CftTypeOK
  <1>5. ASSUME NEW l \in leader,
               /\ log' = [log EXCEPT ![n] = log[l]]
               /\ term' = [term EXCEPT ![n] = term[l]]
               /\ role' = [role EXCEPT ![n] = FollowerRole(n)]
               /\ \/ disk' = [disk EXCEPT ![n] = [term |-> term[l], log |-> log[l]]]
                  \/ UNCHANGED disk
        PROVE  LeadersInv'
    <2>1. l \in Node
      BY <1>1 DEF NodesOK
    <2>2. log[l] \in Seq(Entry) /\ term[l] \in Nat /\ FollowerRole(n) \in {"Follower", "Witness"}
      BY <1>1, <2>1 DEF NodesOK, FollowerRole
    <2>3. disk' \in [Node -> [term : Nat, log : Seq(Entry)]]
      <3>1. CASE disk' = [disk EXCEPT ![n] = [term |-> term[l], log |-> log[l]]]
        BY <1>1, <2>2, <3>1 DEF NodesOK
      <3>2. CASE UNCHANGED disk
        BY <1>1, <3>2 DEF NodesOK
      <3> QED
        BY <1>5, <3>1, <3>2
    <2>4. NodesOK'
      BY <1>1, <1>2, <1>5, <2>2, <2>3 DEF NodesOK
    <2>5. EpochsOnDisk'
      <3> SUFFICES ASSUME NEW m \in Node, NEW x \in EntriesOf(disk'[m].log) \cup EntriesOf(log'[m])
                   PROVE  x.epoch <= epoch + 1
        BY <1>2 DEF EpochsOnDisk
      <3>1. log'[m] = log[m] \/ log'[m] = log[l]
        BY <1>1, <1>5 DEF NodesOK
      <3>2. disk'[m].log = disk[m].log \/ disk'[m].log = log[l]
        <4>1. CASE disk' = [disk EXCEPT ![n] = [term |-> term[l], log |-> log[l]]]
          BY <1>1, <4>1 DEF NodesOK
        <4> QED
          BY <1>5, <4>1
      <3> QED
        BY <1>1, <2>1, <3>1, <3>2 DEF EpochsOnDisk
    <2>6. OneLeaderPerTerm'
      <3> SUFFICES ASSUME NEW i \in Node, NEW j \in Node,
                          role'[i] = "Leader", role'[j] = "Leader", term'[i] = term'[j]
                   PROVE  i = j
        BY DEF OneLeaderPerTerm
      <3>1. i # n /\ j # n
        BY <1>1, <1>5, <2>2 DEF NodesOK
      <3> QED
        BY <1>1, <1>5, <3>1 DEF OneLeaderPerTerm, NodesOK
    <2> QED
      BY <1>3, <2>4, <2>5, <2>6 DEF LeadersInv, CftTypeOK
  <1> QED
    BY <1>4, <1>5 DEF recover

\* And a reopen, after which no node leads.
LEMMA LeadersRestart ==
    ASSUME LeadersInv, restart
    PROVE  LeadersInv'
  <1>1. NodesOK /\ AuthorityOK /\ EpochsOnDisk /\ CftTypeOK
    BY DEF LeadersInv, CftTypeOK
  <1>2. /\ epoch' \in Nat /\ grants' \in [Task -> SUBSET Grant]
        /\ \A n \in Node : \A e \in EntriesOf(disk[n].log) : e.epoch <= epoch'
    BY <1>1, RestartEffect
  <1>3. /\ alive' = Node /\ leader' = {} /\ results' = <<>>
        /\ role' = [n \in Node |-> FollowerRole(n)]
        /\ term' = [n \in Node |-> disk[n].term]
        /\ log' = [n \in Node |-> disk[n].log]
        /\ UNCHANGED <<disk, tick, committed>>
    BY DEF restart
  <1>4. \A n \in Node : /\ FollowerRole(n) \in {"Follower", "Witness"}
                        /\ disk[n].term \in Nat /\ disk[n].log \in Seq(Entry)
    BY <1>1 DEF NodesOK, FollowerRole
  <1>5. NodesOK'
    BY <1>1, <1>3, <1>4 DEF NodesOK
  <1>6. AuthorityOK'
    BY <1>1, <1>2, <1>3 DEF AuthorityOK
  <1>7. EpochsOnDisk'
    <2> SUFFICES ASSUME NEW n \in Node, NEW x \in EntriesOf(disk[n].log)
                 PROVE  x.epoch <= epoch' + 1
      BY <1>3 DEF EpochsOnDisk
    <2>1. x \in Entry
      BY <1>4, LogType
    <2>2. x.epoch \in Nat
      BY <2>1 DEF Entry
    <2> QED
      BY <1>2, <2>2
  <1>8. OneLeaderPerTerm'
    BY <1>3, <1>4 DEF OneLeaderPerTerm
  <1> QED
    BY <1>5, <1>6, <1>7, <1>8 DEF LeadersInv, CftTypeOK

\* The types and the leaders through every step.
LEMMA LeadersInvariant == Spec => []LeadersInv
  <1>1. LeadersInv /\ [Next]_vars => LeadersInv'
    BY StepCases, LeadersQuiet, LeadersVote, LeadersWrite, LeadersFailedWrite, LeadersRecover, LeadersRestart
  <1> QED
    BY <1>1, LeadersInit, PTL DEF Spec

\* No two nodes believe they lead in the same term, with any faults: an election takes a term
\* above that of every node, a failed one included, and recovery and reopen make followers.
THEOREM LeadersDiffer == Spec => []OneLeaderPerTerm
  <1>1. LeadersInv => OneLeaderPerTerm
    BY DEF LeadersInv
  <1> QED
    BY <1>1, LeadersInvariant, PTL

-----------------------------------------------------------------------------
(* Grants and results.                                                       *)

\* No grant and no result is of a later epoch than the control plane, and no result is of a
\* later epoch than the grant in force for its task.
ResultsInv ==
    /\ \A t \in Task : \A g \in grants[t] : g.epoch <= epoch
    /\ \A i \in DOMAIN results :
          /\ results[i].epoch <= epoch
          /\ \A g \in grants[results[i].task] : results[i].epoch <= g.epoch
    /\ ResultsInGrantOrder

\* Every step keeps the results in the order of their grants.
LEMMA ResultsStep ==
    ASSUME CftTypeOK, ResultsInv, [Next]_vars
    PROVE  ResultsInv'
  <1>1. NodesOK /\ AuthorityOK
    BY DEF CftTypeOK
  <1>2. /\ epoch \in Nat /\ results \in Seq(Grant) /\ grants \in [Task -> SUBSET Grant]
        /\ \A i \in DOMAIN results : results[i].epoch \in Nat /\ results[i].task \in Task
        /\ \A t \in Task : \A g \in grants[t] : g.epoch \in Nat
    <2>1. epoch \in Nat /\ results \in Seq(Grant) /\ grants \in [Task -> SUBSET Grant]
      BY <1>1 DEF AuthorityOK
    <2>2. \A g \in Grant : g.epoch \in Nat /\ g.task \in Task
      BY DEF Grant
    <2>3. \A i \in DOMAIN results : results[i] \in Grant
      BY <2>1
    <2>4. \A t \in Task : grants[t] \subseteq Grant
      BY <2>1
    <2> QED
      BY <2>1, <2>2, <2>3, <2>4
  <1>3. CASE UNCHANGED <<epoch, grants, results>>
    BY <1>3 DEF ResultsInv, ResultsInGrantOrder
  <1>4. CASE restart
    <2>1. results' = <<>> /\ DOMAIN <<>> = {}
      BY <1>4 DEF restart
    <2>2. \A t \in Task : \A g \in grants'[t] : g.epoch <= epoch'
      BY <1>4, RestartEffect
    <2> QED
      BY <2>1, <2>2 DEF ResultsInv, ResultsInGrantOrder
  <1>5. ASSUME NEW g \in Issued, ResultValid(g), results' = Append(results, g), UNCHANGED <<epoch, grants>>
        PROVE  ResultsInv'
    <2>1. g \in Grant
      <3>1. PICK e \in committed : e.record.kind = "Grant" /\ g = GrantOf(e)
        BY DEF Issued
      <3> QED
        BY <1>1, <3>1, GrantOfType DEF AuthorityOK
    <2>2. grants[g.task] = {g} /\ g.task \in Task /\ g.epoch \in Nat
      BY <1>5, <2>1 DEF ResultValid, Grant
    <2>3. g.epoch <= epoch
      BY <2>2 DEF ResultsInv
    <2>4. /\ DOMAIN results = 1..Len(results) /\ DOMAIN results' = 1..(Len(results) + 1)
          /\ \A i \in DOMAIN results : results'[i] = results[i]
          /\ results'[Len(results) + 1] = g /\ Len(results) \in Nat
      BY <1>2, <1>5, <2>1
    <2>5. ASSUME NEW i \in DOMAIN results'
          PROVE  /\ results'[i].epoch <= epoch
                 /\ \A h \in grants[results'[i].task] : results'[i].epoch <= h.epoch
      <3>1. CASE i \in DOMAIN results
        BY <2>4, <3>1 DEF ResultsInv
      <3>2. CASE i = Len(results) + 1
        BY <2>2, <2>3, <2>4, <3>2
      <3> QED
        BY <2>4, <3>1, <3>2
    <2>6. ASSUME NEW i \in DOMAIN results', NEW j \in DOMAIN results',
                 i < j, results'[i].task = results'[j].task
          PROVE  results'[i].epoch <= results'[j].epoch
      <3>1. i \in DOMAIN results
        BY <2>4, <2>6
      <3>2. CASE j \in DOMAIN results
        BY <2>4, <2>6, <3>1, <3>2 DEF ResultsInv, ResultsInGrantOrder
      <3>3. CASE j = Len(results) + 1
        <4>1. results[i].task = g.task
          BY <2>4, <2>6, <3>1, <3>3
        <4>2. results[i].epoch <= g.epoch
          BY <2>2, <3>1, <4>1 DEF ResultsInv
        <4> QED
          BY <2>4, <3>1, <3>3, <4>2
      <3> QED
        BY <2>4, <3>2, <3>3
    <2> QED
      BY <1>5, <2>5, <2>6 DEF ResultsInv, ResultsInGrantOrder
  <1>6. ASSUME NEW n \in Node, WriteStep(n) PROVE ResultsInv'
    <2>1. PICK l \in Node, r \in Record :
             /\ Commits(l, r)
             /\ \/ grants' = grants
                \/ r.kind = "Grant" /\ grants' = [grants EXCEPT ![r.task] = {GrantOf(NextEntry(l, r))}]
      BY <1>1, <1>6, WriteEffect DEF WriteStep
    <2>2. epoch' = epoch + 1
      BY <1>1, <2>1, CommitEffect
    <2>3. CASE results' = results /\ grants' = grants
      BY <1>2, <2>2, <2>3 DEF ResultsInv, ResultsInGrantOrder
    <2>4. CASE /\ results' = results /\ r.kind = "Grant"
               /\ grants' = [grants EXCEPT ![r.task] = {GrantOf(NextEntry(l, r))}]
      <3>1. PICK h : h = GrantOf(NextEntry(l, r))
        OBVIOUS
      <3>2. h.epoch = epoch + 1
        BY <1>1, <2>4, <3>1, NextEntryType, GrantOfType
      <3>3. \A t \in Task : grants'[t] = grants[t] \/ grants'[t] = {h}
        BY <1>2, <2>4, <3>1
      <3>4. \A t \in Task : \A g \in grants'[t] : g.epoch <= epoch'
        BY <1>2, <2>2, <3>2, <3>3 DEF ResultsInv
      <3>5. ASSUME NEW i \in DOMAIN results
            PROVE  /\ results[i].epoch <= epoch'
                   /\ \A g \in grants'[results[i].task] : results[i].epoch <= g.epoch
        <4>1. results[i].task \in Task /\ results[i].epoch \in Nat /\ results[i].epoch <= epoch
          BY <1>2 DEF ResultsInv
        <4>2. \A g \in grants[results[i].task] : results[i].epoch <= g.epoch
          BY DEF ResultsInv
        <4> QED
          BY <1>2, <2>2, <3>2, <3>3, <4>1, <4>2
      <3> QED
        BY <2>4, <3>4, <3>5 DEF ResultsInv, ResultsInGrantOrder
    <2>5. ASSUME NEW i \in 1..Len(results), results' = Without(results, i), grants' = grants
          PROVE  ResultsInv'
      <3>1. /\ Len(results') = Len(results) - 1 /\ results' \in Seq(Grant)
            /\ \A k \in DOMAIN results' : results'[k] = results[IF k < i THEN k ELSE k + 1]
        BY <1>2, <2>5, OneRemoved
      <3>2. DOMAIN results' = 1..(Len(results) - 1) /\ DOMAIN results = 1..Len(results) /\ Len(results) \in Nat
        BY <1>2, <3>1
      <3> DEFINE at(k) == IF k < i THEN k ELSE k + 1
      <3>3. ASSUME NEW k \in DOMAIN results' PROVE at(k) \in DOMAIN results /\ results'[k] = results[at(k)]
        <4>1. at(k) \in 1..Len(results)
          BY <3>2
        <4> QED
          BY <3>1, <3>2, <4>1
      <3>4. ASSUME NEW j \in DOMAIN results', NEW k \in DOMAIN results', j < k PROVE at(j) < at(k)
        BY <3>2, <3>4
      <3> HIDE DEF at
      <3>5. ASSUME NEW k \in DOMAIN results'
            PROVE  /\ results'[k].epoch <= epoch'
                   /\ \A g \in grants'[results'[k].task] : results'[k].epoch <= g.epoch
        <4>1. at(k) \in DOMAIN results /\ results'[k] = results[at(k)]
          BY <3>3
        <4>2. results[at(k)].epoch <= epoch /\ results[at(k)].epoch \in Nat
          BY <1>2, <4>1 DEF ResultsInv
        <4>3. \A g \in grants[results[at(k)].task] : results[at(k)].epoch <= g.epoch
          BY <4>1 DEF ResultsInv
        <4> QED
          BY <1>2, <2>2, <2>5, <4>1, <4>2, <4>3
      <3>6. ResultsInGrantOrder'
        BY <3>3, <3>4 DEF ResultsInv, ResultsInGrantOrder
      <3>7. \A t \in Task : \A g \in grants'[t] : g.epoch <= epoch'
        BY <1>2, <2>2, <2>5 DEF ResultsInv
      <3> QED
        BY <3>5, <3>6, <3>7 DEF ResultsInv
    <2>6. \/ results' = results
          \/ grants' = grants /\ \E i \in 1..Len(results) : results' = Without(results, i)
      BY <1>1, <1>6, WriteEffect DEF WriteStep
    <2> QED
      BY <2>1, <2>3, <2>4, <2>5, <2>6
  <1>7. CASE QuietStep
    BY <1>3, <1>5, <1>7, QuietEffect
  <1>8. ASSUME NEW n \in Node, VoteStep(n) PROVE ResultsInv'
    BY <1>1, <1>3, <1>8, VotesEffect DEF VoteStep
  <1>9. ASSUME NEW n \in Node, recover(n) \/ propose_fails(n) PROVE ResultsInv'
    BY <1>3, <1>9 DEF recover, propose_fails, authority
  <1> QED
    BY <1>4, <1>6, <1>7, <1>8, <1>9, StepCases

\* The results kept for a task come in the order of their grants, with any faults: a result
\* under a grant that was replaced is refused, and a reopen forgets the results with the grants.
THEOREM ResultsStayInOrder == Spec => []ResultsInGrantOrder
  <1>1. Init => ResultsInv
    <2>1. DOMAIN <<>> = {}
      OBVIOUS
    <2> QED
      BY <2>1 DEF Init, ResultsInv, ResultsInGrantOrder
  <1>2. LeadersInv /\ ResultsInv /\ [Next]_vars => ResultsInv'
    BY ResultsStep DEF LeadersInv
  <1>3. ResultsInv => ResultsInGrantOrder
    BY DEF ResultsInv
  <1> QED
    BY <1>1, <1>2, <1>3, LeadersInvariant, PTL DEF Spec

-----------------------------------------------------------------------------
(* Durability.                                                               *)

\* The nodes that have entry e both in their log and in their file.
Keepers(e) == {n \in Node : e \in EntriesOf(log[n]) /\ e \in EntriesOf(disk[n].log)}

\* A quorum keeps every committed record.
KeptInv == \A e \in committed : Cardinality(Keepers(e)) >= Quorum

\* When no node that keeps a record stops keeping it, it stays with a quorum.
LEMMA KeepersStay ==
    ASSUME KeptInv, UNCHANGED committed,
           \A e \in committed : Keepers(e) \subseteq Keepers(e)'
    PROVE  KeptInv'
  <1> SUFFICES ASSUME NEW e \in committed PROVE Cardinality(Keepers(e)') >= Quorum
    BY DEF KeptInv
  <1>1. Keepers(e)' \in SUBSET Node
    BY DEF Keepers
  <1>2. Cardinality(Keepers(e)) >= Quorum /\ Keepers(e) \subseteq Keepers(e)'
    BY DEF KeptInv
  <1> QED
    BY <1>1, <1>2, QuorumGrows

\* Every step but a recovery keeps the committed records with a quorum.
LEMMA KeptStep ==
    ASSUME CftTypeOK, KeptInv, [Next]_vars, "rejoin" \notin Faults
    PROVE  KeptInv'
  <1>1. NodesOK /\ AuthorityOK
    BY DEF CftTypeOK
  <1>2. CASE UNCHANGED <<log, disk, committed>>
    BY <1>2 DEF KeptInv, Keepers
  <1>3. CASE QuietStep
    BY <1>2, <1>3, QuietEffect
  <1>4. ASSUME NEW c \in Node, VoteStep(c) PROVE KeptInv'
    <2>1. log' = log /\ committed' = committed
      BY <1>1, <1>4, VotesEffect DEF VoteStep
    <2>2. PICK voting \in SUBSET Node, stored \in SUBSET Node : WriteVotes(c, voting, stored)
      BY <1>1, <1>4, VotesEffect DEF VoteStep
    <2>3. \A n \in Node : disk'[n] = disk[n] \/ disk'[n] = [term |-> NextTerm(c), log |-> log[n]]
      BY <2>2 DEF WriteVotes
    <2>4. ASSUME NEW n \in Node PROVE disk'[n].log = disk[n].log \/ disk'[n].log = log[n]
      <3>1. CASE disk'[n] = [term |-> NextTerm(c), log |-> log[n]]
        BY <3>1
      <3> QED
        BY <2>3, <3>1
    <2>5. \A e \in committed : Keepers(e) \subseteq Keepers(e)'
      BY <2>1, <2>4 DEF Keepers
    <2> QED
      BY <2>1, <2>5, KeepersStay
  <1>5. ASSUME NEW l \in Node, propose_fails(l) PROVE KeptInv'
    <2>1. log' = log /\ committed' = committed
      BY <1>5 DEF propose_fails
    <2>2. PICK r \in Proposable, stored \in SUBSET Reachable(l) :
             \E left \in SUBSET stored : disk' = LeftDisk(stored, left, NextEntry(l, r))
      BY <1>5 DEF propose_fails, LeftDisk
    <2> DEFINE x == NextEntry(l, r)
    <2>3. PICK left \in SUBSET stored : disk' = LeftDisk(stored, left, x)
      BY <2>2
    <2> HIDE DEF x
    <2>4. \A n \in Node : \/ disk'[n] = disk[n]
                          \/ disk'[n] = [term |-> term[n], log |-> log[n]]
                          \/ disk'[n] = [term |-> term[n], log |-> Append(log[n], x)]
      BY <2>3 DEF LeftDisk
    <2>5. \A n \in Node : \/ disk'[n].log = disk[n].log
                          \/ disk'[n].log = log[n]
                          \/ disk'[n].log = Append(log[n], x)
      <3> SUFFICES ASSUME NEW n \in Node
                   PROVE  \/ disk'[n].log = disk[n].log
                          \/ disk'[n].log = log[n]
                          \/ disk'[n].log = Append(log[n], x)
        OBVIOUS
      <3>1. CASE disk'[n] = [term |-> term[n], log |-> log[n]]
        BY <3>1
      <3>2. CASE disk'[n] = [term |-> term[n], log |-> Append(log[n], x)]
        BY <3>2
      <3> QED
        BY <2>4, <3>1, <3>2
    <2>6. \A n \in Node : EntriesOf(Append(log[n], x)) = EntriesOf(log[n]) \cup {x}
      BY <1>1, EntriesAppend DEF NodesOK
    <2>7. \A e \in committed : Keepers(e) \subseteq Keepers(e)'
      BY <2>1, <2>5, <2>6 DEF Keepers
    <2> QED
      BY <2>1, <2>7, KeepersStay
  <1>6. CASE restart
    <2>1. committed' = committed /\ disk' = disk /\ \A n \in Node : log'[n] = disk[n].log
      BY <1>6 DEF restart
    <2>2. \A e \in committed : Keepers(e) \subseteq Keepers(e)'
      BY <2>1 DEF Keepers
    <2> QED
      BY <2>1, <2>2, KeepersStay
  <1>7. ASSUME NEW n \in Node, WriteStep(n) PROVE KeptInv'
    <2>1. PICK l \in Node, r \in Record : Commits(l, r)
      BY <1>1, <1>7, WriteEffect DEF WriteStep
    <2>x. PICK x : x = NextEntry(l, r)
      OBVIOUS
    <2>2. committed' = committed \cup {x}
      BY <1>1, <2>1, <2>x, CommitEffect
    <2>y. PICK stored \in SUBSET Node :
             /\ Cardinality(stored) >= Quorum
             /\ log' = PushedLog(stored, NextEntry(l, r)) /\ disk' = PushedDisk(stored, NextEntry(l, r))
      BY <1>1, <2>1, CommitEffect
    <2>3. /\ Cardinality(stored) >= Quorum
          /\ log' = PushedLog(stored, x) /\ disk' = PushedDisk(stored, x)
      BY <2>x, <2>y
    <2>4. \A m \in stored : log'[m] = Append(log[m], x) /\ disk'[m].log = Append(log[m], x)
      BY <2>3, <2>y DEF PushedLog, PushedDisk
    <2>5. \A m \in Node \ stored : log'[m] = log[m] /\ disk'[m] = disk[m]
      BY <2>3 DEF PushedLog, PushedDisk
    <2>6. \A m \in Node : EntriesOf(Append(log[m], x)) = EntriesOf(log[m]) \cup {x}
      BY <1>1, EntriesAppend DEF NodesOK
    <2>7. \A e : Keepers(e) \subseteq Keepers(e)'
      BY <2>4, <2>5, <2>6 DEF Keepers
    <2>8. stored \subseteq Keepers(x)'
      BY <2>4, <2>6 DEF Keepers
    <2>9. ASSUME NEW e \in committed' PROVE Cardinality(Keepers(e)') >= Quorum
      <3>1. Keepers(e)' \in SUBSET Node
        BY DEF Keepers
      <3>2. CASE e = x
        BY <2>3, <2>8, <3>1, <3>2, QuorumGrows
      <3>3. CASE e \in committed
        <4>1. Cardinality(Keepers(e)) >= Quorum /\ Keepers(e) \subseteq Keepers(e)'
          BY <2>7, <3>3 DEF KeptInv
        <4> QED
          BY <3>1, <4>1, QuorumGrows
      <3> QED
        BY <2>2, <2>9, <3>2, <3>3
    <2> QED
      BY <2>9 DEF KeptInv
  <1>8. \A n \in Node : ~recover(n)
    BY DEF recover
  <1> QED
    BY <1>3, <1>4, <1>5, <1>6, <1>7, <1>8, StepCases

\* A committed record stays in the files of a majority, through failed writes, rollbacks and
\* elections that fail half way, and any number of reopens.  (A recovery replaces a node's log
\* by the leader's, which may have a gap.)
THEOREM MajorityKeepsStoring ==
    ASSUME "rejoin" \notin Faults
    PROVE  Spec => []MajorityStores
  <1>1. Init => KeptInv
    BY DEF Init, KeptInv
  <1>2. LeadersInv /\ KeptInv /\ [Next]_vars => KeptInv'
    BY KeptStep DEF LeadersInv
  <1>3. KeptInv => MajorityStores
    <2> SUFFICES ASSUME KeptInv, NEW e \in committed
                 PROVE  Cardinality({n \in Node : e \in EntriesOf(disk[n].log)}) >= Quorum
      BY DEF MajorityStores
    <2>1. PICK T : T = {n \in Node : e \in EntriesOf(disk[n].log)}
      OBVIOUS
    <2>2. T \in SUBSET Node /\ Keepers(e) \subseteq T /\ Cardinality(Keepers(e)) >= Quorum
      BY <2>1 DEF Keepers, KeptInv
    <2>3. Cardinality(T) >= Quorum
      BY <2>2, QuorumGrows
    <2> QED
      BY <2>1, <2>3
  <1> QED
    BY <1>1, <1>2, <1>3, LeadersInvariant, PTL DEF Spec

-----------------------------------------------------------------------------
(* The order of the commits.                                                 *)

\* The nodes whose log ends at the index of entry e or behind it.
Ahead(e) == {n \in Node : e.index <= LastIndex(log[n])}

\* Every file holds the term and the log of its node.
FilesCurrent == \A n \in Node : disk[n].log = log[n] /\ disk[n].term = term[n]

\* No log has an entry that was not committed, and no committed record is of a later epoch.
OnlyCommitted ==
    /\ \A n \in Node : EntriesOf(log[n]) \subseteq committed
    /\ \A e \in committed : e.epoch <= epoch

\* A quorum is as far as every committed record, and some node is in its term.
QuorumAhead ==
    \A e \in committed :
        /\ Cardinality(Ahead(e)) >= Quorum
        /\ \E n \in Node : e.term <= term[n]

\* A leader is as far as every committed record, in index and in term.
LeaderAhead ==
    \A l \in leader, e \in committed : e.index <= LastIndex(log[l]) /\ e.term <= term[l]

OrderInv == FilesCurrent /\ OnlyCommitted /\ QuorumAhead /\ LeaderAhead /\ CommitsOrdered

\* A quorum is not empty.
LEMMA SomeAhead ==
    ASSUME QuorumAhead, NEW e \in committed
    PROVE  \E n \in Node : e.index <= LastIndex(log[n])
  <1>1. Ahead(e) \in SUBSET Node /\ Cardinality(Ahead(e)) >= Quorum
    BY DEF QuorumAhead, Ahead
  <1>2. Ahead(e) \cap Ahead(e) # {}
    BY <1>1, QuorumsMeet
  <1> QED
    BY <1>2 DEF Ahead

\* An election keeps the order: the quorum that votes meets the quorum that is ahead.
LEMMA OrderVote ==
    ASSUME CftTypeOK, OrderInv, NEW c \in Node, VoteStep(c), "storage" \notin Faults
    PROVE  OrderInv'
  <1>1. NodesOK /\ AuthorityOK
    BY DEF CftTypeOK
  <1>2. /\ NextTerm(c) \in Nat /\ \A n \in Node : term[n] < NextTerm(c)
        /\ UNCHANGED <<log, epoch, committed>>
    BY <1>1, VotesEffect DEF VoteStep
  <1>3. PICK voting \in SUBSET Node, stored \in SUBSET Node :
           /\ \A n \in voting : LastIndex(log[n]) <= LastIndex(log[c])
           /\ WriteVotes(c, voting, stored)
           /\ leader' = {c} /\ Cardinality(voting) >= Quorum
           /\ stored = voting /\ c \in voting
    BY <1>1, VotesEffect DEF VoteStep
  <1>4. \A n \in Node : /\ term'[n] = IF n \in voting THEN NextTerm(c) ELSE term[n]
                        /\ disk'[n] = IF n \in voting THEN [term |-> NextTerm(c), log |-> log[n]] ELSE disk[n]
    BY <1>3 DEF WriteVotes
  <1>5. ASSUME NEW n \in Node PROVE term[n] \in Nat /\ term'[n] \in Nat /\ term[n] <= term'[n]
    <2>1. term[n] \in Nat /\ NextTerm(c) \in Nat /\ term[n] < NextTerm(c)
      BY <1>1, <1>2 DEF NodesOK
    <2>2. term'[n] = NextTerm(c) \/ term'[n] = term[n]
      BY <1>4
    <2> QED
      BY <2>1, <2>2
  <1>6. \A e \in committed : e.term \in Nat /\ e.index \in Nat
    BY <1>1 DEF AuthorityOK, Entry
  <1>7. FilesCurrent'
    <2> SUFFICES ASSUME NEW n \in Node PROVE disk'[n].log = log[n] /\ disk'[n].term = term'[n]
      BY <1>2 DEF FilesCurrent
    <2>1. CASE n \in voting
      <3>1. disk'[n] = [term |-> NextTerm(c), log |-> log[n]] /\ term'[n] = NextTerm(c)
        BY <1>4, <2>1
      <3> QED
        BY <3>1
    <2>2. CASE n \notin voting
      BY <1>4, <2>2 DEF OrderInv, FilesCurrent
    <2> QED
      BY <2>1, <2>2
  <1>8. OnlyCommitted' /\ CommitsOrdered'
    BY <1>2 DEF OrderInv, OnlyCommitted, CommitsOrdered
  <1>9. QuorumAhead'
    <2> SUFFICES ASSUME NEW e \in committed
                 PROVE  Cardinality(Ahead(e)') >= Quorum /\ \E n \in Node : e.term <= term'[n]
      BY <1>2 DEF QuorumAhead
    <2>1. Ahead(e)' = Ahead(e)
      BY <1>2 DEF Ahead
    <2>2. PICK n \in Node : e.term <= term[n]
      BY DEF OrderInv, QuorumAhead
    <2>3. e.term <= term'[n]
      BY <1>5, <1>6, <2>2
    <2> QED
      BY <2>1, <2>3 DEF OrderInv, QuorumAhead
  <1>10. LeaderAhead'
    <2> SUFFICES ASSUME NEW e \in committed
                 PROVE  e.index <= LastIndex(log[c]) /\ e.term <= term'[c]
      BY <1>2, <1>3 DEF LeaderAhead
    <2>1. Ahead(e) \in SUBSET Node /\ Cardinality(Ahead(e)) >= Quorum
      BY DEF OrderInv, QuorumAhead, Ahead
    <2>2. PICK n \in Node : n \in Ahead(e) /\ n \in voting
      BY <1>3, <2>1, QuorumsMeet
    <2>3. LastIndex(log[n]) \in Nat /\ LastIndex(log[c]) \in Nat
      BY <1>1, LogType DEF NodesOK
    <2>4. e.index <= LastIndex(log[n]) /\ LastIndex(log[n]) <= LastIndex(log[c])
      BY <1>3, <2>2 DEF Ahead
    <2>5. PICK m \in Node : e.term <= term[m]
      BY DEF OrderInv, QuorumAhead
    <2>6. term'[c] = NextTerm(c) /\ term[m] \in Nat /\ term[m] < NextTerm(c)
      BY <1>2, <1>3, <1>4, <1>5
    <2> QED
      BY <1>2, <1>6, <2>3, <2>4, <2>5, <2>6
  <1> QED
    BY <1>7, <1>8, <1>9, <1>10 DEF OrderInv

\* A write keeps the order: its entry is behind every committed record.
LEMMA OrderWrite ==
    ASSUME CftTypeOK, OrderInv, NEW n \in Node, WriteStep(n), "storage" \notin Faults
    PROVE  OrderInv'
  <1>1. NodesOK /\ AuthorityOK
    BY DEF CftTypeOK
  <1>2. PICK l \in Node, r \in Record : Commits(l, r)
    BY <1>1, WriteEffect DEF WriteStep
  <1>3. leader' = leader /\ term' = term
    BY <1>1, WriteEffect DEF WriteStep
  <1>4. PICK x : x = NextEntry(l, r)
    OBVIOUS
  <1>5. /\ x \in Entry /\ x.index = LastIndex(log[l]) + 1 /\ x.term = term[l] /\ x.epoch = epoch + 1
        /\ leader = {l} /\ epoch' = epoch + 1 /\ committed' = committed \cup {x}
    BY <1>1, <1>2, <1>4, NextEntryType, CommitEffect
  <1>6. PICK stored \in SUBSET Node :
           /\ Cardinality(stored) >= Quorum /\ l \in stored
           /\ log' = PushedLog(stored, NextEntry(l, r)) /\ disk' = PushedDisk(stored, NextEntry(l, r))
    BY <1>1, <1>2, CommitEffect
  <1>7. log' = PushedLog(stored, x) /\ disk' = PushedDisk(stored, x)
    BY <1>4, <1>6
  <1>8. /\ \A m \in stored : log'[m] = Append(log[m], x)
        /\ \A m \in stored : disk'[m] = [term |-> term[m], log |-> Append(log[m], x)]
        /\ \A m \in Node \ stored : log'[m] = log[m] /\ disk'[m] = disk[m]
    BY <1>6, <1>7 DEF PushedLog, PushedDisk
  <1>9. \A m \in Node : /\ log[m] \in Seq(Entry) /\ LastIndex(log[m]) \in Nat
                        /\ EntriesOf(Append(log[m], x)) = EntriesOf(log[m]) \cup {x}
                        /\ LastIndex(Append(log[m], x)) = x.index
    BY <1>1, <1>5, LogType, EntriesAppend, LastOfAppend DEF NodesOK
  <1>10. /\ epoch \in Nat /\ term[l] \in Nat /\ x.index \in Nat
         /\ \A e \in committed : e.index \in Nat /\ e.term \in Nat /\ e.epoch \in Nat
    BY <1>1, <1>5 DEF AuthorityOK, NodesOK, Entry
  <1>11. \A e \in committed : e.index < x.index /\ e.term <= x.term /\ e.epoch < x.epoch
    <2> SUFFICES ASSUME NEW e \in committed
                 PROVE  e.index < x.index /\ e.term <= x.term /\ e.epoch < x.epoch
      OBVIOUS
    <2>1. e.index <= LastIndex(log[l]) /\ e.term <= term[l] /\ e.epoch <= epoch
      BY <1>5 DEF OrderInv, LeaderAhead, OnlyCommitted
    <2> QED
      BY <1>5, <1>9, <1>10, <2>1
  <1>12. FilesCurrent'
    <2> SUFFICES ASSUME NEW m \in Node PROVE disk'[m].log = log'[m] /\ disk'[m].term = term[m]
      BY <1>3 DEF FilesCurrent
    <2>1. CASE m \in stored
      <3>1. log'[m] = Append(log[m], x) /\ disk'[m] = [term |-> term[m], log |-> Append(log[m], x)]
        BY <1>8, <2>1
      <3> QED
        BY <3>1
    <2>2. CASE m \notin stored
      BY <1>8, <2>2 DEF OrderInv, FilesCurrent
    <2> QED
      BY <2>1, <2>2
  <1>13. OnlyCommitted'
    <2>1. ASSUME NEW m \in Node PROVE EntriesOf(log'[m]) \subseteq committed'
      <3>1. EntriesOf(log[m]) \subseteq committed
        BY DEF OrderInv, OnlyCommitted
      <3>2. EntriesOf(log'[m]) = EntriesOf(log[m]) \/ EntriesOf(log'[m]) = EntriesOf(log[m]) \cup {x}
        BY <1>8, <1>9
      <3> QED
        BY <1>5, <3>1, <3>2
    <2>2. \A e \in committed' : e.epoch <= epoch'
      BY <1>5, <1>10, <1>11
    <2> QED
      BY <2>1, <2>2 DEF OnlyCommitted
  <1>14. QuorumAhead'
    <2>1. \A m \in stored : LastIndex(log'[m]) = x.index
      BY <1>6, <1>8, <1>9
    <2>2. stored \subseteq Ahead(x)'
      BY <1>6, <1>10, <2>1 DEF Ahead
    <2>3. ASSUME NEW e \in committed PROVE Ahead(e) \subseteq Ahead(e)'
      <3> SUFFICES ASSUME NEW m \in Node, e.index <= LastIndex(log[m])
                   PROVE  e.index <= LastIndex(log'[m])
        BY DEF Ahead
      <3>1. CASE m \in stored
        BY <1>10, <1>11, <2>1, <3>1
      <3>2. CASE m \notin stored
        BY <1>8, <3>2
      <3> QED
        BY <3>1, <3>2
    <2>4. ASSUME NEW e \in committed' PROVE Cardinality(Ahead(e)') >= Quorum
      <3>1. Ahead(e)' \in SUBSET Node
        BY DEF Ahead
      <3>2. CASE e = x
        BY <1>6, <2>2, <3>1, <3>2, QuorumGrows
      <3>3. CASE e \in committed
        <4>1. Cardinality(Ahead(e)) >= Quorum /\ Ahead(e) \subseteq Ahead(e)'
          BY <2>3, <3>3 DEF OrderInv, QuorumAhead
        <4> QED
          BY <3>1, <4>1, QuorumGrows
      <3> QED
        BY <1>5, <3>2, <3>3
    <2>5. \A e \in committed' : \E m \in Node : e.term <= term'[m]
      <3>1. x.term <= term[l]
        BY <1>5, <1>10
      <3> QED
        BY <1>3, <1>5, <3>1 DEF OrderInv, QuorumAhead
    <2> QED
      BY <2>4, <2>5 DEF QuorumAhead
  <1>15. LeaderAhead'
    <2>1. LastIndex(log'[l]) = x.index
      BY <1>6, <1>8, <1>9
    <2> SUFFICES ASSUME NEW e \in committed'
                 PROVE  e.index <= LastIndex(log'[l]) /\ e.term <= term[l]
      BY <1>3, <1>5 DEF LeaderAhead
    <2> QED
      BY <1>5, <1>10, <1>11, <2>1
  <1>16. CommitsOrdered'
    <2> SUFFICES ASSUME NEW e \in committed', NEW f \in committed', e.epoch < f.epoch
                 PROVE  e.index < f.index /\ e.term <= f.term
      BY DEF CommitsOrdered
    <2>1. CASE e \in committed /\ f \in committed
      BY <2>1 DEF OrderInv, CommitsOrdered
    <2>2. CASE e \in committed /\ f = x
      BY <1>11, <2>2
    <2>3. CASE e = x
      <3>1. f.epoch <= x.epoch /\ f.epoch \in Nat /\ x.epoch \in Nat
        BY <1>5, <1>10, <1>11
      <3> QED
        BY <2>3, <3>1
    <2> QED
      BY <1>5, <2>1, <2>2, <2>3
  <1> QED
    BY <1>12, <1>13, <1>14, <1>15, <1>16 DEF OrderInv

\* A recovery keeps the order: the node takes over a log and a term that are ahead.
LEMMA OrderRecover ==
    ASSUME CftTypeOK, OrderInv, NEW n \in Node, recover(n), "storage" \notin Faults
    PROVE  OrderInv'
  <1>1. NodesOK /\ AuthorityOK
    BY DEF CftTypeOK
  <1>2. UNCHANGED <<leader, epoch, committed>>
    BY DEF recover, authority
  <1>3. CASE UNCHANGED nodeVars
    BY <1>2, <1>3 DEF nodeVars, OrderInv, FilesCurrent, OnlyCommitted, QuorumAhead, Ahead, LeaderAhead,
                      CommitsOrdered
  <1>4. ASSUME NEW l \in leader,
               /\ log' = [log EXCEPT ![n] = log[l]]
               /\ term' = [term EXCEPT ![n] = term[l]]
               /\ disk' = [disk EXCEPT ![n] = [term |-> term[l], log |-> log[l]]]
        PROVE  OrderInv'
    <2>1. l \in Node
      BY <1>1 DEF NodesOK
    <2>2. /\ log'[n] = log[l] /\ term'[n] = term[l]
          /\ disk'[n] = [term |-> term[l], log |-> log[l]]
          /\ \A m \in Node \ {n} : log'[m] = log[m] /\ term'[m] = term[m] /\ disk'[m] = disk[m]
      BY <1>1, <1>4 DEF NodesOK
    <2>3. log'[l] = log[l] /\ term'[l] = term[l]
      BY <2>1, <2>2
    <2>4. FilesCurrent'
      <3> SUFFICES ASSUME NEW m \in Node PROVE disk'[m].log = log'[m] /\ disk'[m].term = term'[m]
        BY DEF FilesCurrent
      <3>1. CASE m = n
        BY <2>2, <3>1
      <3>2. CASE m # n
        BY <2>2, <3>2 DEF OrderInv, FilesCurrent
      <3> QED
        BY <3>1, <3>2
    <2>5. OnlyCommitted'
      BY <1>2, <2>1, <2>2 DEF OrderInv, OnlyCommitted
    <2>6. QuorumAhead'
      <3> SUFFICES ASSUME NEW e \in committed
                   PROVE  Cardinality(Ahead(e)') >= Quorum /\ \E m \in Node : e.term <= term'[m]
        BY <1>2 DEF QuorumAhead
      <3>1. e.index <= LastIndex(log[l]) /\ e.term <= term[l]
        BY DEF OrderInv, LeaderAhead
      <3>2. Ahead(e) \subseteq Ahead(e)'
        BY <2>2, <3>1 DEF Ahead
      <3>3. Ahead(e)' \in SUBSET Node /\ Cardinality(Ahead(e)) >= Quorum
        BY DEF OrderInv, QuorumAhead, Ahead
      <3>4. Cardinality(Ahead(e)') >= Quorum
        BY <3>2, <3>3, QuorumGrows
      <3> QED
        BY <2>1, <2>3, <3>1, <3>4
    <2>7. LeaderAhead'
      <3>1. \A m \in leader : m = l
        BY <1>1 DEF NodesOK
      <3> QED
        BY <1>2, <2>3, <3>1 DEF OrderInv, LeaderAhead
    <2>8. CommitsOrdered'
      BY <1>2 DEF OrderInv, CommitsOrdered
    <2> QED
      BY <2>4, <2>5, <2>6, <2>7, <2>8 DEF OrderInv
  <1> QED
    BY <1>3, <1>4 DEF recover

\* A reopen keeps the order: the epoch is read from files that are as far as every record.
LEMMA OrderRestart ==
    ASSUME CftTypeOK, OrderInv, restart
    PROVE  OrderInv'
  <1>1. NodesOK /\ AuthorityOK
    BY DEF CftTypeOK
  <1>2. leader' = {} /\ committed' = committed /\ disk' = disk
    BY DEF restart
  <1>3. \A n \in Node : log'[n] = log[n] /\ term'[n] = term[n]
    BY DEF restart, OrderInv, FilesCurrent
  <1>4. epoch' \in Nat /\ \A n \in Node : \A e \in EntriesOf(log[n]) : e.epoch <= epoch'
    BY RestartEffect DEF OrderInv, FilesCurrent
  <1>5. ASSUME NEW e \in committed PROVE e.epoch <= epoch'
    <2>1. PICK n \in Node : e.index <= LastIndex(log[n])
      BY SomeAhead DEF OrderInv
    <2>2. e \in Entry /\ e.index \in Nat \ {0} /\ e.epoch \in Nat
      BY <1>1 DEF AuthorityOK, Entry
    <2>3. log[n] \in Seq(Entry)
      BY <1>1 DEF NodesOK
    <2>4. log[n] # <<>>
      BY <2>1, <2>2 DEF LastIndex
    <2>5. PICK g : g = log[n][Len(log[n])]
      OBVIOUS
    <2>6. g \in EntriesOf(log[n]) /\ LastIndex(log[n]) = g.index
      BY <2>3, <2>4, <2>5, LogType
    <2>7. g \in committed /\ g.epoch <= epoch'
      BY <1>4, <2>6 DEF OrderInv, OnlyCommitted
    <2>8. g.index \in Nat /\ g.epoch \in Nat
      BY <1>1, <2>7 DEF AuthorityOK, Entry
    <2>9. ~(g.epoch < e.epoch)
      <3>1. SUFFICES ASSUME g.epoch < e.epoch PROVE FALSE
        OBVIOUS
      <3>2. g.index < e.index
        BY <2>7, <3>1 DEF OrderInv, CommitsOrdered
      <3> QED
        BY <2>1, <2>2, <2>6, <2>8, <3>2
    <2> QED
      BY <1>4, <2>2, <2>7, <2>8, <2>9
  <1>6. FilesCurrent'
    BY <1>2, <1>3 DEF OrderInv, FilesCurrent
  <1>7. OnlyCommitted'
    BY <1>2, <1>3, <1>5 DEF OrderInv, OnlyCommitted
  <1>8. QuorumAhead'
    BY <1>2, <1>3 DEF OrderInv, QuorumAhead, Ahead
  <1>9. LeaderAhead' /\ CommitsOrdered'
    BY <1>2 DEF LeaderAhead, OrderInv, CommitsOrdered
  <1> QED
    BY <1>6, <1>7, <1>8, <1>9 DEF OrderInv

\* Every step keeps the commits in order as long as no file fails.
LEMMA OrderStep ==
    ASSUME CftTypeOK, OrderInv, [Next]_vars, "storage" \notin Faults
    PROVE  OrderInv'
  <1>1. CASE QuietStep
    <2>1. UNCHANGED <<term, log, disk, epoch, committed>> /\ (leader' = leader \/ leader' = {})
      BY <1>1, QuietEffect
    <2>2. FilesCurrent' /\ OnlyCommitted' /\ CommitsOrdered'
      BY <2>1 DEF OrderInv, FilesCurrent, OnlyCommitted, CommitsOrdered
    <2>3. QuorumAhead'
      BY <2>1 DEF OrderInv, QuorumAhead, Ahead
    <2>4. LeaderAhead'
      BY <2>1 DEF OrderInv, LeaderAhead
    <2> QED
      BY <2>2, <2>3, <2>4 DEF OrderInv
  <1>2. \A n \in Node : ~propose_fails(n)
    BY DEF propose_fails
  <1> QED
    BY <1>1, <1>2, StepCases, OrderVote, OrderWrite, OrderRecover, OrderRestart

\* The order through every step.
LEMMA OrderInvariant ==
    ASSUME "storage" \notin Faults
    PROVE  Spec => []OrderInv
  <1>1. Init => OrderInv
    <2> SUFFICES ASSUME Init PROVE OrderInv
      OBVIOUS
    <2>1. EntriesOf(<<>>) = {}
      BY DEF EntriesOf
    <2>2. committed = {} /\ \A n \in Node : log[n] = <<>> /\ disk[n] = [term |-> 0, log |-> <<>>] /\ term[n] = 0
      BY DEF Init
    <2> QED
      BY <2>1, <2>2 DEF OrderInv, FilesCurrent, OnlyCommitted, QuorumAhead, LeaderAhead, CommitsOrdered
  <1>2. LeadersInv /\ OrderInv /\ [Next]_vars => OrderInv'
    BY OrderStep DEF LeadersInv
  <1> QED
    BY <1>1, <1>2, LeadersInvariant, PTL DEF Spec

\* Commits are totally ordered as long as no file fails: a later epoch has a later index and no
\* earlier term, through kills, partitions, elections, recoveries and reopens.
THEOREM CommitsStayOrdered ==
    ASSUME "storage" \notin Faults
    PROVE  Spec => []CommitsOrdered
  <1>1. OrderInv => CommitsOrdered
    BY DEF OrderInv
  <1> QED
    BY <1>1, OrderInvariant, PTL

-----------------------------------------------------------------------------
(* The grant in force.                                                       *)

\* No two committed records have the same epoch.
EpochsDiffer == \A e, f \in committed : e.epoch = f.epoch => e = f

\* A write takes an epoch above that of every committed record.
LEMMA EpochsDifferStep ==
    ASSUME CftTypeOK, OrderInv, EpochsDiffer, [Next]_vars
    PROVE  EpochsDiffer'
  <1>1. NodesOK /\ AuthorityOK
    BY DEF CftTypeOK
  <1>2. CASE UNCHANGED committed
    BY <1>2 DEF EpochsDiffer
  <1>3. ASSUME NEW n \in Node, WriteStep(n) PROVE EpochsDiffer'
    <2>1. PICK l \in Node, r \in Record : Commits(l, r)
      BY <1>1, <1>3, WriteEffect DEF WriteStep
    <2>2. PICK x : x = NextEntry(l, r)
      OBVIOUS
    <2>3. x.epoch = epoch + 1 /\ committed' = committed \cup {x}
      BY <1>1, <2>1, <2>2, NextEntryType, CommitEffect
    <2>4. epoch \in Nat /\ \A e \in committed : e.epoch \in Nat /\ e.epoch <= epoch
      BY <1>1 DEF AuthorityOK, Entry, OrderInv, OnlyCommitted
    <2>5. \A e \in committed : e.epoch # x.epoch
      BY <2>3, <2>4
    <2> QED
      BY <2>3, <2>5 DEF EpochsDiffer
  <1>4. CASE QuietStep
    BY <1>2, <1>4, QuietEffect
  <1>5. ASSUME NEW n \in Node, VoteStep(n) PROVE EpochsDiffer'
    BY <1>1, <1>2, <1>5, VotesEffect DEF VoteStep
  <1>6. ASSUME NEW n \in Node, recover(n) \/ propose_fails(n) PROVE EpochsDiffer'
    BY <1>2, <1>6 DEF recover, propose_fails
  <1>7. CASE restart
    BY <1>2, <1>7 DEF restart
  <1> QED
    BY <1>3, <1>4, <1>5, <1>6, <1>7, StepCases

\* A file that is behind no other and has no gap has every committed record, at the place of
\* its index.
LEMMA FurthestHasAll ==
    ASSUME CftTypeOK, OrderInv, EpochsDiffer, GapFree,
           NEW n \in Node, Furthest(n), NEW e \in committed
    PROVE  e.index \in DOMAIN disk[n].log /\ disk[n].log[e.index] = e
  <1>1. NodesOK /\ AuthorityOK
    BY DEF CftTypeOK
  <1>2. \A m \in Node : disk[m].log = log[m] /\ log[m] \in Seq(Entry)
    BY <1>1 DEF OrderInv, FilesCurrent, NodesOK
  <1>3. PICK m \in Node : e.index <= LastIndex(log[m])
    BY SomeAhead DEF OrderInv
  <1>4. e.index \in Nat \ {0}
    BY <1>1 DEF AuthorityOK, Entry
  <1>5. LastIndex(log[m]) \in Nat /\ LastIndex(log[n]) \in Nat
    BY <1>2, LogType
  <1>6. e.index <= LastIndex(log[n])
    BY <1>2, <1>3, <1>4, <1>5 DEF Furthest
  <1>7. log[n] # <<>>
    BY <1>4, <1>6 DEF LastIndex
  <1>8. Len(log[n]) \in DOMAIN log[n] /\ DOMAIN log[n] = 1..Len(log[n]) /\ Len(log[n]) \in Nat
    BY <1>2, <1>7
  <1>9. LastIndex(log[n]) = Len(log[n])
    BY <1>2, <1>7, <1>8 DEF LastIndex, GapFree
  <1>10. e.index \in DOMAIN log[n]
    BY <1>4, <1>6, <1>8, <1>9
  <1>11. PICK f : f = log[n][e.index]
    OBVIOUS
  <1>12. f \in committed /\ f.index = e.index
    BY <1>2, <1>10, <1>11 DEF EntriesOf, GapFree, OrderInv, OnlyCommitted
  <1>13. e.epoch \in Nat /\ f.epoch \in Nat
    BY <1>1, <1>12 DEF AuthorityOK, Entry
  <1>14. ~(e.epoch < f.epoch) /\ ~(f.epoch < e.epoch)
    BY <1>4, <1>12 DEF OrderInv, CommitsOrdered
  <1>15. f = e
    BY <1>12, <1>13, <1>14 DEF EpochsDiffer
  <1> QED
    BY <1>2, <1>10, <1>11, <1>15

\* What rebuild_grants finds in such a file is at least as new as every grant issued.
LEMMA RebuiltIsNewest ==
    ASSUME CftTypeOK, OrderInv, EpochsDiffer, GapFree, NEW n \in Node, Furthest(n), NEW h \in Issued
    PROVE  \E g \in GrantsIn(disk[n].log)[h.task] : h.epoch <= g.epoch
  <1>1. NodesOK /\ AuthorityOK
    BY DEF CftTypeOK
  <1>2. PICK l : l = disk[n].log
    OBVIOUS
  <1>3. l \in Seq(Entry) /\ \A i \in DOMAIN l : l[i] \in committed /\ l[i].index = i
    BY <1>1, <1>2 DEF NodesOK, OrderInv, FilesCurrent, OnlyCommitted, EntriesOf, GapFree
  <1>4. PICK e \in committed : e.record.kind = "Grant" /\ h = GrantOf(e)
    BY DEF Issued
  <1>5. /\ e \in Entry /\ h.epoch = e.epoch /\ h.task = e.record.task
        /\ e.epoch \in Nat /\ e.record \in Record
    BY <1>1, <1>4, GrantOfType DEF AuthorityOK, Entry
  <1>6. h.task \in Task
    BY <1>4, <1>5 DEF Record
  <1>7. e.index \in DOMAIN l /\ l[e.index] = e
    BY <1>2, FurthestHasAll
  <1> DEFINE J == {j \in DOMAIN l : IsGrantOf(l[j], h.task)}
  <1>8. e.index \in J
    BY <1>4, <1>5, <1>7 DEF IsGrantOf
  <1>9. Len(l) \in Nat /\ DOMAIN l = 1..Len(l)
    BY <1>3
  <1>10. J \in SUBSET Nat /\ J # {} /\ \A j \in J : j <= Len(l)
    BY <1>8, <1>9
  <1>11. PICK j \in J : \A k \in J : k <= j
    <2> HIDE DEF J
    <2> QED
      BY <1>9, <1>10, LargestNumber
  <1>12. \A k \in (j + 1)..Len(l) : ~IsGrantOf(l[k], h.task)
    <2> SUFFICES ASSUME NEW k \in (j + 1)..Len(l), IsGrantOf(l[k], h.task) PROVE FALSE
      OBVIOUS
    <2>1. j \in Nat /\ k \in Nat /\ k \in DOMAIN l /\ j < k
      BY <1>9, <1>10, <1>11
    <2>2. k \in J
      BY <2>1
    <2> QED
      BY <1>11, <2>1, <2>2
  <1>13. GrantOf(l[j]) \in GrantsIn(l)[h.task]
    BY <1>6, <1>11, <1>12 DEF GrantsIn
  <1>14. PICK f : f = l[j]
    OBVIOUS
  <1>15. f \in committed /\ f.index = j /\ f.record.kind = "Grant"
    BY <1>3, <1>11, <1>14 DEF IsGrantOf
  <1>16. f \in Entry /\ f.epoch \in Nat /\ f.index \in Nat /\ e.index \in Nat /\ GrantOf(f).epoch = f.epoch
    BY <1>1, <1>5, <1>15, GrantOfType DEF AuthorityOK, Entry
  <1>17. ~(f.epoch < e.epoch)
    <2>1. SUFFICES ASSUME f.epoch < e.epoch PROVE FALSE
      OBVIOUS
    <2>2. f.index < e.index
      BY <1>15, <2>1 DEF OrderInv, CommitsOrdered
    <2>3. e.index <= j
      BY <1>8, <1>11
    <2> QED
      BY <1>15, <1>16, <2>2, <2>3
  <1>18. h.epoch <= GrantOf(f).epoch
    BY <1>5, <1>16, <1>17
  <1> QED
    BY <1>2, <1>13, <1>14, <1>18

\* A write puts its own grant in force, which is the newest, and leaves the other tasks alone.
LEMMA WriteKeepsNewest ==
    ASSUME CftTypeOK, OrderInv, NewestGrantInForce, NEW n \in Node, WriteStep(n)
    PROVE  NewestGrantInForce'
  <1>1. NodesOK /\ AuthorityOK
    BY DEF CftTypeOK
  <1>2. PICK l \in Node, r \in Record :
           /\ Commits(l, r)
           /\ \/ r.kind # "Grant" /\ grants' = grants
              \/ r.kind = "Grant" /\ grants' = [grants EXCEPT ![r.task] = {GrantOf(NextEntry(l, r))}]
    BY <1>1, WriteEffect DEF WriteStep
  <1>3. PICK x : x = NextEntry(l, r)
    OBVIOUS
  <1>4. /\ x \in Entry /\ x.epoch = epoch + 1 /\ x.record = r
        /\ committed' = committed \cup {x}
    BY <1>1, <1>2, <1>3, NextEntryType, CommitEffect
  <1>5. \/ r.kind # "Grant" /\ grants' = grants
        \/ r.kind = "Grant" /\ grants' = [grants EXCEPT ![r.task] = {GrantOf(x)}]
    BY <1>2, <1>3
  <1>6. epoch \in Nat /\ \A e \in committed : e \in Entry /\ e.epoch \in Nat /\ e.epoch <= epoch
    BY <1>1 DEF AuthorityOK, Entry, OrderInv, OnlyCommitted
  <1>7. ASSUME NEW h \in Issued' PROVE \E g \in grants'[h.task] : h.epoch <= g.epoch
    <2>1. PICK e \in committed' : e.record.kind = "Grant" /\ h = GrantOf(e)
      BY DEF Issued
    <2>2. e \in Entry /\ h.epoch = e.epoch /\ h.task = e.record.task
      BY <1>4, <1>6, <2>1, GrantOfType
    <2>3. h.task \in Task /\ h.epoch \in Nat /\ h.epoch <= epoch + 1
      <3>1. e.record \in Record
        BY <2>2 DEF Entry
      <3>2. e.record.task \in Task
        BY <2>1, <3>1 DEF Record
      <3>3. e.epoch \in Nat /\ e.epoch <= epoch + 1
        BY <1>4, <1>6
      <3> QED
        BY <2>2, <3>2, <3>3
    <2>4. CASE r.kind = "Grant" /\ r.task = h.task
      <3>1. grants'[h.task] = {GrantOf(x)}
        BY <1>1, <1>5, <2>3, <2>4 DEF AuthorityOK
      <3>2. GrantOf(x).epoch = epoch + 1
        BY <1>4, <2>4, GrantOfType
      <3> QED
        BY <2>3, <3>1, <3>2
    <2>5. CASE ~(r.kind = "Grant" /\ r.task = h.task)
      <3>1. grants'[h.task] = grants[h.task]
        BY <1>1, <1>5, <2>3, <2>5 DEF AuthorityOK
      <3>2. e # x
        BY <1>4, <2>1, <2>2, <2>5
      <3>3. h \in Issued
        BY <1>4, <2>1, <3>2 DEF Issued
      <3> QED
        BY <3>1, <3>3 DEF NewestGrantInForce
    <2> QED
      BY <2>4, <2>5
  <1> QED
    BY <1>7 DEF NewestGrantInForce

\* One step keeps the newest grants in force, a reopen of files without gaps puts them in force.
LEMMA NewestGrantStep ==
    ASSUME CftTypeOK, OrderInv, EpochsDiffer, [Next]_vars,
           IF restart THEN GapFree ELSE NewestGrantInForce
    PROVE  NewestGrantInForce'
  <1>1. NodesOK /\ AuthorityOK
    BY DEF CftTypeOK
  <1>2. CASE restart
    <2>1. PICK n \in Node : Furthest(n) /\ grants' = GrantsIn(disk[n].log)
      BY <1>2 DEF restart
    <2>2. GapFree /\ Issued' = Issued
      BY <1>2 DEF restart, Issued
    <2> QED
      BY <2>1, <2>2, RebuiltIsNewest DEF NewestGrantInForce
  <1>3. CASE ~restart /\ UNCHANGED <<grants, committed>>
    BY <1>3 DEF NewestGrantInForce, Issued
  <1>4. CASE ~restart /\ QuietStep
    BY <1>3, <1>4, QuietEffect
  <1>5. ASSUME ~restart, NEW n \in Node, VoteStep(n) PROVE NewestGrantInForce'
    BY <1>1, <1>3, <1>5, VotesEffect DEF VoteStep
  <1>6. ASSUME ~restart, NEW n \in Node, recover(n) \/ propose_fails(n) PROVE NewestGrantInForce'
    BY <1>3, <1>6 DEF recover, propose_fails, authority
  <1>7. ASSUME ~restart, NEW n \in Node, WriteStep(n) PROVE NewestGrantInForce'
    BY <1>7, WriteKeepsNewest
  <1> QED
    BY <1>2, <1>4, <1>5, <1>6, <1>7, StepCases

\* No step puts an older grant in force or forgets the newest: a reopen rebuilds the grants from
\* the log of one node, and when no file has a gap that node has every committed record, whatever
\* elections, partitions and reopens came before.  (With a gap, it may have missed the newest.)
THEOREM NewestGrantStays ==
    ASSUME "storage" \notin Faults
    PROVE  Spec => NewestGrantKept
  <1>1. Init => EpochsDiffer
    BY DEF Init, EpochsDiffer
  <1>2. LeadersInv /\ OrderInv /\ EpochsDiffer /\ [Next]_vars => EpochsDiffer'
    BY EpochsDifferStep DEF LeadersInv
  <1>3. LeadersInv /\ OrderInv /\ EpochsDiffer /\ [Next]_vars
          => [(IF restart THEN GapFree ELSE NewestGrantInForce) => NewestGrantInForce']_vars
    BY NewestGrantStep DEF LeadersInv
  <1> QED
    BY <1>1, <1>2, <1>3, LeadersInvariant, OrderInvariant, PTL DEF Spec, NewestGrantKept

=============================================================================
