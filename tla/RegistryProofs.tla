---------------------------- MODULE RegistryProofs ----------------------------
(***************************************************************************)
(* What the persistent registry guarantees for any tasks, replicas, numbers  *)
(* of transactions and options: whatever a crash leaves of the log opens     *)
(* again and holds what was published, and the registry implements the       *)
(* ledger of atomic transactions and so keeps the ledger's promises.         *)
(***************************************************************************)
EXTENDS RegistryRefinement, Sums, SequenceTheorems

-----------------------------------------------------------------------------
(* Replay: the recursion, and what it depends on.                            *)

\* One unfolding of the replay of a log, by means of g.
ReplayStep(snap, frames, g, n) ==
    IF n = 0 THEN ReplayStart(snap) ELSE ReplayFrame(g[n - 1], frames[n])

\* g satisfies the recursion up to m.
Replays(snap, frames, g, m) == g = [n \in 0..m |-> ReplayStep(snap, frames, g, n)]

\* There is a function that satisfies the recursion up to any number.
LEMMA ReplayExists ==
    ASSUME NEW snap, NEW frames, NEW m \in Nat
    PROVE  \E g : Replays(snap, frames, g, m)
  <1> DEFINE K == {n \in Nat : \E g : Replays(snap, frames, g, n)}
  <1>1. 0 \in K
    <2> DEFINE g == [k \in 0..0 |-> ReplayStart(snap)]
    <2>1. Replays(snap, frames, g, 0)
      BY DEF Replays, ReplayStep
    <2> HIDE DEF g
    <2> QED
      BY <2>1
  <1>2. ASSUME NEW n \in K PROVE n + 1 \in K
    <2>1. PICK g : Replays(snap, frames, g, n)
      OBVIOUS
    <2>2. g = [k \in 0..n |-> ReplayStep(snap, frames, g, k)]
      BY <2>1 DEF Replays
    <2> DEFINE h == [k \in 0..(n + 1) |-> IF k \in 0..n THEN g[k] ELSE ReplayStep(snap, frames, g, k)]
    <2>3. ASSUME NEW k \in 0..(n + 1) PROVE h[k] = ReplayStep(snap, frames, h, k)
      <3>1. h[k] = ReplayStep(snap, frames, g, k)
        BY <2>2
      <3>2. k # 0 => h[k - 1] = g[k - 1]
        OBVIOUS
      <3> HIDE DEF h
      <3> QED
        BY <3>1, <3>2 DEF ReplayStep
    <2>4. h = [k \in 0..(n + 1) |-> ReplayStep(snap, frames, h, k)]
      BY <2>3
    <2> HIDE DEF h
    <2>5. Replays(snap, frames, h, n + 1)
      BY <2>4 DEF Replays
    <2> QED
      BY <2>5
  <1>3. K = Nat
    <2> HIDE DEF K
    <2>1. K \in SUBSET Nat
      BY DEF K
    <2> QED
      BY <1>1, <1>2, <2>1, InductiveSet
  <1> QED
    BY <1>3

\* The replay of a log starts from the snapshot and goes on frame by frame.
LEMMA ReplayUnfolds ==
    ASSUME NEW snap, NEW S, NEW frames \in Seq(S)
    PROVE  /\ ReplayFrames(snap, frames)[0] = ReplayStart(snap)
           /\ \A n \in 1..Len(frames) :
                 ReplayFrames(snap, frames)[n]
                   = ReplayFrame(ReplayFrames(snap, frames)[n - 1], frames[n])
  <1>1. Len(frames) \in Nat
    OBVIOUS
  <1>2. PICK g : g = ReplayFrames(snap, frames)
    OBVIOUS
  <1>3. g = CHOOSE h : h = [n \in 0..Len(frames) |-> ReplayStep(snap, frames, h, n)]
    BY <1>2 DEF ReplayFrames, ReplayStep
  <1>4. \E h : h = [n \in 0..Len(frames) |-> ReplayStep(snap, frames, h, n)]
    BY <1>1, ReplayExists DEF Replays
  <1>5. g = [n \in 0..Len(frames) |-> ReplayStep(snap, frames, g, n)]
    BY <1>3, <1>4
  <1>6. g[0] = ReplayStart(snap)
    <2>1. 0 \in 0..Len(frames)
      BY <1>1
    <2>2. g[0] = ReplayStep(snap, frames, g, 0)
      BY <1>5, <2>1
    <2> QED
      BY <2>2 DEF ReplayStep
  <1>7. ASSUME NEW n \in 1..Len(frames) PROVE g[n] = ReplayFrame(g[n - 1], frames[n])
    <2>1. n \in 0..Len(frames) /\ n # 0
      BY <1>1
    <2>2. g[n] = ReplayStep(snap, frames, g, n)
      BY <1>5, <2>1
    <2> QED
      BY <2>1, <2>2 DEF ReplayStep
  <1> QED
    BY <1>2, <1>6, <1>7

\* Logs that agree in their first frames have the same replay of them.
LEMMA ReplayPrefix ==
    ASSUME NEW snap, NEW S, NEW f1 \in Seq(S), NEW f2 \in Seq(S), NEW m \in Nat,
           m <= Len(f1), m <= Len(f2), \A i \in 1..m : f1[i] = f2[i]
    PROVE  \A n \in 0..m : ReplayFrames(snap, f1)[n] = ReplayFrames(snap, f2)[n]
  <1>1. PICK g : g = ReplayFrames(snap, f1)
    OBVIOUS
  <1>2. PICK h : h = ReplayFrames(snap, f2)
    OBVIOUS
  <1>3. Len(f1) \in Nat /\ Len(f2) \in Nat
    OBVIOUS
  <1>4. /\ g[0] = ReplayStart(snap) /\ h[0] = ReplayStart(snap)
        /\ \A n \in 1..m : g[n] = ReplayFrame(g[n - 1], f1[n])
        /\ \A n \in 1..m : h[n] = ReplayFrame(h[n - 1], f2[n])
    <2>1. \A n \in 1..m : n \in 1..Len(f1) /\ n \in 1..Len(f2)
      BY <1>3
    <2> QED
      BY <1>1, <1>2, <2>1, ReplayUnfolds
  <1> DEFINE K == {n \in Nat : n <= m => g[n] = h[n]}
  <1>5. 0 \in K
    BY <1>4
  <1>6. ASSUME NEW n \in K PROVE n + 1 \in K
    <2> SUFFICES ASSUME n + 1 <= m PROVE g[n + 1] = h[n + 1]
      OBVIOUS
    <2>1. n + 1 \in 1..m /\ n <= m /\ (n + 1) - 1 = n
      OBVIOUS
    <2>2. g[n] = h[n] /\ f1[n + 1] = f2[n + 1]
      BY <2>1
    <2>3. g[n + 1] = ReplayFrame(g[n], f1[n + 1]) /\ h[n + 1] = ReplayFrame(h[n], f2[n + 1])
      BY <1>4, <2>1
    <2> QED
      BY <2>2, <2>3
  <1>7. K = Nat
    <2> HIDE DEF K
    <2>1. K \in SUBSET Nat
      BY DEF K
    <2> QED
      BY <1>5, <1>6, <2>1, InductiveSet
  <1>8. \A n \in 0..m : g[n] = h[n]
    BY <1>7
  <1> QED
    BY <1>1, <1>2, <1>8

\* Frames that the snapshot includes are skipped.
LEMMA ReplaySkips ==
    ASSUME NEW snap, NEW S, NEW frames \in Seq(S),
           Len(snap.lastTx) \in Nat,
           \A i \in 1..Len(frames) :
              Len(frames[i].tx) \in Nat /\ Len(frames[i].tx) <= Len(snap.lastTx)
    PROVE  \A n \in 0..Len(frames) : ReplayFrames(snap, frames)[n] = ReplayStart(snap)
  <1>1. PICK g : g = ReplayFrames(snap, frames)
    OBVIOUS
  <1>2. Len(frames) \in Nat
    OBVIOUS
  <1>3. g[0] = ReplayStart(snap) /\ \A n \in 1..Len(frames) : g[n] = ReplayFrame(g[n - 1], frames[n])
    BY <1>1, ReplayUnfolds
  <1>4. \A i \in 1..Len(frames) : ReplayFrame(ReplayStart(snap), frames[i]) = ReplayStart(snap)
    <2> SUFFICES ASSUME NEW i \in 1..Len(frames)
                 PROVE  ReplayFrame(ReplayStart(snap), frames[i]) = ReplayStart(snap)
      OBVIOUS
    <2>1. /\ Len(frames[i].tx) \in Nat /\ ReplayStart(snap).base \in Nat
          /\ Len(frames[i].tx) <= ReplayStart(snap).base
      BY DEF ReplayStart
    <2> QED
      BY <2>1 DEF ReplayFrame
  <1> DEFINE K == {n \in Nat : n <= Len(frames) => g[n] = ReplayStart(snap)}
  <1>5. 0 \in K
    BY <1>3
  <1>6. ASSUME NEW n \in K PROVE n + 1 \in K
    <2> SUFFICES ASSUME n + 1 <= Len(frames) PROVE g[n + 1] = ReplayStart(snap)
      OBVIOUS
    <2>1. n + 1 \in 1..Len(frames) /\ n <= Len(frames) /\ (n + 1) - 1 = n
      BY <1>2
    <2>2. g[n] = ReplayStart(snap)
      BY <2>1
    <2>3. g[n + 1] = ReplayFrame(g[n], frames[n + 1])
      BY <1>3, <2>1
    <2> QED
      BY <1>4, <2>1, <2>2, <2>3
  <1>7. K = Nat
    <2> HIDE DEF K
    <2>1. K \in SUBSET Nat
      BY DEF K
    <2> QED
      BY <1>5, <1>6, <2>1, InductiveSet
  <1>8. \A n \in 0..Len(frames) : g[n] = ReplayStart(snap)
    BY <1>7
  <1> QED
    BY <1>1, <1>8

-----------------------------------------------------------------------------
(* Types.  Records are typed as far as replay and acknowledgement read them. *)

Transaction == {tx \in Seq(Entry) : tx # <<>>}

Frame == [kind : {"Prepare", "Commit"}, tx : Transaction]

RecordOK(rec) ==
    /\ {"state", "acceptance", "staged"} \subseteq DOMAIN rec
    /\ rec.acceptance \in AcceptanceMode
    /\ \A s \in rec.staged : s.content \in Content

StateOK(s) ==
    /\ s = [records |-> s.records, versions |-> s.versions, lastTx |-> s.lastTx]
    /\ s.records = [t \in Task |-> s.records[t]] /\ \A t \in Task : RecordOK(s.records[t])
    /\ s.versions \in [Task -> Nat]
    /\ s.lastTx \in Seq(Entry)

\* The last entry of a transaction is a mutation of a task; the others are what precedes it.
LEMMA TransactionType ==
    ASSUME NEW tx \in Transaction
    PROVE  /\ LastOf(tx) \in Entry /\ MutationOf(tx) \in Mutation /\ TaskOf(tx) \in Task
           /\ Previous(tx) \in Seq(Entry)
           /\ Len(tx) \in Nat /\ Len(tx) = Len(Previous(tx)) + 1
           /\ tx = Append(Previous(tx), LastOf(tx))
  <1>1. tx \in Seq(Entry) /\ Len(tx) \in Nat /\ Len(tx) # 0
    BY DEF Transaction
  <1>2. LastOf(tx) \in Entry
    BY <1>1 DEF LastOf
  <1>3. MutationOf(tx) \in Mutation
    BY <1>2 DEF MutationOf, Entry
  <1>4. TaskOf(tx) \in Task
    BY <1>3 DEF TaskOf, Mutation, SubmitMutation, AssignMutation, RunningMutation, StageMutation,
           ConflictMutation, CommitMutation, FailureMutation, CancelMutation
  <1>5. Previous(tx) \in Seq(Entry) /\ Len(Previous(tx)) = Len(tx) - 1
    <2>1. \A i \in 1..(Len(tx) - 1) : tx[i] \in Entry
      BY <1>1
    <2>2. 1 \in Int /\ Len(tx) - 1 \in Int /\ (Len(tx) - 1) - 1 + 1 = Len(tx) - 1
      BY <1>1
    <2>3. PICK q : q = SubSeq(tx, 1, Len(tx) - 1)
      OBVIOUS
    <2>4. q \in Seq(Entry) /\ Len(q) = IF 1 <= Len(tx) - 1 THEN (Len(tx) - 1) - 1 + 1 ELSE 0
      BY <2>1, <2>2, <2>3, SubSeqProperties
    <2>5. Len(q) = Len(tx) - 1
      BY <1>1, <2>4
    <2> QED
      BY <2>3, <2>4, <2>5 DEF Previous
  <1>6. tx = Append(Previous(tx), LastOf(tx))
    BY <1>1, <1>5 DEF Previous, LastOf
  <1> QED
    BY <1>1, <1>2, <1>3, <1>4, <1>5, <1>6

\* A history that one entry is added to is a transaction that follows it.
LEMMA TransactionAppend ==
    ASSUME NEW h \in Seq(Entry), NEW e \in Entry
    PROVE  /\ Append(h, e) \in Transaction
           /\ Previous(Append(h, e)) = h /\ LastOf(Append(h, e)) = e
  <1>1. /\ Append(h, e) \in Seq(Entry) /\ Len(Append(h, e)) = Len(h) + 1 /\ Len(h) \in Nat
        /\ Append(h, e)[Len(h) + 1] = e
    OBVIOUS
  <1>2. Append(h, e) # <<>>
    BY <1>1
  <1>3. SubSeq(Append(h, e), 1, Len(h)) = h
    OBVIOUS
  <1> QED
    BY <1>1, <1>2, <1>3 DEF Transaction, Previous, LastOf

\* What every mutation leaves of a record: its acceptance mode, which only Submit sets, and that
\* it is known.
LEMMA ResultingOK ==
    ASSUME NEW rec, RecordOK(rec), NEW m \in Mutation
    PROVE  /\ RecordOK(Resulting(rec, m))
           /\ m.kind = "Submit" => Resulting(rec, m).acceptance = m.acceptance
           /\ m.kind # "Submit" => Resulting(rec, m).acceptance = rec.acceptance
           /\ m.kind # "ConflictOutput" => Known(Resulting(rec, m))
           /\ m.kind = "ConflictOutput" => (Known(Resulting(rec, m)) <=> Known(rec))
  <1>1. CASE m \in SubmitMutation
    BY <1>1 DEF SubmitMutation, Resulting, Submitted, EmptyRecord, RecordOK, Known
  <1>2. CASE m \in AssignMutation
    BY <1>2 DEF AssignMutation, Resulting, Assigned, RecordOK, Known
  <1>3. CASE m \in RunningMutation
    BY <1>3 DEF RunningMutation, Resulting, RecordOK, Known
  <1>4. CASE m \in StageMutation
    <2>1. m.kind = "StageOutput" /\ m.content \in Content
      BY <1>4 DEF StageMutation
    <2>2. PICK o : o = [attempt |-> m.attempt, node |-> m.node, content |-> m.content, copies |-> m.copies]
      OBVIOUS
    <2>3. o.content = m.content
      BY <2>2
    <2>4. Resulting(rec, m) = [rec EXCEPT !.state = "OutputStaged", !.staged = {o}]
      BY <2>1, <2>2 DEF Resulting, Staged
    <2> QED
      BY <2>1, <2>3, <2>4 DEF RecordOK, Known
  <1>5. CASE m \in ConflictMutation
    BY <1>5 DEF ConflictMutation, Resulting, Conflicted, RecordOK, Known
  <1>6. CASE m \in CommitMutation
    BY <1>6 DEF CommitMutation, Resulting, Committed, RecordOK, Known
  <1>7. CASE m \in FailureMutation
    BY <1>7 DEF FailureMutation, Resulting, Stopped, RecordOK, Known
  <1>8. CASE m \in CancelMutation
    BY <1>8 DEF CancelMutation, Resulting, Stopped, RecordOK, Known
  <1> QED
    BY <1>1, <1>2, <1>3, <1>4, <1>5, <1>6, <1>7, <1>8 DEF Mutation

\* Publishing a transaction gives a state that ends in it.
LEMMA PublishedOK ==
    ASSUME NEW s, StateOK(s), NEW tx \in Transaction
    PROVE  /\ StateOK(Published(s, tx))
           /\ Published(s, tx).lastTx = tx
           /\ Published(s, tx).records = Applied(s.records, MutationOf(tx))
  <1>1. MutationOf(tx) \in Mutation /\ TaskOf(tx) \in Task /\ TaskOf(tx) = MutationOf(tx).task
    BY TransactionType DEF TaskOf
  <1>2. PICK r : r = Applied(s.records, MutationOf(tx))
    OBVIOUS
  <1>3. PICK v : v = [s.versions EXCEPT ![TaskOf(tx)] = @ + 1]
    OBVIOUS
  <1>4. Published(s, tx) = [records |-> r, versions |-> v, lastTx |-> tx]
    BY <1>2, <1>3 DEF Published
  <1>5. v \in [Task -> Nat]
    BY <1>1, <1>3 DEF StateOK
  <1>6. r = [t \in Task |-> r[t]] /\ \A t \in Task : RecordOK(r[t])
    <2>1. RecordOK(Resulting(s.records[TaskOf(tx)], MutationOf(tx)))
      BY <1>1, ResultingOK DEF StateOK
    <2>2. r = [s.records EXCEPT ![TaskOf(tx)] = Resulting(s.records[TaskOf(tx)], MutationOf(tx))]
      BY <1>1, <1>2 DEF Applied
    <2>3. s.records = [t \in Task |-> s.records[t]] /\ \A t \in Task : RecordOK(s.records[t])
      BY DEF StateOK
    <2> QED
      BY <1>1, <2>1, <2>2, <2>3
  <1>7. tx \in Seq(Entry)
    BY DEF Transaction
  <1> QED
    BY <1>2, <1>4, <1>5, <1>6, <1>7 DEF StateOK

-----------------------------------------------------------------------------
(* What replaying one more frame does to an image of the registry.           *)

\* An image with the given base that opens: at most one transaction is prepared, and it follows.
ImageOK(img, base) ==
    /\ DOMAIN img = {"ok", "base", "state", "prepared", "txs"}
    /\ img.ok = TRUE /\ img.base = base
    /\ StateOK(img.state) /\ base <= Len(img.state.lastTx)
    /\ img.prepared = {} \/ \E p \in Transaction : img.prepared = {p} /\ Continues(img.state, p)

\* A transaction that follows a state is one longer than its history.
LEMMA ContinuesLength ==
    ASSUME NEW s, StateOK(s), NEW tx \in Transaction, Continues(s, tx)
    PROVE  Len(s.lastTx) \in Nat /\ Len(tx) = Len(s.lastTx) + 1
  <1>1. Previous(tx) = s.lastTx /\ s.lastTx \in Seq(Entry)
    BY DEF Continues, StateOK
  <1> QED
    BY <1>1, TransactionType

\* Before the first frame the image is the snapshot.
LEMMA StartOK ==
    ASSUME NEW snap, StateOK(snap)
    PROVE  /\ ImageOK(ReplayStart(snap), Len(snap.lastTx))
           /\ ReplayStart(snap).state = snap /\ ReplayStart(snap).prepared = {}
  <1>1. Len(snap.lastTx) \in Nat
    BY DEF StateOK
  <1> QED
    BY <1>1 DEF ReplayStart, ImageOK

\* A prepare frame that follows the image.
LEMMA PrepareFrame ==
    ASSUME NEW img, NEW base \in Nat, ImageOK(img, base), img.prepared = {},
           NEW tx \in Transaction, Continues(img.state, tx)
    PROVE  /\ ImageOK(ReplayFrame(img, Prepare(tx)), base)
           /\ ReplayFrame(img, Prepare(tx)).state = img.state
           /\ ReplayFrame(img, Prepare(tx)).prepared = {tx}
  <1>1. Len(tx) \in Nat /\ Len(tx) > base /\ ~(Len(tx) <= base)
    BY ContinuesLength DEF ImageOK
  <1>2. PICK new : new = ReplayFrame(img, Prepare(tx))
    OBVIOUS
  <1>3. Prepare(tx).tx = tx /\ Prepare(tx).kind = "Prepare"
    BY DEF Prepare
  <1>4. {p \in img.prepared : Len(p) = Len(tx)} = {}
    OBVIOUS
  <1>5. img.ok = TRUE /\ img.base = base
    BY DEF ImageOK
  <1>6. new = [img EXCEPT !.prepared = @ \cup {tx}, !.ok = {} \subseteq {tx}]
    BY <1>1, <1>2, <1>3, <1>4, <1>5 DEF ReplayFrame
  <1>7. DOMAIN img = {"ok", "base", "state", "prepared", "txs"}
    BY DEF ImageOK
  <1>8. /\ DOMAIN new = DOMAIN img /\ new.prepared = {tx} /\ new.base = img.base /\ new.state = img.state
        /\ new.ok = ({} \subseteq {tx})
    BY <1>6, <1>7
  <1>9. new.ok = TRUE
    BY <1>8
  <1> QED
    BY <1>2, <1>8, <1>9 DEF ImageOK

\* The commit frame of the prepared transaction.
LEMMA CommitFrame ==
    ASSUME NEW img, NEW base \in Nat, ImageOK(img, base), NEW tx, img.prepared = {tx}
    PROVE  /\ ImageOK(ReplayFrame(img, Commit(tx)), base)
           /\ ReplayFrame(img, Commit(tx)).state = Published(img.state, tx)
           /\ ReplayFrame(img, Commit(tx)).prepared = {}
  <1>0. tx \in Transaction /\ Continues(img.state, tx) /\ StateOK(img.state)
    BY DEF ImageOK
  <1>1. Len(tx) \in Nat /\ Len(tx) > base /\ ~(Len(tx) <= base)
    BY <1>0, ContinuesLength DEF ImageOK
  <1>2. PICK new : new = ReplayFrame(img, Commit(tx))
    OBVIOUS
  <1>3. Commit(tx).tx = tx /\ Commit(tx).kind = "Commit"
    BY DEF Commit
  <1>4. {p \in img.prepared : Len(p) = Len(tx)} = {tx}
    OBVIOUS
  <1>5. img.ok = TRUE /\ img.base = base
    BY DEF ImageOK
  <1>6. new = [img EXCEPT !.prepared = @ \ {tx}, !.txs = @ + 1, !.state = Published(@, tx)]
    BY <1>0, <1>1, <1>2, <1>3, <1>4, <1>5 DEF ReplayFrame
  <1>7. DOMAIN img = {"ok", "base", "state", "prepared", "txs"}
    BY DEF ImageOK
  <1>8. /\ DOMAIN new = DOMAIN img /\ new.prepared = {} /\ new.base = img.base
        /\ new.state = Published(img.state, tx) /\ new.ok = img.ok
    BY <1>6, <1>7
  <1>9. StateOK(new.state) /\ new.state.lastTx = tx
    BY <1>0, <1>8, PublishedOK
  <1>10. base <= Len(new.state.lastTx)
    BY <1>1, <1>9
  <1> QED
    BY <1>2, <1>5, <1>7, <1>8, <1>9, <1>10 DEF ImageOK

\* An image that is well formed is not Corrupt.
LEMMA ImageRecoverable ==
    ASSUME NEW img, NEW base, ImageOK(img, base)
    PROVE  PendingRecoverable(img)
  <1>1. CASE img.prepared = {}
    <2>1. Cardinality(img.prepared) = 0
      BY <1>1, FS_EmptySet
    <2> QED
      BY <1>1, <2>1 DEF PendingRecoverable
  <1>2. ASSUME NEW p \in Transaction, img.prepared = {p}, Continues(img.state, p)
        PROVE  PendingRecoverable(img)
    <2>1. Cardinality(img.prepared) = 1
      BY <1>2, FS_Singleton
    <2> QED
      BY <1>2, <2>1 DEF PendingRecoverable
  <1> QED
    BY <1>1, <1>2 DEF ImageOK

-----------------------------------------------------------------------------
(* A log whose every prefix opens, and the ways it changes.                  *)

\* No frame is beyond what the image after n frames has published or prepared.
Bounded(frames, n, img) ==
    \A i \in 1..n : \/ Len(frames[i].tx) <= Len(img.state.lastTx)
                    \/ frames[i].tx \in img.prepared

LogOK(snap, frames) ==
    /\ StateOK(snap) /\ frames \in Seq(Frame)
    /\ \A n \in 0..Len(frames) :
          /\ ImageOK(ReplayFrames(snap, frames)[n], Len(snap.lastTx))
          /\ Bounded(frames, n, ReplayFrames(snap, frames)[n])

LastImage(snap, frames) == ReplayFrames(snap, frames)[Len(frames)]

\* The frames of a log and their transactions.
LEMMA FrameType ==
    ASSUME NEW frames \in Seq(Frame)
    PROVE  /\ Len(frames) \in Nat
           /\ \A i \in 1..Len(frames) : frames[i].tx \in Transaction /\ Len(frames[i].tx) \in Nat
  <1>1. ASSUME NEW i \in 1..Len(frames) PROVE frames[i].tx \in Transaction
    <2>1. frames[i] \in Frame
      OBVIOUS
    <2> QED
      BY <2>1 DEF Frame
  <1> QED
    BY <1>1, TransactionType

\* An empty log is the snapshot.
LEMMA LogEmpty ==
    ASSUME NEW snap, StateOK(snap)
    PROVE  LogOK(snap, <<>>) /\ ReplayFrames(snap, <<>>)[0] = ReplayStart(snap)
  <1>1. <<>> \in Seq(Frame) /\ Len(<<>>) = 0
    OBVIOUS
  <1>2. ReplayFrames(snap, <<>>)[0] = ReplayStart(snap)
    BY <1>1, ReplayUnfolds
  <1>3. ImageOK(ReplayFrames(snap, <<>>)[0], Len(snap.lastTx))
    BY <1>2, StartOK
  <1>4. Bounded(<<>>, 0, ReplayFrames(snap, <<>>)[0])
    BY DEF Bounded
  <1>5. \A n \in 0..Len(<<>>) : n = 0
    BY <1>1
  <1> QED
    BY <1>1, <1>2, <1>3, <1>4, <1>5 DEF LogOK

\* One more frame: the images before it are the same.
LEMMA LogAppend ==
    ASSUME NEW snap, NEW frames \in Seq(Frame), NEW f \in Frame
    PROVE  /\ Append(frames, f) \in Seq(Frame) /\ Len(Append(frames, f)) = Len(frames) + 1
           /\ \A n \in 0..Len(frames) :
                 ReplayFrames(snap, Append(frames, f))[n] = ReplayFrames(snap, frames)[n]
           /\ LastImage(snap, Append(frames, f)) = ReplayFrame(LastImage(snap, frames), f)
  <1>1. PICK new : new = Append(frames, f)
    OBVIOUS
  <1>2. /\ new \in Seq(Frame) /\ Len(new) = Len(frames) + 1 /\ Len(frames) \in Nat
        /\ \A i \in 1..Len(frames) : frames[i] = new[i]
        /\ new[Len(frames) + 1] = f
    BY <1>1
  <1>3. \A n \in 0..Len(frames) : ReplayFrames(snap, frames)[n] = ReplayFrames(snap, new)[n]
    <2>1. Len(frames) <= Len(frames) /\ Len(frames) <= Len(new)
      BY <1>2
    <2> QED
      BY <1>2, <2>1, ReplayPrefix
  <1>4. ReplayFrames(snap, new)[Len(new)] = ReplayFrame(ReplayFrames(snap, frames)[Len(frames)], f)
    <2>1. Len(new) \in 1..Len(new) /\ Len(new) - 1 = Len(frames) /\ Len(frames) \in 0..Len(frames)
      BY <1>2
    <2>2. ReplayFrames(snap, new)[Len(new)] = ReplayFrame(ReplayFrames(snap, new)[Len(new) - 1], new[Len(new)])
      BY <1>2, <2>1, ReplayUnfolds
    <2>3. new[Len(new)] = f
      BY <1>2
    <2>4. ReplayFrames(snap, new)[Len(new) - 1] = ReplayFrames(snap, frames)[Len(frames)]
      BY <1>3, <2>1
    <2> QED
      BY <2>2, <2>3, <2>4
  <1> QED
    BY <1>1, <1>2, <1>3, <1>4 DEF LastImage

\* A log stays well formed under one more frame, if the image after it is and bounds the frames.
LEMMA LogExtends ==
    ASSUME NEW snap, NEW frames, LogOK(snap, frames), NEW f \in Frame,
           ImageOK(LastImage(snap, Append(frames, f)), Len(snap.lastTx)),
           Bounded(Append(frames, f), Len(frames) + 1, LastImage(snap, Append(frames, f)))
    PROVE  LogOK(snap, Append(frames, f))
  <1>1. frames \in Seq(Frame) /\ StateOK(snap) /\ Len(frames) \in Nat
    BY DEF LogOK
  <1>2. PICK new : new = Append(frames, f)
    OBVIOUS
  <1>3. /\ new \in Seq(Frame) /\ Len(new) = Len(frames) + 1
        /\ \A n \in 0..Len(frames) : ReplayFrames(snap, new)[n] = ReplayFrames(snap, frames)[n]
    BY <1>1, <1>2, LogAppend
  <1>4. \A i \in 1..Len(frames) : new[i] = frames[i]
    BY <1>1, <1>2
  <1>5. ASSUME NEW n \in 0..Len(new)
        PROVE  /\ ImageOK(ReplayFrames(snap, new)[n], Len(snap.lastTx))
               /\ Bounded(new, n, ReplayFrames(snap, new)[n])
    <2>1. CASE n \in 0..Len(frames)
      <3>1. ReplayFrames(snap, new)[n] = ReplayFrames(snap, frames)[n]
        BY <1>3, <2>1
      <3>2. /\ ImageOK(ReplayFrames(snap, frames)[n], Len(snap.lastTx))
            /\ Bounded(frames, n, ReplayFrames(snap, frames)[n])
        BY <2>1 DEF LogOK
      <3>3. \A i \in 1..n : i \in 1..Len(frames)
        BY <1>1, <2>1
      <3>4. \A i \in 1..n : new[i] = frames[i]
        BY <1>4, <3>3
      <3>5. Bounded(new, n, ReplayFrames(snap, frames)[n])
        BY <3>2, <3>4 DEF Bounded
      <3> QED
        BY <3>1, <3>2, <3>5
    <2>2. CASE n \notin 0..Len(frames)
      <3>1. n = Len(frames) + 1 /\ n = Len(new)
        BY <1>1, <1>3, <2>2
      <3> QED
        BY <1>2, <3>1 DEF LastImage
    <2> QED
      BY <2>1, <2>2
  <1> QED
    BY <1>1, <1>2, <1>3, <1>5 DEF LogOK

\* The prepare frame of a transaction that follows the last image.
LEMMA LogPrepare ==
    ASSUME NEW snap, NEW frames, LogOK(snap, frames), NEW tx \in Transaction,
           LastImage(snap, frames).prepared = {}, Continues(LastImage(snap, frames).state, tx)
    PROVE  /\ LogOK(snap, Append(frames, Prepare(tx)))
           /\ LastImage(snap, Append(frames, Prepare(tx))).state = LastImage(snap, frames).state
           /\ LastImage(snap, Append(frames, Prepare(tx))).prepared = {tx}
  <1>1. frames \in Seq(Frame) /\ StateOK(snap) /\ Len(frames) \in Nat /\ Len(frames) \in 0..Len(frames)
    BY DEF LogOK
  <1>2. PICK img : img = LastImage(snap, frames)
    OBVIOUS
  <1>3. ImageOK(img, Len(snap.lastTx)) /\ Bounded(frames, Len(frames), img)
    BY <1>1, <1>2 DEF LogOK, LastImage
  <1>4. Len(snap.lastTx) \in Nat
    BY <1>1 DEF StateOK
  <1>5. PICK new : new = ReplayFrame(img, Prepare(tx))
    OBVIOUS
  <1>6. ImageOK(new, Len(snap.lastTx)) /\ new.state = img.state /\ new.prepared = {tx}
    BY <1>2, <1>3, <1>4, <1>5, PrepareFrame
  <1>7. Prepare(tx) \in Frame /\ Prepare(tx).tx = tx
    BY DEF Prepare, Frame
  <1>8. LastImage(snap, Append(frames, Prepare(tx))) = new
    BY <1>1, <1>2, <1>5, <1>7, LogAppend
  <1>9. Bounded(Append(frames, Prepare(tx)), Len(frames) + 1, new)
    <2> SUFFICES ASSUME NEW i \in 1..(Len(frames) + 1)
                 PROVE  \/ Len(Append(frames, Prepare(tx))[i].tx) <= Len(new.state.lastTx)
                        \/ Append(frames, Prepare(tx))[i].tx \in new.prepared
      BY DEF Bounded
    <2>1. CASE i = Len(frames) + 1
      <3>1. Append(frames, Prepare(tx))[i] = Prepare(tx)
        BY <1>1, <2>1
      <3> QED
        BY <1>6, <1>7, <3>1
    <2>2. CASE i \in 1..Len(frames)
      <3>1. Append(frames, Prepare(tx))[i] = frames[i]
        BY <1>1, <2>2
      <3>2. Len(frames[i].tx) <= Len(img.state.lastTx)
        BY <1>2, <1>3, <2>2 DEF Bounded
      <3> QED
        BY <1>6, <3>1, <3>2
    <2> QED
      BY <1>1, <2>1, <2>2
  <1> QED
    BY <1>2, <1>6, <1>7, <1>8, <1>9, LogExtends

\* The commit frame of the transaction the last image has prepared.
LEMMA LogCommit ==
    ASSUME NEW snap, NEW frames, LogOK(snap, frames), NEW tx, LastImage(snap, frames).prepared = {tx}
    PROVE  /\ LogOK(snap, Append(frames, Commit(tx)))
           /\ LastImage(snap, Append(frames, Commit(tx))).state = Published(LastImage(snap, frames).state, tx)
           /\ LastImage(snap, Append(frames, Commit(tx))).prepared = {}
           /\ tx \in Transaction /\ Continues(LastImage(snap, frames).state, tx)
  <1>1. frames \in Seq(Frame) /\ StateOK(snap) /\ Len(frames) \in Nat /\ Len(frames) \in 0..Len(frames)
    BY DEF LogOK
  <1>2. PICK img : img = LastImage(snap, frames)
    OBVIOUS
  <1>3. ImageOK(img, Len(snap.lastTx)) /\ Bounded(frames, Len(frames), img)
    BY <1>1, <1>2 DEF LogOK, LastImage
  <1>4. Len(snap.lastTx) \in Nat
    BY <1>1 DEF StateOK
  <1>5. tx \in Transaction /\ Continues(img.state, tx) /\ StateOK(img.state)
    BY <1>2, <1>3 DEF ImageOK
  <1>6. PICK new : new = ReplayFrame(img, Commit(tx))
    OBVIOUS
  <1>7. ImageOK(new, Len(snap.lastTx)) /\ new.state = Published(img.state, tx) /\ new.prepared = {}
    BY <1>2, <1>3, <1>4, <1>6, CommitFrame
  <1>8. new.state.lastTx = tx
    BY <1>5, <1>7, PublishedOK
  <1>9. Commit(tx) \in Frame /\ Commit(tx).tx = tx
    BY <1>5 DEF Commit, Frame
  <1>10. LastImage(snap, Append(frames, Commit(tx))) = new
    BY <1>1, <1>2, <1>6, <1>9, LogAppend
  <1>11. Len(img.state.lastTx) \in Nat /\ Len(tx) = Len(img.state.lastTx) + 1
    BY <1>5, ContinuesLength
  <1>12. Bounded(Append(frames, Commit(tx)), Len(frames) + 1, new)
    <2> SUFFICES ASSUME NEW i \in 1..(Len(frames) + 1)
                 PROVE  Len(Append(frames, Commit(tx))[i].tx) <= Len(new.state.lastTx)
      BY DEF Bounded
    <2>1. CASE i = Len(frames) + 1
      <3>1. Append(frames, Commit(tx))[i] = Commit(tx)
        BY <1>1, <2>1
      <3> QED
        BY <1>8, <1>9, <1>11, <3>1
    <2>2. CASE i \in 1..Len(frames)
      <3>1. Append(frames, Commit(tx))[i] = frames[i]
        BY <1>1, <2>2
      <3>2. Len(frames[i].tx) <= Len(img.state.lastTx) \/ frames[i].tx = tx
        BY <1>2, <1>3, <2>2 DEF Bounded
      <3>3. Len(frames[i].tx) \in Nat
        BY <1>1, <2>2, FrameType
      <3>4. Len(frames[i].tx) <= Len(tx)
        BY <1>11, <3>2, <3>3
      <3> QED
        BY <1>8, <3>1, <3>4
    <2> QED
      BY <1>1, <2>1, <2>2
  <1> QED
    BY <1>2, <1>5, <1>7, <1>9, <1>10, <1>12, LogExtends

\* What a crash leaves of a log.
LEMMA LogCut ==
    ASSUME NEW snap, NEW frames, LogOK(snap, frames), NEW m \in 0..Len(frames)
    PROVE  /\ LogOK(snap, SubSeq(frames, 1, m)) /\ Len(SubSeq(frames, 1, m)) = m
           /\ \A n \in 0..m :
                 ReplayFrames(snap, SubSeq(frames, 1, m))[n] = ReplayFrames(snap, frames)[n]
  <1>1. frames \in Seq(Frame) /\ StateOK(snap) /\ Len(frames) \in Nat /\ m \in Nat /\ m <= Len(frames)
    BY DEF LogOK
  <1>2. PICK new : new = SubSeq(frames, 1, m)
    OBVIOUS
  <1>3. new \in Seq(Frame) /\ Len(new) = m /\ \A i \in 1..m : new[i] = frames[i]
    <2>1. \A i \in 1..m : i \in 1..Len(frames)
      BY <1>1
    <2>2. \A i \in 1..m : frames[i] \in Frame
      BY <1>1, <2>1
    <2>3. /\ new \in Seq(Frame) /\ Len(new) = (IF 1 <= m THEN m - 1 + 1 ELSE 0)
          /\ \A i \in 1..(m - 1 + 1) : new[i] = frames[1 + i - 1]
      BY <1>1, <1>2, <2>2, SubSeqProperties
    <2>4. m - 1 + 1 = m /\ \A i \in 1..m : 1 + i - 1 = i
      BY <1>1
    <2> QED
      BY <1>1, <2>3, <2>4
  <1>4. \A n \in 0..m : ReplayFrames(snap, new)[n] = ReplayFrames(snap, frames)[n]
    <2>1. m <= Len(new)
      BY <1>1, <1>3
    <2> QED
      BY <1>1, <1>3, <2>1, ReplayPrefix
  <1>5. ASSUME NEW n \in 0..Len(new)
        PROVE  /\ ImageOK(ReplayFrames(snap, new)[n], Len(snap.lastTx))
               /\ Bounded(new, n, ReplayFrames(snap, new)[n])
    <2>1. n \in 0..Len(frames) /\ n \in 0..m /\ \A i \in 1..n : i \in 1..m
      BY <1>1, <1>3
    <2>2. /\ ImageOK(ReplayFrames(snap, frames)[n], Len(snap.lastTx))
          /\ Bounded(frames, n, ReplayFrames(snap, frames)[n])
      BY <2>1 DEF LogOK
    <2>3. \A i \in 1..n : new[i] = frames[i]
      BY <1>3, <2>1
    <2>4. Bounded(new, n, ReplayFrames(snap, frames)[n])
      BY <2>2, <2>3 DEF Bounded
    <2> QED
      BY <1>4, <2>1, <2>2, <2>4
  <1> QED
    BY <1>1, <1>2, <1>3, <1>4, <1>5 DEF LogOK

\* A snapshot of the last image, taken while nothing is prepared: every frame is skipped.
LEMMA LogSnapshot ==
    ASSUME NEW snap, NEW frames, LogOK(snap, frames), NEW s, s = LastImage(snap, frames).state,
           LastImage(snap, frames).prepared = {}
    PROVE  LogOK(s, frames) /\ \A n \in 0..Len(frames) : ReplayFrames(s, frames)[n] = ReplayStart(s)
  <1>1. frames \in Seq(Frame) /\ Len(frames) \in Nat /\ Len(frames) \in 0..Len(frames)
    BY DEF LogOK
  <1>2. PICK img : img = LastImage(snap, frames)
    OBVIOUS
  <1>3. StateOK(s) /\ Bounded(frames, Len(frames), img)
    BY <1>1, <1>2 DEF LogOK, LastImage, ImageOK
  <1>4. Len(s.lastTx) \in Nat
    BY <1>3 DEF StateOK
  <1>5. \A i \in 1..Len(frames) : Len(frames[i].tx) \in Nat /\ Len(frames[i].tx) <= Len(s.lastTx)
    BY <1>1, <1>2, <1>3, FrameType DEF Bounded
  <1>6. \A n \in 0..Len(frames) : ReplayFrames(s, frames)[n] = ReplayStart(s)
    BY <1>1, <1>4, <1>5, ReplaySkips
  <1>7. ImageOK(ReplayStart(s), Len(s.lastTx)) /\ ReplayStart(s).state = s
    BY <1>3, StartOK
  <1>8. ASSUME NEW n \in 0..Len(frames) PROVE Bounded(frames, n, ReplayStart(s))
    <2>1. \A i \in 1..n : i \in 1..Len(frames)
      BY <1>1
    <2> QED
      BY <1>5, <1>7, <2>1 DEF Bounded
  <1> QED
    BY <1>1, <1>3, <1>6, <1>7, <1>8 DEF LogOK

-----------------------------------------------------------------------------
(* The invariant: the log opens however short a crash cuts it, and while the *)
(* registry is open its last image is what is in memory.                     *)

Last == LastImage(snapshot, wal)

PendingTxs(P) == {p.tx : p \in P}

\* At most one transaction is pending, with the proofs it has.
PendingOK(P) ==
    \/ P = {}
    \/ \E tx \in Transaction, proofs \in SUBSET ReplicaId : P = {[tx |-> tx, proofs |-> proofs]}

MemoryOK ==
    /\ up \in BOOLEAN /\ synced \in 0..Len(wal) /\ next \in Nat \ {0}
    /\ copies \in [Content -> 0..MaxCopies]
    /\ PendingOK(pending)
    /\ up => Last.state = State /\ Last.prepared = PendingTxs(pending)
    /\ phase = "replicate" => pending # {}
    /\ phase \in {"snapshot", "truncate"} => pending = {}
    /\ phase = "truncate" => snapshot = State
    /\ ~up => phase = "idle" /\ pending = {}

RegistryInv == LogOK(snapshot, wal) /\ MemoryOK

\* The log may change in these ways only.  It stays, or is synced as it is.
Stays == UNCHANGED <<wal, snapshot>> /\ synced' \in {synced, Len(wal)}

\* One more frame; a transaction of a task that is not Fast is synced.
Grows(f) ==
    /\ wal' = Append(wal, f)
    /\ synced' = (IF Syncs(AcceptanceOf(Last.state.records, MutationOf(f.tx))) THEN Len(wal') ELSE synced)
    /\ UNCHANGED snapshot

\* A new task is submitted with an acceptance mode that submit is called with.
Asked(m) == m.kind = "Submit" => m.acceptance \in Requested

GrowsPrepare ==
    \E tx \in Transaction : /\ Last.prepared = {} /\ Continues(Last.state, tx)
                            /\ Asked(MutationOf(tx)) /\ Grows(Prepare(tx))

GrowsCommit == CommitLocal /\ \E tx \in Transaction : Last.prepared = {tx} /\ Grows(Commit(tx))

\* The snapshot holds all of it, and the log is kept or emptied.
Saves ==
    /\ Last.prepared = {} /\ snapshot' = Last.state
    /\ UNCHANGED <<wal, synced>> \/ (wal' = <<>> /\ synced' = 0)

Cuts ==
    /\ \E n \in synced..Len(wal) : wal' = SubSeq(wal, 1, n)
    /\ UNCHANGED <<synced, snapshot>>

FileEffect == Stays \/ GrowsPrepare \/ GrowsCommit \/ Saves \/ Cuts

\* The facts about an image that other facts rest on.
LEMMA LastFacts ==
    ASSUME RegistryInv
    PROVE  /\ wal \in Seq(Frame) /\ Len(wal) \in Nat /\ Len(wal) \in 0..Len(wal)
           /\ StateOK(snapshot) /\ StateOK(Last.state) /\ ImageOK(Last, Len(snapshot.lastTx))
           /\ synced \in Nat /\ synced <= Len(wal)
  <1>1. wal \in Seq(Frame) /\ Len(wal) \in Nat /\ Len(wal) \in 0..Len(wal) /\ StateOK(snapshot)
    BY DEF RegistryInv, LogOK
  <1>2. ImageOK(Last, Len(snapshot.lastTx))
    BY <1>1 DEF RegistryInv, LogOK, Last, LastImage
  <1>3. StateOK(Last.state)
    BY <1>2 DEF ImageOK
  <1>4. synced \in Nat /\ synced <= Len(wal)
    BY <1>1 DEF RegistryInv, MemoryOK
  <1> QED
    BY <1>1, <1>2, <1>3, <1>4

\* While the registry is open its state is well formed.
LEMMA OpenState ==
    ASSUME RegistryInv, up
    PROVE  /\ Last.state = State /\ Last.prepared = PendingTxs(pending) /\ StateOK(State)
           /\ State.records = records /\ State.versions = versions /\ State.lastTx = lastTx
           /\ versions \in [Task -> Nat] /\ lastTx \in Seq(Entry)
           /\ records = [t \in Task |-> records[t]] /\ \A t \in Task : RecordOK(records[t])
  <1>1. Last.state = State /\ Last.prepared = PendingTxs(pending) /\ StateOK(State)
    BY LastFacts DEF RegistryInv, MemoryOK
  <1>2. State.records = records /\ State.versions = versions /\ State.lastTx = lastTx
    BY DEF State
  <1> QED
    BY <1>1, <1>2 DEF StateOK

\* A call starts a transaction of some mutation, or a compaction.
LEMMA CallMutates ==
    ASSUME RegistryInv, Call
    PROVE  compact \/ \E m \in Mutation : Asked(m) /\ Transact(m)
  <1> SUFFICES ASSUME ~compact PROVE \E m \in Mutation : Asked(m) /\ Transact(m)
    OBVIOUS
  <1>1. CASE submit
    BY <1>1 DEF submit, Mutation, Asked
  <1>2. CASE assign
    BY <1>2 DEF assign, Mutation, AssignMutation, Asked
  <1>3. CASE mark_running
    BY <1>3 DEF mark_running, Mutation, RunningMutation, Asked
  <1>4. CASE stage_output
    <2>1. PICK t \in Task, a \in 1..MaxAttempt, n \in Node, c \in Content :
             Transact(ConflictCall(t, a, n, c)) \/ Transact(StageCall(t, a, n, c))
      BY <1>4 DEF stage_output
    <2>2. ConflictCall(t, a, n, c) \in ConflictMutation
      BY DEF ConflictCall, ConflictMutation
    <2>3. copies[c] \in 0..MaxCopies
      BY DEF RegistryInv, MemoryOK
    <2>4. StageCall(t, a, n, c) \in StageMutation
      BY <2>3 DEF StageCall, StageMutation
    <2> QED
      BY <2>1, <2>2, <2>4 DEF Mutation, StageMutation, ConflictMutation, Asked
  <1>5. CASE commit_output
    <2>1. PICK t \in Task : \E s \in records[t].staged :
             Transact([kind |-> "CommitOutput", task |-> t, content |-> s.content])
      BY <1>5 DEF commit_output
    <2>2. PICK s \in records[t].staged :
             Transact([kind |-> "CommitOutput", task |-> t, content |-> s.content])
      BY <2>1
    <2>3. s.content \in Content
      <3>1. up
        BY <2>2 DEF Transact
      <3> QED
        BY <2>2, <3>1, OpenState DEF RecordOK
    <2>4. [kind |-> "CommitOutput", task |-> t, content |-> s.content] \in CommitMutation
      BY <2>3 DEF CommitMutation
    <2> QED
      BY <2>2, <2>4 DEF Mutation, CommitMutation, Asked
  <1>6. CASE fail
    BY <1>6 DEF fail, Mutation, FailureMutation, Asked
  <1>7. CASE cancel
    BY <1>7 DEF cancel, Mutation, CancelMutation, Asked
  <1> QED
    BY <1>1, <1>2, <1>3, <1>4, <1>5, <1>6, <1>7 DEF Call

\* The transaction that PrepareNew builds follows the last image.
LEMMA NewTransaction ==
    ASSUME RegistryInv, up, pending = {}, NEW m \in Mutation, PrepareOk(records, m), NEW tx,
           tx = Append(lastTx, [version |-> versions[m.task], mutation |-> m])
    PROVE  /\ tx \in Transaction /\ Continues(Last.state, tx) /\ MutationOf(tx) = m
           /\ Last.prepared = {}
  <1>1. m.task \in Task
    BY DEF Mutation, SubmitMutation, AssignMutation, RunningMutation, StageMutation,
           ConflictMutation, CommitMutation, FailureMutation, CancelMutation
  <1>2. PICK e : e = [version |-> versions[m.task], mutation |-> m]
    OBVIOUS
  <1>3. e \in Entry /\ e.mutation = m /\ e.version = versions[m.task]
    BY <1>1, <1>2, OpenState DEF Entry
  <1>4. tx \in Transaction /\ Previous(tx) = lastTx /\ LastOf(tx) = e
    BY <1>2, <1>3, OpenState, TransactionAppend
  <1>5. MutationOf(tx) = m /\ TaskOf(tx) = m.task
    BY <1>3, <1>4 DEF MutationOf, TaskOf
  <1>6. Continues(Last.state, tx)
    BY <1>3, <1>4, <1>5, OpenState DEF Continues
  <1>7. Last.prepared = {}
    BY OpenState DEF PendingTxs
  <1> QED
    BY <1>4, <1>5, <1>6, <1>7

\* The pending transaction while it is being replicated.
LEMMA PendingFacts ==
    ASSUME RegistryInv, up, phase = "replicate"
    PROVE  /\ Pending.tx \in Transaction /\ Pending.proofs \in SUBSET ReplicaId
           /\ pending = {Pending} /\ Last.prepared = {Pending.tx}
           /\ Pending = [tx |-> Pending.tx, proofs |-> Pending.proofs]
  <1>1. PICK tx \in Transaction, proofs \in SUBSET ReplicaId : pending = {[tx |-> tx, proofs |-> proofs]}
    BY DEF RegistryInv, MemoryOK, PendingOK
  <1>2. PICK p : p = [tx |-> tx, proofs |-> proofs]
    OBVIOUS
  <1>3. Pending = p
    BY <1>1, <1>2 DEF Pending
  <1>4. p.tx = tx /\ p.proofs = proofs
    BY <1>2
  <1>5. Last.prepared = {Pending.tx}
    BY <1>1, <1>2, <1>3, OpenState DEF PendingTxs
  <1> QED
    BY <1>1, <1>2, <1>3, <1>4, <1>5

\* Every step changes the log in one of the ways above.
LEMMA StepEffect ==
    ASSUME RegistryInv, [Next]_vars
    PROVE  FileEffect
  <1>1. CASE UNCHANGED vars
    BY <1>1 DEF vars, files, memory, FileEffect, Stays
  <1>2. ASSUME NEW m \in Mutation, Asked(m), Transact(m) PROVE FileEffect
    <2>1. up /\ PrepareOk(records, m) /\ UNCHANGED snapshot
      BY <1>2 DEF Transact
    <2>2. CASE PrepareNew(m)
      <3>1. PICK tx : tx = Append(lastTx, [version |-> versions[m.task], mutation |-> m])
        OBVIOUS
      <3>2. pending = {} /\ AppendFrame(Prepare(tx), Syncs(AcceptanceOf(records, m)))
        BY <2>2, <3>1 DEF PrepareNew
      <3>3. tx \in Transaction /\ Continues(Last.state, tx) /\ MutationOf(tx) = m /\ Last.prepared = {}
        BY <2>1, <3>1, <3>2, NewTransaction
      <3>4. Prepare(tx).tx = tx /\ Last.state.records = records
        BY <2>1, OpenState DEF Prepare
      <3>5. Grows(Prepare(tx))
        BY <2>1, <3>2, <3>3, <3>4 DEF Grows, AppendFrame
      <3> QED
        BY <1>2, <3>3, <3>5 DEF GrowsPrepare, FileEffect
    <2>3. CASE ResumePending(m)
      BY <2>1, <2>3 DEF ResumePending, FileEffect, Stays
    <2> QED
      BY <1>2, <2>2, <2>3 DEF Transact
  <1>3. CASE compact
    BY <1>3 DEF compact, files, FileEffect, Stays
  <1>4. CASE Replicate
    BY <1>4 DEF Replicate, FileEffect, Stays
  <1>5. CASE GiveUp
    BY <1>5 DEF GiveUp, files, FileEffect, Stays
  <1>6. CASE CommitLocal
    <2>1. /\ up /\ phase = "replicate" /\ UNCHANGED snapshot
          /\ AppendFrame(Commit(Pending.tx), Syncs(AcceptanceOf(records, MutationOf(Pending.tx))))
      BY <1>6 DEF CommitLocal
    <2>2. Pending.tx \in Transaction /\ Last.prepared = {Pending.tx} /\ Last.state.records = records
      BY <2>1, PendingFacts, OpenState
    <2>3. Commit(Pending.tx).tx = Pending.tx
      BY DEF Commit
    <2>4. Grows(Commit(Pending.tx))
      BY <2>1, <2>2, <2>3 DEF Grows, AppendFrame
    <2> QED
      BY <1>6, <2>2, <2>4 DEF GrowsCommit, FileEffect
  <1>7. CASE CommitLocalFails
    BY <1>7 DEF CommitLocalFails, files, FileEffect, Stays
  <1>8. ASSUME up, phase \in {"snapshot", "truncate"} PROVE Last.prepared = {} /\ Last.state = State
    <2>1. pending = {}
      BY <1>8 DEF RegistryInv, MemoryOK
    <2> QED
      BY <1>8, <2>1, OpenState DEF PendingTxs
  <1>9. CASE WriteSnapshot
    BY <1>8, <1>9 DEF WriteSnapshot, FileEffect, Saves
  <1>10. CASE WriteSnapshotFails
    <2>1. CASE snapshot' = snapshot
      BY <1>10, <2>1 DEF WriteSnapshotFails, FileEffect, Stays
    <2>2. CASE snapshot' = State
      BY <1>8, <1>10, <2>2 DEF WriteSnapshotFails, FileEffect, Saves
    <2> QED
      BY <1>10, <2>1, <2>2 DEF WriteSnapshotFails
  <1>11. ASSUME up, phase = "truncate", wal' = <<>>, synced' = 0, UNCHANGED snapshot
         PROVE  FileEffect
    <2>1. snapshot = State
      BY <1>11 DEF RegistryInv, MemoryOK
    <2> QED
      BY <1>8, <1>11, <2>1 DEF FileEffect, Saves
  <1>12. CASE TruncateWal
    BY <1>11, <1>12 DEF TruncateWal
  <1>13. CASE TruncateWalFails
    <2>1. CASE UNCHANGED <<wal, synced>>
      BY <1>13, <2>1 DEF TruncateWalFails, FileEffect, Stays
    <2>2. CASE wal' = <<>> /\ synced' = 0
      BY <1>11, <1>13, <2>2 DEF TruncateWalFails
    <2> QED
      BY <1>13, <2>1, <2>2 DEF TruncateWalFails
  <1>14. CASE Crash
    BY <1>14 DEF Crash, FileEffect, Cuts
  <1>15. CASE Open
    BY <1>15 DEF Open, FileEffect, Stays
  <1>16. CASE CatalogChanges
    BY <1>16 DEF CatalogChanges, files, FileEffect, Stays
  <1>17. CASE Call
    BY <1>2, <1>3, <1>17, CallMutates
  <1> QED
    BY <1>1, <1>4, <1>5, <1>6, <1>7, <1>9, <1>10, <1>12, <1>13, <1>14, <1>15, <1>16, <1>17 DEF Next, Progress

\* What open finds is the image, and it is not Corrupt.
LEMMA FoundImage ==
    ASSUME NEW snap, NEW frames, LogOK(snap, frames), NEW n \in 0..Len(frames)
    PROVE  /\ ReplayOf(snap, frames)[n].ok
           /\ ReplayOf(snap, frames)[n].state = ReplayFrames(snap, frames)[n].state
           /\ ReplayOf(snap, frames)[n].prepared = ReplayFrames(snap, frames)[n].prepared
  <1>1. PICK after : after = ReplayFrames(snap, frames)
    OBVIOUS
  <1>2. ImageOK(after[n], Len(snap.lastTx))
    BY <1>1 DEF LogOK
  <1>3. PICK found : found = ReplayOf(snap, frames)[n]
    OBVIOUS
  <1>4. found = [after[n] EXCEPT !.ok = after[n].ok /\ PendingRecoverable(after[n])]
    BY <1>1, <1>3 DEF ReplayOf
  <1>5. DOMAIN after[n] = {"ok", "base", "state", "prepared", "txs"} /\ after[n].ok = TRUE
    BY <1>2 DEF ImageOK
  <1>6. found.ok = (after[n].ok /\ PendingRecoverable(after[n]))
        /\ found.state = after[n].state /\ found.prepared = after[n].prepared
    BY <1>4, <1>5
  <1>7. found.ok
    BY <1>2, <1>5, <1>6, ImageRecoverable
  <1> QED
    BY <1>1, <1>3, <1>6, <1>7

\* The state of a new registry is well formed.
LEMMA EmptyStateOK == StateOK(EmptyState)
  <1>1. Fast \in AcceptanceMode
    BY DEF AcceptanceMode
  <1>2. RecordOK(NoRecord)
    BY <1>1 DEF NoRecord, EmptyRecord, RecordOK
  <1>3. PICK r : r = [t \in Task |-> NoRecord]
    OBVIOUS
  <1>4. PICK v : v = [t \in Task |-> 0]
    OBVIOUS
  <1>5. EmptyState = [records |-> r, versions |-> v, lastTx |-> <<>>]
    BY <1>3, <1>4 DEF EmptyState
  <1>6. v \in [Task -> Nat] /\ <<>> \in Seq(Entry)
    BY <1>4
  <1>7. r = [t \in Task |-> r[t]] /\ \A t \in Task : RecordOK(r[t])
    BY <1>2, <1>3
  <1> QED
    BY <1>5, <1>6, <1>7 DEF StateOK

\* The log of a new registry.
LEMMA InitLog ==
    ASSUME Init
    PROVE  RegistryInv /\ Last = ReplayStart(EmptyState) /\ State = EmptyState
  <1>1. snapshot = EmptyState /\ wal = <<>>
    BY DEF Init
  <1>2. LogOK(snapshot, wal) /\ ReplayFrames(snapshot, wal)[0] = ReplayStart(EmptyState)
    BY <1>1, EmptyStateOK, LogEmpty
  <1>3. Len(wal) = 0
    BY <1>1
  <1>4. Last = ReplayStart(EmptyState)
    BY <1>2, <1>3 DEF Last, LastImage
  <1>5. State = EmptyState
    BY DEF Init, State, EmptyState
  <1>6. Last.state = State /\ Last.prepared = {}
    BY <1>4, <1>5, EmptyStateOK, StartOK
  <1>7. PendingTxs(pending) = {} /\ PendingOK(pending)
    BY DEF Init, PendingTxs, PendingOK
  <1>8. copies \in [Content -> 0..MaxCopies]
    BY LifecycleConstants DEF Init
  <1>9. MemoryOK
    BY <1>3, <1>6, <1>7, <1>8 DEF MemoryOK, Init
  <1> QED
    BY <1>2, <1>4, <1>5, <1>9 DEF RegistryInv

\* Under every effect the log stays well formed.
LEMMA EffectKeepsLog ==
    ASSUME RegistryInv, FileEffect
    PROVE  LogOK(snapshot', wal')
  <1>0. LogOK(snapshot, wal)
    BY DEF RegistryInv
  <1>1. CASE Stays
    BY <1>0, <1>1 DEF Stays
  <1>2. CASE GrowsPrepare
    BY <1>0, <1>2, LogPrepare DEF GrowsPrepare, Grows, Last
  <1>3. CASE GrowsCommit
    BY <1>0, <1>3, LogCommit DEF GrowsCommit, Grows, Last
  <1>4. CASE Saves
    <2>1. snapshot' = Last.state /\ StateOK(Last.state) /\ Last.prepared = {}
      BY <1>4, LastFacts DEF Saves
    <2>2. LogOK(snapshot', wal)
      BY <1>0, <2>1, LogSnapshot DEF Last
    <2>3. LogOK(snapshot', <<>>)
      BY <2>1, LogEmpty
    <2> QED
      BY <1>4, <2>2, <2>3 DEF Saves
  <1>5. CASE Cuts
    <2>1. PICK n \in synced..Len(wal) : wal' = SubSeq(wal, 1, n)
      BY <1>5 DEF Cuts
    <2>2. n \in 0..Len(wal)
      BY LastFacts
    <2> QED
      BY <1>0, <1>5, <2>1, <2>2, LogCut DEF Cuts
  <1> QED
    BY <1>1, <1>2, <1>3, <1>4, <1>5 DEF FileEffect

\* Where the log ends after a frame is added.
LEMMA GrowsLast ==
    ASSUME RegistryInv, NEW f \in Frame, Grows(f)
    PROVE  /\ Len(wal') = Len(wal) + 1 /\ synced' \in 0..Len(wal')
           /\ \A n \in 0..Len(wal) : ReplayFrames(snapshot', wal')[n] = ReplayFrames(snapshot, wal)[n]
  <1>1. wal' = Append(wal, f) /\ snapshot' = snapshot
    BY DEF Grows
  <1>2. /\ Len(wal') = Len(wal) + 1
        /\ \A n \in 0..Len(wal) : ReplayFrames(snapshot', wal')[n] = ReplayFrames(snapshot, wal)[n]
    BY <1>1, LastFacts, LogAppend
  <1>3. synced' = synced \/ synced' = Len(wal')
    BY DEF Grows
  <1>4. synced' \in 0..Len(wal')
    BY <1>2, <1>3, LastFacts
  <1> QED
    BY <1>2, <1>4

-----------------------------------------------------------------------------
(* Memory follows the log.                                                   *)

\* A step that leaves the files alone, and of the memory all but the phase and the proofs.
LEMMA QuietKeeps ==
    ASSUME RegistryInv, UNCHANGED <<up, records, versions, lastTx, wal, snapshot, synced>>,
           copies' \in [Content -> 0..MaxCopies], next' \in Nat \ {0},
           PendingOK(pending'), PendingTxs(pending') = PendingTxs(pending), pending = {} => pending' = {},
           phase' = "idle" \/ (phase' = "replicate" /\ pending' # {} /\ up)
             \/ (phase' = "snapshot" /\ pending' = {} /\ up) \/ UNCHANGED <<phase, pending>>
    PROVE  MemoryOK'
  <1>1. Last' = Last /\ State' = State
    BY DEF Last, State
  <1>2. ~up => phase = "idle" /\ pending = {}
    BY DEF RegistryInv, MemoryOK
  <1> QED
    BY <1>1, <1>2 DEF RegistryInv, MemoryOK

\* A transaction begins.
LEMMA TransactKeeps ==
    ASSUME RegistryInv, NEW m \in Mutation, Transact(m)
    PROVE  MemoryOK'
  <1>1. /\ up /\ phase = "idle" /\ PrepareOk(records, m) /\ phase' = "replicate" /\ next' = 1
        /\ UNCHANGED <<up, records, versions, lastTx, snapshot, copies>>
    BY DEF Transact
  <1>2. copies' \in [Content -> 0..MaxCopies] /\ next' \in Nat \ {0}
    BY <1>1 DEF RegistryInv, MemoryOK
  <1>3. CASE PrepareNew(m)
    <2>1. PICK tx : tx = Append(lastTx, [version |-> versions[m.task], mutation |-> m])
      OBVIOUS
    <2>2. /\ pending = {} /\ AppendFrame(Prepare(tx), Syncs(AcceptanceOf(records, m)))
          /\ pending' = {[tx |-> tx, proofs |-> {}]}
      BY <1>3, <2>1 DEF PrepareNew
    <2>3. tx \in Transaction /\ Continues(Last.state, tx) /\ MutationOf(tx) = m /\ Last.prepared = {}
      BY <1>1, <2>1, <2>2, NewTransaction
    <2>4. Prepare(tx) \in Frame /\ Prepare(tx).tx = tx /\ Last.state.records = records
      BY <1>1, <2>3, OpenState DEF Prepare, Frame
    <2>5. Grows(Prepare(tx))
      BY <1>1, <2>2, <2>3, <2>4 DEF Grows, AppendFrame
    <2>6. synced' \in 0..Len(wal')
      BY <2>4, <2>5, GrowsLast
    <2>7. LastImage(snapshot', wal').state = Last.state /\ LastImage(snapshot', wal').prepared = {tx}
      BY <1>1, <2>3, <2>5, LogPrepare DEF RegistryInv, Last, Grows
    <2>8. PendingOK(pending') /\ PendingTxs(pending') = {tx}
      BY <2>2, <2>3 DEF PendingOK, PendingTxs
    <2>9. State' = State /\ Last.state = State
      BY <1>1, OpenState DEF State
    <2> QED
      BY <1>1, <1>2, <2>2, <2>6, <2>7, <2>8, <2>9 DEF MemoryOK, Last
  <1>4. CASE ResumePending(m)
    <2>1. UNCHANGED <<wal, synced, pending>> /\ pending # {}
      BY <1>4 DEF ResumePending
    <2>2. PendingOK(pending)
      BY DEF RegistryInv, MemoryOK
    <2> QED
      BY <1>1, <1>2, <2>1, <2>2, QuietKeeps
  <1> QED
    BY <1>3, <1>4 DEF Transact

\* One more replica is asked.
LEMMA ReplicateKeeps ==
    ASSUME RegistryInv, Replicate
    PROVE  MemoryOK'
  <1>1. /\ up /\ phase = "replicate" /\ next' = next + 1 /\ next <= Len(Replicas)
        /\ UNCHANGED <<up, records, versions, lastTx, phase, wal, synced, snapshot, copies>>
    <2>1. next \in Nat /\ Len(Replicas) \in Nat
      BY RegistryConstants DEF RegistryInv, MemoryOK
    <2> QED
      BY <2>1 DEF Replicate, ReplicationOver
  <1>2. next \in Nat \ {0} /\ next' \in Nat \ {0} /\ copies' \in [Content -> 0..MaxCopies]
    BY <1>1 DEF RegistryInv, MemoryOK
  <1>3. pending = {Pending}
    BY <1>1, PendingFacts
  <1>4. CASE ReplicaCommits(Replicas[next])
    <2>1. pending' = {[tx |-> Pending.tx, proofs |-> Pending.proofs \cup {Replicas[next]}]}
      BY <1>4 DEF ReplicaCommits
    <2>2. Replicas[next] \in ReplicaId
      BY <1>1, <1>2, RegistryConstants DEF ReplicaId
    <2>3. PICK proofs \in SUBSET ReplicaId : proofs = Pending.proofs \cup {Replicas[next]}
      BY <1>1, <2>2, PendingFacts
    <2>4. PendingOK(pending')
      BY <1>1, <2>1, <2>3, PendingFacts DEF PendingOK
    <2>5. PendingTxs(pending') = {Pending.tx} /\ PendingTxs(pending) = {Pending.tx}
      BY <1>3, <2>1 DEF PendingTxs
    <2> QED
      BY <1>1, <1>2, <1>3, <2>1, <2>4, <2>5, QuietKeeps
  <1>5. CASE UNCHANGED pending
    <2>1. PendingOK(pending)
      BY DEF RegistryInv, MemoryOK
    <2> QED
      BY <1>1, <1>2, <1>5, <2>1, QuietKeeps
  <1> QED
    BY <1>4, <1>5 DEF Replicate

\* The transaction is committed and published.
LEMMA CommitLocalKeeps ==
    ASSUME RegistryInv, CommitLocal
    PROVE  /\ MemoryOK'
           /\ LastImage(snapshot', wal').state = Published(Last.state, Pending.tx)
  <1>1. /\ up /\ phase = "replicate"
        /\ AppendFrame(Commit(Pending.tx), Syncs(AcceptanceOf(records, MutationOf(Pending.tx))))
        /\ phase' \in {"snapshot", "idle"} /\ next' = 1 /\ pending' = {}
        /\ UNCHANGED <<up, snapshot, copies>>
    BY DEF CommitLocal
  <1>2. /\ records' = Published(State, Pending.tx).records
        /\ versions' = Published(State, Pending.tx).versions
        /\ lastTx' = Published(State, Pending.tx).lastTx
    BY DEF CommitLocal
  <1>3. /\ Pending.tx \in Transaction /\ Last.prepared = {Pending.tx} /\ Last.state.records = records
        /\ Last.state = State /\ StateOK(State)
    BY <1>1, PendingFacts, OpenState
  <1>4. Commit(Pending.tx) \in Frame /\ Commit(Pending.tx).tx = Pending.tx
    BY <1>3 DEF Commit, Frame
  <1>5. Grows(Commit(Pending.tx))
    BY <1>1, <1>3, <1>4 DEF Grows, AppendFrame
  <1>6. synced' \in 0..Len(wal')
    BY <1>4, <1>5, GrowsLast
  <1>7. /\ LastImage(snapshot', wal').state = Published(Last.state, Pending.tx)
        /\ LastImage(snapshot', wal').prepared = {}
    <2>1. PICK tx : tx = Pending.tx
      OBVIOUS
    <2>2. wal' = Append(wal, Commit(tx)) /\ snapshot' = snapshot /\ Last.prepared = {tx}
      BY <1>3, <1>5, <2>1 DEF Grows
    <2> QED
      BY <2>1, <2>2, LogCommit DEF RegistryInv, Last
  <1>8. State' = Published(State, Pending.tx)
    <2>1. StateOK(Published(State, Pending.tx))
      BY <1>3, PublishedOK
    <2>2. State' = [records |-> records', versions |-> versions', lastTx |-> lastTx']
      BY DEF State
    <2> QED
      BY <1>2, <2>1, <2>2 DEF StateOK
  <1>9. PendingOK(pending') /\ PendingTxs(pending') = {}
    BY <1>1 DEF PendingOK, PendingTxs
  <1>10. next' \in Nat \ {0} /\ copies' \in [Content -> 0..MaxCopies]
    BY <1>1 DEF RegistryInv, MemoryOK
  <1> QED
    BY <1>1, <1>3, <1>6, <1>7, <1>8, <1>9, <1>10 DEF MemoryOK, Last

\* A snapshot is written, or the log is emptied behind one.
LEMMA SavesKeeps ==
    ASSUME RegistryInv, Saves, up, pending = {},
           UNCHANGED <<up, records, versions, lastTx, pending, copies, next>>,
           phase' = "idle" \/ (phase' = "truncate")
    PROVE  MemoryOK'
  <1>1. Last.state = State /\ Last.prepared = {} /\ StateOK(State) /\ snapshot' = State
    BY OpenState DEF Saves
  <1>2. LastImage(snapshot', wal') = ReplayStart(State) /\ synced' \in 0..Len(wal')
    <2>1. CASE UNCHANGED <<wal, synced>>
      <3>1. \A n \in 0..Len(wal) : ReplayFrames(State, wal)[n] = ReplayStart(State)
        <4>1. LogOK(snapshot, wal) /\ State = LastImage(snapshot, wal).state
              /\ LastImage(snapshot, wal).prepared = {}
          BY <1>1 DEF RegistryInv, Last
        <4> QED
          BY <4>1, LogSnapshot
      <3> QED
        BY <1>1, <2>1, <3>1, LastFacts DEF LastImage
    <2>2. CASE wal' = <<>> /\ synced' = 0
      <3>1. Len(wal') = 0 /\ ReplayFrames(State, wal')[0] = ReplayStart(State)
        BY <1>1, <2>2, LogEmpty
      <3> QED
        BY <1>1, <2>2, <3>1 DEF LastImage
    <2> QED
      BY <2>1, <2>2 DEF Saves
  <1>3. State' = State /\ ReplayStart(State).state = State /\ ReplayStart(State).prepared = {}
    BY <1>1, StartOK DEF State
  <1>4. PendingOK(pending') /\ PendingTxs(pending') = {}
    BY DEF PendingOK, PendingTxs
  <1>5. next' \in Nat \ {0} /\ copies' \in [Content -> 0..MaxCopies]
    BY DEF RegistryInv, MemoryOK
  <1> QED
    BY <1>1, <1>2, <1>3, <1>4, <1>5 DEF MemoryOK, Last

\* The registry stops.
LEMMA CrashKeeps ==
    ASSUME RegistryInv, Crash
    PROVE  MemoryOK'
  <1>1. PICK n \in synced..Len(wal) : wal' = SubSeq(wal, 1, n)
    BY DEF Crash
  <1>2. n \in 0..Len(wal) /\ synced <= n /\ synced \in Nat
    BY LastFacts
  <1>3. Len(wal') = n
    BY <1>1, <1>2, LogCut DEF RegistryInv
  <1>4. synced' \in 0..Len(wal')
    BY <1>2, <1>3 DEF Crash
  <1>5. copies' \in [Content -> 0..MaxCopies]
    BY DEF RegistryInv, MemoryOK, Crash
  <1>6. PendingOK(pending')
    BY DEF Crash, PendingOK
  <1>7. up' = FALSE /\ phase' = "idle" /\ pending' = {} /\ next' \in Nat \ {0}
    BY DEF Crash
  <1> QED
    BY <1>4, <1>5, <1>6, <1>7 DEF MemoryOK

\* The registry is opened: memory becomes the last image.
LEMMA OpenKeeps ==
    ASSUME RegistryInv, Open
    PROVE  MemoryOK'
  <1>1. PICK found : found = Replay(snapshot, wal)
    OBVIOUS
  <1>2. found.state = Last.state /\ found.prepared = Last.prepared
    BY <1>1, LastFacts, FoundImage DEF RegistryInv, Replay, Last, LastImage
  <1>3. /\ ~up /\ up' = TRUE /\ records' = found.state.records /\ versions' = found.state.versions
        /\ lastTx' = found.state.lastTx
        /\ pending' = {[tx |-> p, proofs |-> {}] : p \in found.prepared}
        /\ synced' \in {synced, Len(wal)}
        /\ UNCHANGED <<phase, next, wal, snapshot, copies>>
    BY <1>1 DEF Open
  <1>4. phase = "idle" /\ next' \in Nat \ {0} /\ copies' \in [Content -> 0..MaxCopies]
    BY <1>3 DEF RegistryInv, MemoryOK
  <1>5. State' = Last.state
    <2>1. StateOK(Last.state)
      BY LastFacts
    <2> QED
      BY <1>2, <1>3, <2>1 DEF State, StateOK
  <1>6. PendingOK(pending') /\ PendingTxs(pending') = Last.prepared
    <2>1. CASE Last.prepared = {}
      BY <1>2, <1>3, <2>1 DEF PendingOK, PendingTxs
    <2>2. ASSUME NEW p \in Transaction, Last.prepared = {p}
          PROVE  PendingOK(pending') /\ PendingTxs(pending') = Last.prepared
      <3>1. pending' = {[tx |-> p, proofs |-> {}]}
        BY <1>2, <1>3, <2>2
      <3> QED
        BY <2>2, <3>1 DEF PendingOK, PendingTxs
    <2> QED
      BY <2>1, <2>2, LastFacts DEF ImageOK
  <1>7. Last' = Last
    BY <1>3 DEF Last
  <1>8. synced' \in 0..Len(wal')
    BY <1>3, LastFacts
  <1> QED
    BY <1>3, <1>4, <1>5, <1>6, <1>7, <1>8 DEF MemoryOK

\* Every step keeps the invariant.
LEMMA RegistryInvKept ==
    ASSUME RegistryInv, [Next]_vars
    PROVE  RegistryInv'
  <1>0. SUFFICES MemoryOK'
    BY StepEffect, EffectKeepsLog DEF RegistryInv
  <1>1. PendingOK(pending) /\ next \in Nat \ {0} /\ 1 \in Nat \ {0} /\ copies \in [Content -> 0..MaxCopies]
    BY DEF RegistryInv, MemoryOK
  <1>2. CASE UNCHANGED vars
    BY <1>1, <1>2, QuietKeeps DEF vars, memory, files, RegistryInv
  <1>3. CASE Call
    <2>1. CASE compact
      BY <1>1, <2>1, QuietKeeps DEF compact, files
    <2> QED
      BY <1>3, <2>1, CallMutates, TransactKeeps
  <1>4. CASE Replicate
    BY <1>4, ReplicateKeeps
  <1>5. CASE GiveUp
    BY <1>1, <1>5, QuietKeeps DEF GiveUp, files
  <1>6. CASE CommitLocal
    BY <1>6, CommitLocalKeeps
  <1>7. CASE CommitLocalFails
    BY <1>1, <1>7, QuietKeeps DEF CommitLocalFails, files
  <1>8. ASSUME up, phase \in {"snapshot", "truncate"}
        PROVE  Last.prepared = {} /\ Last.state = State /\ pending = {}
    <2>1. pending = {}
      BY <1>8 DEF RegistryInv, MemoryOK
    <2> QED
      BY <1>8, <2>1, OpenState DEF PendingTxs
  <1>9. CASE WriteSnapshot
    <2>1. Saves /\ pending = {}
      BY <1>8, <1>9 DEF WriteSnapshot, Saves
    <2> QED
      BY <1>9, <2>1, SavesKeeps DEF WriteSnapshot
  <1>10. CASE WriteSnapshotFails
    <2>1. CASE snapshot' = snapshot
      BY <1>1, <1>10, <2>1, QuietKeeps DEF WriteSnapshotFails
    <2>2. CASE snapshot' = State
      <3>1. Saves /\ pending = {}
        BY <1>8, <1>10, <2>2 DEF WriteSnapshotFails, Saves
      <3> QED
        BY <1>10, <3>1, SavesKeeps DEF WriteSnapshotFails
    <2> QED
      BY <1>10, <2>1, <2>2 DEF WriteSnapshotFails
  <1>11. ASSUME up, phase = "truncate", wal' = <<>>, synced' = 0, UNCHANGED snapshot
         PROVE  Saves /\ pending = {}
    <2>1. snapshot = State
      BY <1>11 DEF RegistryInv, MemoryOK
    <2> QED
      BY <1>8, <1>11, <2>1 DEF Saves
  <1>12. CASE TruncateWal
    BY <1>11, <1>12, SavesKeeps DEF TruncateWal
  <1>13. CASE TruncateWalFails
    <2>1. CASE UNCHANGED <<wal, synced>>
      BY <1>1, <1>13, <2>1, QuietKeeps DEF TruncateWalFails
    <2>2. CASE wal' = <<>> /\ synced' = 0
      BY <1>11, <1>13, <2>2, SavesKeeps DEF TruncateWalFails
    <2> QED
      BY <1>13, <2>1, <2>2 DEF TruncateWalFails
  <1>14. CASE Crash
    BY <1>14, CrashKeeps
  <1>15. CASE Open
    BY <1>15, OpenKeeps
  <1>16. CASE CatalogChanges
    <2>1. PICK c \in Content, n \in 0..MaxCopies : copies' = [copies EXCEPT ![c] = n]
      BY <1>16 DEF CatalogChanges
    <2>2. copies' \in [Content -> 0..MaxCopies]
      BY <1>1, <2>1
    <2> QED
      BY <1>1, <1>16, <2>2, QuietKeeps DEF CatalogChanges, memory, files
  <1> QED
    BY <1>2, <1>3, <1>4, <1>5, <1>6, <1>7, <1>9, <1>10, <1>12, <1>13, <1>14, <1>15, <1>16
       DEF Next, Progress

\* The invariant holds in every state.
LEMMA RegistryInvariant == Spec => []RegistryInv
  <1>1. Init => RegistryInv
    BY InitLog
  <1>2. RegistryInv /\ [Next]_vars => RegistryInv'
    BY RegistryInvKept
  <1> QED
    BY <1>1, <1>2, PTL DEF Spec

\* For any number of tasks, replicas and transactions: no sequence of calls, failed writes,
\* interrupted compactions, crashes and restarts leaves a log that open_with_options reports as
\* Corrupt.
THEOREM LogAlwaysOpens == Spec => []NeverCorrupt
  <1>1. RegistryInv => NeverCorrupt
    <2> SUFFICES ASSUME RegistryInv, NEW n \in synced..Len(wal) PROVE ReplayOf(snapshot, wal)[n].ok
      BY DEF NeverCorrupt, CrashImages
    <2>1. n \in 0..Len(wal)
      BY LastFacts
    <2> QED
      BY <2>1, FoundImage DEF RegistryInv
  <1> QED
    BY <1>1, RegistryInvariant, PTL

\* Whenever the registry is open and no call holds its mutex, opening the files again would give
\* the records, versions, last transaction and pending transaction that are in memory.
THEOREM FilesMatchMemory == Spec => []ReplayMatchesMemory
  <1>1. RegistryInv => ReplayMatchesMemory
    <2> SUFFICES ASSUME RegistryInv, up PROVE ReplayMatchesMemory
      BY DEF ReplayMatchesMemory
    <2>1. PICK found : found = Replay(snapshot, wal)
      OBVIOUS
    <2>2. found.state = Last.state /\ found.prepared = Last.prepared
      BY <2>1, LastFacts, FoundImage DEF RegistryInv, Replay, Last, LastImage
    <2> QED
      BY <2>1, <2>2, OpenState DEF ReplayMatchesMemory, PendingTxs
  <1> QED
    BY <1>1, RegistryInvariant, PTL

-----------------------------------------------------------------------------
(* The replicas follow the registry's history.                               *)

Follows(tx, img) == InHistory(tx, img.state.lastTx) \/ tx \in img.prepared

\* A prepared transaction that its task's acceptance mode wants synced.
Awaited(img) == \E p \in img.prepared : Syncs(AcceptanceOf(img.state.records, MutationOf(p)))

\* The transactions in H follow every image a crash may leave, and a prepared transaction that
\* is synced is the last thing a crash can leave.
HistoryOK(H, snap, frames, from) ==
    \A n \in from..Len(frames) :
        /\ \A tx \in H : Follows(tx, ReplayFrames(snap, frames)[n])
        /\ Awaited(ReplayFrames(snap, frames)[n]) => n = from

\* What the replicas hold.
HeldTxs(logs) == {tx \in Transaction : \E r \in ReplicaId : \E i \in DOMAIN logs[r] : logs[r][i] = tx}

ReplicaInv ==
    /\ RegistryInv
    /\ replicaLog \in [ReplicaId -> Seq(Transaction)]
    /\ HistoryOK(HeldTxs(replicaLog), snapshot, wal, synced)

\* What is in a history is in every longer one.
LEMMA HistoryExtends ==
    ASSUME NEW tx \in Transaction, NEW h \in Transaction
    PROVE  InHistory(tx, tx) /\ (InHistory(h, Previous(tx)) => InHistory(h, tx))
  <1>1. /\ tx \in Seq(Entry) /\ h \in Seq(Entry) /\ Len(tx) \in Nat /\ Len(h) \in Nat /\ Len(tx) # 0
        /\ tx = Append(Previous(tx), LastOf(tx)) /\ Previous(tx) \in Seq(Entry)
        /\ Len(tx) = Len(Previous(tx)) + 1 /\ Len(Previous(tx)) \in Nat
    BY TransactionType DEF Transaction
  <1>2. InHistory(tx, tx)
    BY <1>1 DEF InHistory
  <1>3. ASSUME InHistory(h, Previous(tx)) PROVE InHistory(h, tx)
    <2>1. PICK q : q = Previous(tx)
      OBVIOUS
    <2>2. PICK e : e = LastOf(tx)
      OBVIOUS
    <2>3. Len(h) <= Len(q) /\ h = SubSeq(q, 1, Len(h)) /\ q \in Seq(Entry)
      BY <1>1, <1>3, <2>1 DEF InHistory
    <2>4. tx = Append(q, e) /\ Len(q) \in Nat
      BY <1>1, <2>1, <2>2
    <2>5. SubSeq(Append(q, e), 1, Len(h)) = SubSeq(q, 1, Len(h))
      BY <1>1, <2>3, <2>4
    <2> QED
      BY <1>1, <2>1, <2>3, <2>4, <2>5 DEF InHistory
  <1> QED
    BY <1>2, <1>3

\* The acceptance mode of a mutation, and what it asks for.
LEMMA AcceptanceType ==
    ASSUME NEW s, StateOK(s), NEW m \in Mutation
    PROVE  /\ AcceptanceOf(s.records, m) \in AcceptanceMode
           /\ RequiredAcks(AcceptanceOf(s.records, m)) \in Int
           /\ ~Syncs(AcceptanceOf(s.records, m)) => RequiredAcks(AcceptanceOf(s.records, m)) = 0
  <1>1. m.task \in Task
    BY DEF Mutation, SubmitMutation, AssignMutation, RunningMutation, StageMutation,
           ConflictMutation, CommitMutation, FailureMutation, CancelMutation
  <1>2. m.kind = "Submit" => m.acceptance \in AcceptanceMode
    BY DEF Mutation, SubmitMutation, AssignMutation, RunningMutation, StageMutation,
           ConflictMutation, CommitMutation, FailureMutation, CancelMutation
  <1>3. PICK a : a = AcceptanceOf(s.records, m)
    OBVIOUS
  <1>4. a \in AcceptanceMode
    BY <1>1, <1>2, <1>3 DEF AcceptanceOf, StateOK, RecordOK
  <1>5. a.copies \in Nat /\ (~Syncs(a) => a.copies = 1)
    BY <1>4, LifecycleConstants DEF AcceptanceMode, Fast, Durable, Critical, Syncs
  <1> QED
    BY <1>3, <1>4, <1>5 DEF RequiredAcks

\* There are finitely many replicas.
LEMMA ReplicasFinite == IsFiniteSet(ReplicaId)
  <1>1. Len(Replicas) \in Nat /\ DOMAIN Replicas = 1..Len(Replicas)
    BY RegistryConstants
  <1>2. IsFiniteSet(1..Len(Replicas))
    BY <1>1, FS_Interval
  <1>3. PICK f : f = [i \in 1..Len(Replicas) |-> Replicas[i]]
    OBVIOUS
  <1>4. ReplicaId = {f[i] : i \in 1..Len(Replicas)}
    BY <1>1, <1>3 DEF ReplicaId
  <1>5. f \in Surjection(1..Len(Replicas), ReplicaId)
    BY <1>3, <1>4 DEF Surjection
  <1> QED
    BY <1>2, <1>5, FS_Surjection

\* The history is kept by every change of the log.
LEMMA EffectKeepsHistory ==
    ASSUME RegistryInv, FileEffect, NEW H \in SUBSET Transaction, HistoryOK(H, snapshot, wal, synced)
    PROVE  HistoryOK(H, snapshot', wal', synced')
  <1>0. LogOK(snapshot, wal) /\ Len(wal) \in Nat /\ synced \in Nat /\ synced <= Len(wal)
        /\ Len(wal) \in synced..Len(wal)
    BY LastFacts DEF RegistryInv
  <1>1. \A tx \in H : Follows(tx, Last)
    BY <1>0 DEF HistoryOK, Last, LastImage
  <1>2. CASE Stays
    <2> SUFFICES ASSUME NEW n \in synced'..Len(wal')
                 PROVE  /\ \A tx \in H : Follows(tx, ReplayFrames(snapshot', wal')[n])
                        /\ Awaited(ReplayFrames(snapshot', wal')[n]) => n = synced'
      BY DEF HistoryOK
    <2>1. wal' = wal /\ snapshot' = snapshot /\ (synced' = synced \/ synced' = Len(wal))
      BY <1>2 DEF Stays
    <2>2. n \in synced..Len(wal) /\ (synced' # synced => n = synced')
      BY <1>0, <2>1
    <2>3. /\ \A tx \in H : Follows(tx, ReplayFrames(snapshot, wal)[n])
          /\ Awaited(ReplayFrames(snapshot, wal)[n]) => n = synced
      BY <2>2 DEF HistoryOK
    <2> QED
      BY <2>1, <2>2, <2>3
  <1>3. ASSUME NEW f \in Frame, Grows(f),
               \A tx \in H : Follows(tx, LastImage(snapshot', wal')),
               Awaited(LastImage(snapshot', wal')) => synced' = Len(wal')
        PROVE  HistoryOK(H, snapshot', wal', synced')
    <2> SUFFICES ASSUME NEW n \in synced'..Len(wal')
                 PROVE  /\ \A tx \in H : Follows(tx, ReplayFrames(snapshot', wal')[n])
                        /\ Awaited(ReplayFrames(snapshot', wal')[n]) => n = synced'
      BY DEF HistoryOK
    <2>1. Len(wal') = Len(wal) + 1 /\ (synced' = synced \/ synced' = Len(wal'))
      BY <1>3, GrowsLast DEF Grows
    <2>2. CASE n = Len(wal')
      BY <1>3, <2>2 DEF LastImage
    <2>3. CASE n # Len(wal')
      <3>1. synced' = synced /\ n \in synced..Len(wal) /\ n \in 0..Len(wal)
        BY <1>0, <2>1, <2>3
      <3>2. ReplayFrames(snapshot', wal')[n] = ReplayFrames(snapshot, wal)[n]
        BY <1>3, <3>1, GrowsLast
      <3>3. /\ \A tx \in H : Follows(tx, ReplayFrames(snapshot, wal)[n])
            /\ Awaited(ReplayFrames(snapshot, wal)[n]) => n = synced
        BY <3>1 DEF HistoryOK
      <3> QED
        BY <3>1, <3>2, <3>3
    <2> QED
      BY <2>2, <2>3
  <1>4. CASE GrowsPrepare
    <2>1. PICK tx \in Transaction : Last.prepared = {} /\ Continues(Last.state, tx) /\ Grows(Prepare(tx))
      BY <1>4 DEF GrowsPrepare
    <2>2. PICK img : img = LastImage(snapshot', wal')
      OBVIOUS
    <2>3. img.state = Last.state /\ img.prepared = {tx}
      BY <1>0, <2>1, <2>2, LogPrepare DEF Last, Grows
    <2>4. Prepare(tx) \in Frame /\ Prepare(tx).tx = tx
      BY DEF Prepare, Frame
    <2>5. \A h \in H : Follows(h, img)
      BY <1>1, <2>1, <2>3 DEF Follows
    <2>6. Awaited(img) => synced' = Len(wal')
      BY <2>1, <2>3, <2>4 DEF Awaited, Grows
    <2> QED
      BY <1>3, <2>1, <2>2, <2>4, <2>5, <2>6
  <1>5. CASE GrowsCommit
    <2>1. PICK tx \in Transaction : Last.prepared = {tx} /\ Grows(Commit(tx))
      BY <1>5 DEF GrowsCommit
    <2>2. PICK img : img = LastImage(snapshot', wal')
      OBVIOUS
    <2>3. img.state = Published(Last.state, tx) /\ img.prepared = {} /\ Continues(Last.state, tx)
      BY <1>0, <2>1, <2>2, LogCommit DEF Last, Grows
    <2>4. img.state.lastTx = tx /\ Previous(tx) = Last.state.lastTx
      BY <2>3, LastFacts, PublishedOK DEF Continues
    <2>5. Commit(tx) \in Frame
      BY DEF Commit, Frame
    <2>6. \A h \in H : Follows(h, img)
      BY <1>1, <2>1, <2>4, HistoryExtends DEF Follows
    <2>7. ~Awaited(img)
      BY <2>3 DEF Awaited
    <2> QED
      BY <1>3, <2>1, <2>2, <2>5, <2>6, <2>7
  <1>6. CASE Saves
    <2>1. PICK s : s = Last.state
      OBVIOUS
    <2>2. snapshot' = s /\ Last.prepared = {} /\ StateOK(s)
      BY <1>6, <2>1, LastFacts DEF Saves
    <2>3. \A n \in synced'..Len(wal') : ReplayFrames(snapshot', wal')[n] = ReplayStart(s)
      <3>1. CASE UNCHANGED <<wal, synced>>
        <4>1. \A n \in 0..Len(wal) : ReplayFrames(s, wal)[n] = ReplayStart(s)
          BY <1>0, <2>1, <2>2, LogSnapshot DEF Last
        <4>2. \A n \in synced..Len(wal) : n \in 0..Len(wal)
          BY <1>0
        <4> QED
          BY <2>2, <3>1, <4>1, <4>2
      <3>2. CASE wal' = <<>> /\ synced' = 0
        <4>1. \A n \in synced'..Len(wal') : n = 0
          BY <3>2
        <4> QED
          BY <2>2, <3>2, <4>1, LogEmpty
      <3> QED
        BY <1>6, <3>1, <3>2 DEF Saves
    <2>4. ReplayStart(s).state = s /\ ReplayStart(s).prepared = {}
      BY <2>2, StartOK
    <2>5. (\A tx \in H : Follows(tx, ReplayStart(s))) /\ ~Awaited(ReplayStart(s))
      BY <1>1, <2>1, <2>2, <2>4 DEF Follows, Awaited
    <2> QED
      BY <2>3, <2>5 DEF HistoryOK
  <1>7. CASE Cuts
    <2>1. PICK m \in synced..Len(wal) : wal' = SubSeq(wal, 1, m)
      BY <1>7 DEF Cuts
    <2>2. m \in 0..Len(wal) /\ snapshot' = snapshot /\ synced' = synced
      BY <1>0, <1>7 DEF Cuts
    <2>3. Len(wal') = m /\ \A n \in 0..m : ReplayFrames(snapshot', wal')[n] = ReplayFrames(snapshot, wal)[n]
      BY <1>0, <2>1, <2>2, LogCut
    <2>4. \A n \in synced'..Len(wal') : n \in 0..m /\ n \in synced..Len(wal)
      BY <1>0, <2>2, <2>3
    <2> QED
      BY <2>2, <2>3, <2>4 DEF HistoryOK
  <1> QED
    BY <1>2, <1>4, <1>5, <1>6, <1>7 DEF FileEffect

\* replicate_transaction reaches a replica only for a transaction that is synced.
LEMMA ReplicatedIsSynced ==
    ASSUME ReplicaInv, up, phase = "replicate", ~EnoughProofs
    PROVE  \A n \in synced..Len(wal) : Pending.tx \in ReplayFrames(snapshot, wal)[n].prepared
  <1>1. RegistryInv /\ HistoryOK(HeldTxs(replicaLog), snapshot, wal, synced)
    BY DEF ReplicaInv
  <1>2. /\ Pending.tx \in Transaction /\ Pending.proofs \in SUBSET ReplicaId
        /\ Last.prepared = {Pending.tx} /\ Last.state.records = records
    BY <1>1, PendingFacts, OpenState
  <1>3. MutationOf(Pending.tx) \in Mutation
    BY <1>2, TransactionType
  <1>4. PICK a : a = AcceptanceOf(records, MutationOf(Pending.tx))
    OBVIOUS
  <1>5. RequiredAcks(a) \in Int /\ (~Syncs(a) => RequiredAcks(a) = 0)
    <2>1. StateOK(Last.state)
      BY <1>1, LastFacts
    <2> QED
      BY <1>2, <1>3, <1>4, <2>1, AcceptanceType
  <1>6. Cardinality(Pending.proofs) \in Nat
    BY <1>2, ReplicasFinite, FS_Subset, FS_CardinalityType
  <1>7. ~(Cardinality(Pending.proofs) >= RequiredAcks(a))
    BY <1>4 DEF EnoughProofs, Required
  <1>8. Syncs(a)
    BY <1>5, <1>6, <1>7
  <1>9. Awaited(Last)
    BY <1>2, <1>4, <1>8 DEF Awaited
  <1>10. Len(wal) \in synced..Len(wal) /\ synced \in Nat /\ Len(wal) \in Nat
    BY <1>1, LastFacts
  <1>11. Len(wal) = synced
    BY <1>1, <1>9, <1>10 DEF HistoryOK, Last, LastImage
  <1>12. \A n \in synced..Len(wal) : n = Len(wal)
    BY <1>10, <1>11
  <1> QED
    BY <1>2, <1>12 DEF Last, LastImage

\* The replicas' logs change only when one of them commits the pending transaction.
LEMMA ReplicaStep ==
    ASSUME [Next]_vars
    PROVE  \/ UNCHANGED replicaLog
           \/ Replicate /\ ReplicaCommits(Replicas[next])
  <1>1. CASE UNCHANGED vars
    BY <1>1 DEF vars, files
  <1>2. ASSUME NEW m, Transact(m) PROVE UNCHANGED replicaLog
    BY <1>2 DEF Transact
  <1>3. CASE Call
    <2>1. CASE compact
      BY <2>1 DEF compact, files
    <2>2. CASE ~compact
      BY <1>2, <1>3, <2>2
         DEF Call, submit, assign, mark_running, stage_output, commit_output, fail, cancel
    <2> QED
      BY <2>1, <2>2
  <1>4. CASE Replicate
    BY <1>4 DEF Replicate
  <1>5. CASE GiveUp \/ CommitLocal \/ CommitLocalFails
    BY <1>5 DEF GiveUp, CommitLocal, CommitLocalFails, files
  <1>6. CASE WriteSnapshot \/ WriteSnapshotFails
    BY <1>6 DEF WriteSnapshot, WriteSnapshotFails
  <1>7. CASE TruncateWal \/ TruncateWalFails
    BY <1>7 DEF TruncateWal, TruncateWalFails
  <1>8. CASE Crash \/ Open \/ CatalogChanges
    BY <1>8 DEF Crash, Open, CatalogChanges, files
  <1> QED
    BY <1>1, <1>3, <1>4, <1>5, <1>6, <1>7, <1>8 DEF Next, Progress

\* What a replica's commit adds to its log.
LEMMA ReplicaCommitAdds ==
    ASSUME RegistryInv, replicaLog \in [ReplicaId -> Seq(Transaction)],
           Replicate, ReplicaCommits(Replicas[next])
    PROVE  /\ Replicas[next] \in ReplicaId /\ Pending.tx \in Transaction
           /\ replicaLog' \in [ReplicaId -> Seq(Transaction)]
           /\ \A r \in ReplicaId : \A i \in DOMAIN replicaLog[r] :
                 i \in DOMAIN replicaLog'[r] /\ replicaLog'[r][i] = replicaLog[r][i]
           /\ \E i \in DOMAIN replicaLog'[Replicas[next]] : replicaLog'[Replicas[next]][i] = Pending.tx
           /\ \A r \in ReplicaId : \A i \in DOMAIN replicaLog'[r] :
                 \/ replicaLog'[r][i] = Pending.tx
                 \/ i \in DOMAIN replicaLog[r] /\ replicaLog'[r][i] = replicaLog[r][i]
  <1>1. up /\ phase = "replicate" /\ next <= Len(Replicas) /\ next \in Nat \ {0} /\ Len(Replicas) \in Nat
    <2>1. next \in Nat \ {0} /\ Len(Replicas) \in Nat
      BY RegistryConstants DEF RegistryInv, MemoryOK
    <2> QED
      BY <2>1 DEF Replicate, ReplicationOver
  <1>2. PICK id \in ReplicaId : id = Replicas[next]
    BY <1>1, RegistryConstants DEF ReplicaId
  <1>3. PICK tx \in Transaction : tx = Pending.tx
    BY <1>1, PendingFacts
  <1>4. CASE ReplicaHolds(id, tx)
    <2>1. replicaLog' = replicaLog /\ \E i \in DOMAIN replicaLog[id] : replicaLog[id][i] = tx
      BY <1>2, <1>3, <1>4 DEF ReplicaCommits, ReplicaHolds
    <2> QED
      BY <1>2, <1>3, <2>1
  <1>5. CASE ~ReplicaHolds(id, tx)
    <2>1. PICK old \in Seq(Transaction) : old = replicaLog[id]
      OBVIOUS
    <2>2. PICK new : new = Append(old, tx)
      OBVIOUS
    <2>3. replicaLog' = [replicaLog EXCEPT ![id] = new]
      BY <1>2, <1>3, <1>5, <2>1, <2>2 DEF ReplicaCommits
    <2>4. /\ new \in Seq(Transaction) /\ Len(new) \in DOMAIN new /\ new[Len(new)] = tx
          /\ \A i \in DOMAIN old : i \in DOMAIN new /\ new[i] = old[i]
          /\ \A i \in DOMAIN new : new[i] = tx \/ (i \in DOMAIN old /\ new[i] = old[i])
      BY <2>2
    <2>5. /\ replicaLog' \in [ReplicaId -> Seq(Transaction)] /\ replicaLog'[id] = new
          /\ \A r \in ReplicaId : r # id => replicaLog'[r] = replicaLog[r]
      BY <2>3, <2>4
    <2> QED
      BY <1>2, <1>3, <2>1, <2>4, <2>5
  <1> QED
    BY <1>4, <1>5

\* The replicas follow the history in every state.
LEMMA ReplicaInvariant == Spec => []ReplicaInv
  <1>1. Init => ReplicaInv
    <2> SUFFICES ASSUME Init PROVE ReplicaInv
      OBVIOUS
    <2>1. replicaLog = [r \in ReplicaId |-> <<>>] /\ <<>> \in Seq(Transaction) /\ DOMAIN <<>> = {}
      BY DEF Init
    <2>2. replicaLog \in [ReplicaId -> Seq(Transaction)] /\ HeldTxs(replicaLog) = {}
      BY <2>1 DEF HeldTxs
    <2>3. RegistryInv /\ Last = ReplayStart(EmptyState) /\ Len(wal) = 0 /\ synced = 0
      BY InitLog DEF Init
    <2>4. Last.prepared = {}
      BY <2>3, EmptyStateOK, StartOK
    <2>5. ~Awaited(Last)
      BY <2>4 DEF Awaited
    <2>6. \A n \in synced..Len(wal) : n = Len(wal)
      BY <2>3
    <2>7. HistoryOK(HeldTxs(replicaLog), snapshot, wal, synced)
      BY <2>2, <2>5, <2>6 DEF HistoryOK, Last, LastImage
    <2> QED
      BY <2>2, <2>3, <2>7 DEF ReplicaInv
  <1>2. ReplicaInv /\ [Next]_vars => ReplicaInv'
    <2> SUFFICES ASSUME ReplicaInv, [Next]_vars PROVE ReplicaInv'
      OBVIOUS
    <2>1. RegistryInv /\ FileEffect /\ RegistryInv'
      BY StepEffect, RegistryInvKept DEF ReplicaInv
    <2>2. HistoryOK(HeldTxs(replicaLog), snapshot', wal', synced')
      BY <2>1, EffectKeepsHistory DEF ReplicaInv, HeldTxs
    <2>3. CASE UNCHANGED replicaLog
      BY <2>1, <2>2, <2>3 DEF ReplicaInv
    <2>4. CASE Replicate /\ ReplicaCommits(Replicas[next])
      <3>1. replicaLog \in [ReplicaId -> Seq(Transaction)]
        BY DEF ReplicaInv
      <3>2. HeldTxs(replicaLog') \subseteq HeldTxs(replicaLog) \cup {Pending.tx}
            /\ replicaLog' \in [ReplicaId -> Seq(Transaction)]
        BY <2>1, <2>4, <3>1, ReplicaCommitAdds DEF HeldTxs
      <3>3. /\ up /\ phase = "replicate" /\ ~EnoughProofs /\ synced' = synced
            /\ wal' = wal /\ snapshot' = snapshot
        BY <2>4 DEF Replicate, ReplicationOver
      <3>4. \A n \in synced'..Len(wal') : Pending.tx \in ReplayFrames(snapshot', wal')[n].prepared
        BY <3>3, ReplicatedIsSynced
      <3>5. HistoryOK(HeldTxs(replicaLog'), snapshot', wal', synced')
        BY <2>2, <3>2, <3>4 DEF HistoryOK, Follows
      <3> QED
        BY <2>1, <3>2, <3>5 DEF ReplicaInv
    <2> QED
      BY <2>3, <2>4, ReplicaStep
  <1> QED
    BY <1>1, <1>2, PTL DEF Spec

\* Whatever a crash leaves of the log, every transaction in a replica's log is in the history that
\* replay recovers or is the transaction it recovers as pending: FileMetadataReplica::commit never
\* meets another transaction with an index it already holds.
THEOREM ReplicasNeverDiverge == Spec => []ReplicasFollowHistory
  <1>1. ReplicaInv => ReplicasFollowHistory
    <2> SUFFICES ASSUME ReplicaInv, NEW n \in synced..Len(wal), NEW r \in ReplicaId,
                        NEW i \in DOMAIN replicaLog[r]
                 PROVE  \/ InHistory(replicaLog[r][i], ReplayOf(snapshot, wal)[n].state.lastTx)
                        \/ replicaLog[r][i] \in ReplayOf(snapshot, wal)[n].prepared
      BY DEF ReplicasFollowHistory, CrashImages
    <2>1. RegistryInv /\ LogOK(snapshot, wal)
      BY DEF ReplicaInv, RegistryInv
    <2>2. n \in 0..Len(wal)
      BY <2>1, LastFacts
    <2>3. replicaLog[r] \in Seq(Transaction)
      BY DEF ReplicaInv
    <2>4. replicaLog[r][i] \in Transaction
      BY <2>3
    <2>5. replicaLog[r][i] \in HeldTxs(replicaLog)
      BY <2>4 DEF HeldTxs
    <2>6. Follows(replicaLog[r][i], ReplayFrames(snapshot, wal)[n])
      BY <2>5 DEF ReplicaInv, HistoryOK
    <2> QED
      BY <2>1, <2>2, <2>6, FoundImage DEF Follows
  <1> QED
    BY <1>1, ReplicaInvariant, PTL

-----------------------------------------------------------------------------
(* Published transactions have their copies.                                 *)

Holders(logs, tx) == {r \in ReplicaId : \E i \in DOMAIN logs[r] : logs[r][i] = tx}

\* A transaction has the copies that the acceptance mode of its task, which is known, asks for.
Copied(logs, s, tx) ==
    /\ Known(s.records[TaskOf(tx)])
    /\ Cardinality(Holders(logs, tx)) >= RequiredAcks(s.records[TaskOf(tx)].acceptance)

HistoryCopied(logs, s) == \A i \in 1..Len(s.lastTx) : Copied(logs, s, SubSeq(s.lastTx, 1, i))

LogCopied(logs, snap, frames) ==
    \A n \in 0..Len(frames) : HistoryCopied(logs, ReplayFrames(snap, frames)[n].state)

CopiesInv ==
    /\ RegistryInv
    /\ replicaLog \in [ReplicaId -> Seq(Transaction)]
    /\ LogCopied(replicaLog, snapshot, wal)
    /\ \A p \in pending : p.proofs \subseteq Holders(replicaLog, p.tx)

\* The beginnings of a history.
LEMMA HistoryPrefix ==
    ASSUME NEW h \in Seq(Entry), NEW i \in 1..Len(h)
    PROVE  SubSeq(h, 1, i) \in Transaction
  <1>1. Len(h) \in Nat /\ i \in Nat /\ 1 <= i /\ i <= Len(h)
    OBVIOUS
  <1>2. PICK q : q = SubSeq(h, 1, i)
    OBVIOUS
  <1>3. \A k \in 1..i : h[k] \in Entry
    BY <1>1
  <1>4. q \in Seq(Entry) /\ Len(q) = (IF 1 <= i THEN i - 1 + 1 ELSE 0)
    BY <1>1, <1>2, <1>3, SubSeqProperties
  <1>5. Len(q) = i /\ Len(<<>>) = 0
    BY <1>1, <1>4
  <1> QED
    BY <1>1, <1>2, <1>4, <1>5 DEF Transaction

\* Copies are counted in numbers, and more holders are more copies.
LEMMA MoreHolders ==
    ASSUME NEW s, StateOK(s), NEW tx \in Transaction, NEW l1, NEW l2, Copied(l1, s, tx),
           Holders(l1, tx) \subseteq Holders(l2, tx)
    PROVE  Copied(l2, s, tx)
  <1>1. TaskOf(tx) \in Task
    BY TransactionType
  <1>2. PICK a \in AcceptanceMode : a = s.records[TaskOf(tx)].acceptance
    BY <1>1 DEF StateOK, RecordOK
  <1>3. RequiredAcks(a) \in Int
    BY LifecycleConstants DEF AcceptanceMode, Fast, Durable, Critical, RequiredAcks
  <1>4. IsFiniteSet(Holders(l2, tx))
    BY ReplicasFinite, FS_Subset DEF Holders
  <1>5. /\ Cardinality(Holders(l1, tx)) \in Nat /\ Cardinality(Holders(l2, tx)) \in Nat
        /\ Cardinality(Holders(l1, tx)) <= Cardinality(Holders(l2, tx))
    BY <1>4, FS_Subset, FS_CardinalityType
  <1>6. Cardinality(Holders(l1, tx)) >= RequiredAcks(a)
    BY <1>2 DEF Copied
  <1>7. Cardinality(Holders(l2, tx)) >= RequiredAcks(a)
    BY <1>3, <1>5, <1>6
  <1> QED
    BY <1>2, <1>7 DEF Copied

\* What publishing does to the record of a task: the acceptance mode is the one the transaction
\* was acknowledged under, and a task that was known keeps it.
LEMMA PublishedAcceptance ==
    ASSUME NEW s, StateOK(s), NEW tx \in Transaction, Continues(s, tx)
    PROVE  /\ Known(Published(s, tx).records[TaskOf(tx)])
           /\ Published(s, tx).records[TaskOf(tx)].acceptance = AcceptanceOf(s.records, MutationOf(tx))
           /\ Known(s.records[TaskOf(tx)]) =>
                 Published(s, tx).records[TaskOf(tx)].acceptance = s.records[TaskOf(tx)].acceptance
           /\ \A t \in Task : t # TaskOf(tx) => Published(s, tx).records[t] = s.records[t]
  <1>1. PICK m \in Mutation : m = MutationOf(tx)
    BY TransactionType
  <1>2. PICK t \in Task : t = m.task /\ TaskOf(tx) = t
    BY <1>1, TransactionType DEF TaskOf
  <1>3. PrepareOk(s.records, m)
    BY <1>1 DEF Continues
  <1>4. PICK new : new = Published(s, tx).records
    OBVIOUS
  <1>5. new = [s.records EXCEPT ![t] = Resulting(s.records[t], m)]
    BY <1>1, <1>2, <1>4 DEF Published, Applied
  <1>6. s.records = [u \in Task |-> s.records[u]] /\ RecordOK(s.records[t])
    BY DEF StateOK
  <1>7. new[t] = Resulting(s.records[t], m) /\ \A u \in Task : u # t => new[u] = s.records[u]
    BY <1>5, <1>6
  <1>8. /\ m.kind = "Submit" => new[t].acceptance = m.acceptance
        /\ m.kind # "Submit" => new[t].acceptance = s.records[t].acceptance
        /\ m.kind # "ConflictOutput" => Known(new[t])
        /\ m.kind = "ConflictOutput" => (Known(new[t]) <=> Known(s.records[t]))
    BY <1>6, <1>7, ResultingOK
  <1>9. m.kind = "ConflictOutput" => Known(s.records[t])
    BY <1>2, <1>3 DEF PrepareOk
  <1>10. m.kind = "Submit" => ~Known(s.records[t])
    BY <1>2, <1>3 DEF PrepareOk, SubmitOk
  <1> QED
    BY <1>1, <1>2, <1>4, <1>7, <1>8, <1>9, <1>10 DEF AcceptanceOf

\* Publishing a transaction that has its copies.
LEMMA PublishCopied ==
    ASSUME NEW s, StateOK(s), NEW tx \in Transaction, Continues(s, tx), NEW logs, HistoryCopied(logs, s),
           Cardinality(Holders(logs, tx)) >= RequiredAcks(AcceptanceOf(s.records, MutationOf(tx)))
    PROVE  HistoryCopied(logs, Published(s, tx))
  <1>1. PICK new : new = Published(s, tx)
    OBVIOUS
  <1>2. new.lastTx = tx
    BY <1>1, PublishedOK
  <1>3. /\ tx \in Seq(Entry) /\ Len(tx) \in Nat /\ Previous(tx) = s.lastTx /\ s.lastTx \in Seq(Entry)
        /\ tx = Append(s.lastTx, LastOf(tx)) /\ Len(tx) = Len(s.lastTx) + 1 /\ Len(s.lastTx) \in Nat
    BY TransactionType DEF Transaction, Continues, StateOK
  <1>4. /\ Known(new.records[TaskOf(tx)])
        /\ new.records[TaskOf(tx)].acceptance = AcceptanceOf(s.records, MutationOf(tx))
        /\ Known(s.records[TaskOf(tx)]) =>
              new.records[TaskOf(tx)].acceptance = s.records[TaskOf(tx)].acceptance
        /\ \A t \in Task : t # TaskOf(tx) => new.records[t] = s.records[t]
    BY <1>1, PublishedAcceptance
  <1>5. ASSUME NEW i \in 1..Len(tx) PROVE Copied(logs, new, SubSeq(tx, 1, i))
    <2>1. CASE i = Len(tx)
      <3>1. SubSeq(tx, 1, i) = tx
        BY <1>3, <2>1
      <3> QED
        BY <1>4, <3>1 DEF Copied
    <2>2. CASE i # Len(tx)
      <3>1. i \in 1..Len(s.lastTx)
        BY <1>3, <2>2
      <3>2. PICK e : e = LastOf(tx)
        OBVIOUS
      <3>3. SubSeq(Append(s.lastTx, e), 1, i) = SubSeq(s.lastTx, 1, i)
        BY <1>3, <3>1
      <3>4. PICK h \in Transaction : h = SubSeq(s.lastTx, 1, i)
        BY <1>3, <3>1, HistoryPrefix
      <3>5. SubSeq(tx, 1, i) = h
        BY <1>3, <3>2, <3>3, <3>4
      <3>6. Copied(logs, s, h) /\ TaskOf(h) \in Task
        BY <3>1, <3>4, TransactionType DEF HistoryCopied
      <3>7. CASE TaskOf(h) = TaskOf(tx)
        BY <1>4, <3>5, <3>6, <3>7 DEF Copied
      <3>8. CASE TaskOf(h) # TaskOf(tx)
        BY <1>4, <3>5, <3>6, <3>8 DEF Copied
      <3> QED
        BY <3>7, <3>8
    <2> QED
      BY <2>1, <2>2
  <1> QED
    BY <1>1, <1>2, <1>5 DEF HistoryCopied

\* The proofs of the pending transaction are replicas that hold it, so a commit has its copies.
LEMMA ProofsAreCopies ==
    ASSUME CopiesInv, CommitLocal
    PROVE  /\ Last.prepared = {Pending.tx}
           /\ Cardinality(Holders(replicaLog, Pending.tx))
                >= RequiredAcks(AcceptanceOf(Last.state.records, MutationOf(Pending.tx)))
  <1>1. RegistryInv /\ up /\ phase = "replicate" /\ EnoughProofs
    BY DEF CopiesInv, CommitLocal
  <1>2. /\ Pending.tx \in Transaction /\ pending = {Pending} /\ Last.prepared = {Pending.tx}
        /\ Last.state.records = records /\ StateOK(Last.state)
    BY <1>1, PendingFacts, OpenState, LastFacts
  <1>3. Pending.proofs \subseteq Holders(replicaLog, Pending.tx)
    BY <1>2 DEF CopiesInv
  <1>4. IsFiniteSet(Holders(replicaLog, Pending.tx))
    BY ReplicasFinite, FS_Subset DEF Holders
  <1>5. /\ Cardinality(Pending.proofs) \in Nat /\ Cardinality(Holders(replicaLog, Pending.tx)) \in Nat
        /\ Cardinality(Pending.proofs) <= Cardinality(Holders(replicaLog, Pending.tx))
    BY <1>3, <1>4, FS_Subset, FS_CardinalityType
  <1>6. PICK a : a = RequiredAcks(AcceptanceOf(records, MutationOf(Pending.tx)))
    OBVIOUS
  <1>7. a \in Int
    BY <1>2, <1>6, TransactionType, AcceptanceType
  <1>8. Cardinality(Pending.proofs) >= a
    BY <1>1, <1>6 DEF EnoughProofs, Required
  <1>9. Cardinality(Holders(replicaLog, Pending.tx)) >= a
    BY <1>5, <1>7, <1>8
  <1> QED
    BY <1>2, <1>6, <1>9

\* Every change of the log keeps the copies.
LEMMA EffectKeepsCopies ==
    ASSUME CopiesInv, FileEffect
    PROVE  LogCopied(replicaLog, snapshot', wal')
  <1>0. /\ RegistryInv /\ LogOK(snapshot, wal) /\ Len(wal) \in Nat /\ Len(wal) \in 0..Len(wal)
        /\ LogCopied(replicaLog, snapshot, wal) /\ HistoryCopied(replicaLog, Last.state)
    BY LastFacts DEF CopiesInv, RegistryInv, LogCopied, Last, LastImage
  <1>1. CASE Stays
    BY <1>0, <1>1 DEF Stays
  <1>2. ASSUME NEW f \in Frame, Grows(f), HistoryCopied(replicaLog, LastImage(snapshot', wal').state)
        PROVE  LogCopied(replicaLog, snapshot', wal')
    <2> SUFFICES ASSUME NEW n \in 0..Len(wal')
                 PROVE  HistoryCopied(replicaLog, ReplayFrames(snapshot', wal')[n].state)
      BY DEF LogCopied
    <2>1. CASE n = Len(wal')
      BY <1>2, <2>1 DEF LastImage
    <2>2. CASE n # Len(wal')
      <3>1. Len(wal') = Len(wal) + 1
        BY <1>0, <1>2, GrowsLast
      <3>2. n \in 0..Len(wal)
        BY <1>0, <2>2, <3>1
      <3>3. ReplayFrames(snapshot', wal')[n] = ReplayFrames(snapshot, wal)[n]
        BY <1>0, <1>2, <3>2, GrowsLast
      <3> QED
        BY <1>0, <3>2, <3>3 DEF LogCopied
    <2> QED
      BY <2>1, <2>2
  <1>3. CASE GrowsPrepare
    <2>1. PICK tx \in Transaction : Last.prepared = {} /\ Continues(Last.state, tx) /\ Grows(Prepare(tx))
      BY <1>3 DEF GrowsPrepare
    <2>2. LastImage(snapshot', wal').state = Last.state
      BY <1>0, <2>1, LogPrepare DEF Last, Grows
    <2>3. Prepare(tx) \in Frame
      BY DEF Prepare, Frame
    <2> QED
      BY <1>0, <1>2, <2>1, <2>2, <2>3
  <1>4. CASE GrowsCommit
    <2>1. PICK tx \in Transaction : Last.prepared = {tx} /\ Grows(Commit(tx))
      BY <1>4 DEF GrowsCommit
    <2>2. LastImage(snapshot', wal').state = Published(Last.state, tx) /\ Continues(Last.state, tx)
      BY <1>0, <2>1, LogCommit DEF Last, Grows
    <2>3. Commit(tx) \in Frame
      BY DEF Commit, Frame
    <2>4. Cardinality(Holders(replicaLog, tx)) >= RequiredAcks(AcceptanceOf(Last.state.records, MutationOf(tx)))
      <3>1. CommitLocal
        BY <1>4 DEF GrowsCommit
      <3>2. tx = Pending.tx
        BY <2>1, <3>1, ProofsAreCopies
      <3> QED
        BY <3>1, <3>2, ProofsAreCopies
    <2>5. HistoryCopied(replicaLog, Published(Last.state, tx))
      BY <1>0, <2>2, <2>4, LastFacts, PublishCopied
    <2> QED
      BY <1>2, <2>1, <2>2, <2>3, <2>5
  <1>5. CASE Saves
    <2>1. PICK s : s = Last.state
      OBVIOUS
    <2>2. snapshot' = s /\ Last.prepared = {} /\ StateOK(s)
      BY <1>0, <1>5, <2>1, LastFacts DEF Saves
    <2>3. \A n \in 0..Len(wal') : ReplayFrames(snapshot', wal')[n] = ReplayStart(s)
      <3>1. CASE UNCHANGED wal
        <4>1. \A n \in 0..Len(wal) : ReplayFrames(s, wal)[n] = ReplayStart(s)
          BY <1>0, <2>1, <2>2, LogSnapshot DEF Last
        <4> QED
          BY <2>2, <3>1, <4>1
      <3>2. CASE wal' = <<>>
        <4>1. \A n \in 0..Len(wal') : n = 0
          BY <3>2
        <4> QED
          BY <2>2, <3>2, <4>1, LogEmpty
      <3> QED
        BY <1>5, <3>1, <3>2 DEF Saves
    <2>4. HistoryCopied(replicaLog, ReplayStart(s).state)
      BY <1>0, <2>1, <2>2, StartOK
    <2> QED
      BY <2>3, <2>4 DEF LogCopied
  <1>6. CASE Cuts
    <2>1. PICK m \in synced..Len(wal) : wal' = SubSeq(wal, 1, m)
      BY <1>6 DEF Cuts
    <2>2. m \in 0..Len(wal) /\ snapshot' = snapshot
      BY <1>0, <1>6, LastFacts DEF Cuts
    <2>3. Len(wal') = m /\ \A n \in 0..m : ReplayFrames(snapshot', wal')[n] = ReplayFrames(snapshot, wal)[n]
      BY <1>0, <2>1, <2>2, LogCut
    <2>4. \A n \in 0..Len(wal') : n \in 0..m /\ n \in 0..Len(wal)
      BY <1>0, <2>2, <2>3
    <2> QED
      BY <1>0, <2>3, <2>4 DEF LogCopied
  <1> QED
    BY <1>1, <1>3, <1>4, <1>5, <1>6 DEF FileEffect

\* Where the proofs of a pending transaction come from.
LEMMA ProofStep ==
    ASSUME [Next]_vars, NEW p \in pending'
    PROVE  \/ p \in pending
           \/ p.proofs = {}
           \/ /\ Replicate /\ ReplicaCommits(Replicas[next])
              /\ p.tx = Pending.tx /\ p.proofs = Pending.proofs \cup {Replicas[next]}
  <1>1. CASE UNCHANGED vars
    BY <1>1 DEF vars, memory
  <1>2. ASSUME NEW m, Transact(m) PROVE p \in pending \/ p.proofs = {}
    BY <1>2 DEF Transact, PrepareNew, ResumePending
  <1>3. CASE Call
    <2>1. CASE compact
      BY <2>1 DEF compact
    <2>2. CASE ~compact
      BY <1>2, <1>3, <2>2
         DEF Call, submit, assign, mark_running, stage_output, commit_output, fail, cancel
    <2> QED
      BY <2>1, <2>2
  <1>4. CASE Replicate
    BY <1>4 DEF Replicate, ReplicaCommits
  <1>5. CASE GiveUp \/ CommitLocal \/ CommitLocalFails
    BY <1>5 DEF GiveUp, CommitLocal, CommitLocalFails
  <1>6. CASE WriteSnapshot \/ WriteSnapshotFails
    BY <1>6 DEF WriteSnapshot, WriteSnapshotFails
  <1>7. CASE TruncateWal \/ TruncateWalFails
    BY <1>7 DEF TruncateWal, TruncateWalFails
  <1>8. CASE Crash
    BY <1>8 DEF Crash
  <1>9. CASE Open
    BY <1>9 DEF Open
  <1>10. CASE CatalogChanges
    BY <1>10 DEF CatalogChanges, memory
  <1> QED
    BY <1>1, <1>3, <1>4, <1>5, <1>6, <1>7, <1>8, <1>9, <1>10 DEF Next, Progress

\* No replica that holds a transaction ceases to.
LEMMA HoldersGrow ==
    ASSUME CopiesInv, [Next]_vars
    PROVE  /\ replicaLog' \in [ReplicaId -> Seq(Transaction)]
           /\ \A tx \in Transaction : Holders(replicaLog, tx) \subseteq Holders(replicaLog', tx)
  <1>1. RegistryInv /\ replicaLog \in [ReplicaId -> Seq(Transaction)]
    BY DEF CopiesInv
  <1>2. CASE UNCHANGED replicaLog
    BY <1>1, <1>2
  <1>3. CASE Replicate /\ ReplicaCommits(Replicas[next])
    <2>1. /\ replicaLog' \in [ReplicaId -> Seq(Transaction)]
          /\ \A r \in ReplicaId : \A i \in DOMAIN replicaLog[r] :
                i \in DOMAIN replicaLog'[r] /\ replicaLog'[r][i] = replicaLog[r][i]
      BY <1>1, <1>3, ReplicaCommitAdds
    <2> QED
      BY <2>1 DEF Holders
  <1> QED
    BY <1>2, <1>3, ReplicaStep

\* Published transactions have their copies in every state.
LEMMA CopiesInvariant == Spec => []CopiesInv
  <1>1. Init => CopiesInv
    <2> SUFFICES ASSUME Init PROVE CopiesInv
      OBVIOUS
    <2>1. replicaLog = [r \in ReplicaId |-> <<>>] /\ <<>> \in Seq(Transaction) /\ pending = {}
      BY DEF Init
    <2>2. RegistryInv /\ Last = ReplayStart(EmptyState) /\ Len(wal) = 0
      BY InitLog DEF Init
    <2>3. Last.state = EmptyState /\ Len(EmptyState.lastTx) = 0
      BY <2>2, EmptyStateOK, StartOK DEF EmptyState
    <2>4. HistoryCopied(replicaLog, Last.state)
      BY <2>3 DEF HistoryCopied
    <2>5. \A n \in 0..Len(wal) : n = Len(wal)
      BY <2>2
    <2>6. LogCopied(replicaLog, snapshot, wal)
      BY <2>4, <2>5 DEF LogCopied, Last, LastImage
    <2> QED
      BY <2>1, <2>2, <2>6 DEF CopiesInv
  <1>2. CopiesInv /\ [Next]_vars => CopiesInv'
    <2> SUFFICES ASSUME CopiesInv, [Next]_vars PROVE CopiesInv'
      OBVIOUS
    <2>1. RegistryInv /\ FileEffect /\ RegistryInv' /\ LogOK(snapshot', wal')
      BY StepEffect, RegistryInvKept, EffectKeepsLog DEF CopiesInv
    <2>2. /\ replicaLog' \in [ReplicaId -> Seq(Transaction)]
          /\ \A tx \in Transaction : Holders(replicaLog, tx) \subseteq Holders(replicaLog', tx)
      BY HoldersGrow
    <2>3. LogCopied(replicaLog', snapshot', wal')
      <3> SUFFICES ASSUME NEW n \in 0..Len(wal')
                   PROVE  HistoryCopied(replicaLog', ReplayFrames(snapshot', wal')[n].state)
        BY DEF LogCopied
      <3>1. PICK s : s = ReplayFrames(snapshot', wal')[n].state
        OBVIOUS
      <3>2. HistoryCopied(replicaLog, s)
        BY <2>1, <3>1, EffectKeepsCopies DEF LogCopied
      <3>3. StateOK(s) /\ s.lastTx \in Seq(Entry)
        BY <2>1, <3>1 DEF LogOK, ImageOK, StateOK
      <3>4. ASSUME NEW i \in 1..Len(s.lastTx) PROVE Copied(replicaLog', s, SubSeq(s.lastTx, 1, i))
        <4>1. PICK h \in Transaction : h = SubSeq(s.lastTx, 1, i)
          BY <3>3, HistoryPrefix
        <4>2. Copied(replicaLog, s, h)
          BY <3>2, <4>1 DEF HistoryCopied
        <4>3. Copied(replicaLog', s, h)
          BY <2>2, <3>3, <4>2, MoreHolders
        <4> QED
          BY <4>1, <4>3
      <3> QED
        BY <3>1, <3>4 DEF HistoryCopied
    <2>4. ASSUME NEW p \in pending' PROVE p.proofs \subseteq Holders(replicaLog', p.tx)
      <3>1. CASE p \in pending
        <4>1. p.proofs \subseteq Holders(replicaLog, p.tx)
          BY <3>1 DEF CopiesInv
        <4>2. p.tx \in Transaction
          BY <3>1 DEF CopiesInv, RegistryInv, MemoryOK, PendingOK
        <4> QED
          BY <2>2, <4>1, <4>2
      <3>2. CASE p.proofs = {}
        BY <3>2
      <3>3. CASE /\ Replicate /\ ReplicaCommits(Replicas[next])
                 /\ p.tx = Pending.tx /\ p.proofs = Pending.proofs \cup {Replicas[next]}
        <4>1. /\ Replicas[next] \in ReplicaId /\ Pending.tx \in Transaction
              /\ \E i \in DOMAIN replicaLog'[Replicas[next]] : replicaLog'[Replicas[next]][i] = Pending.tx
          BY <2>1, <3>3, ReplicaCommitAdds DEF CopiesInv
        <4>2. Replicas[next] \in Holders(replicaLog', Pending.tx)
          BY <4>1 DEF Holders
        <4>3. pending = {Pending}
          BY <2>1, <3>3, PendingFacts DEF Replicate
        <4>4. Pending.proofs \subseteq Holders(replicaLog, Pending.tx)
          BY <4>3 DEF CopiesInv
        <4> QED
          BY <2>2, <3>3, <4>1, <4>2, <4>4
      <3> QED
        BY <3>1, <3>2, <3>3, ProofStep
    <2> QED
      BY <2>1, <2>2, <2>3, <2>4 DEF CopiesInv
  <1> QED
    BY <1>1, <1>2, PTL DEF Spec

\* Every published transaction is in the logs of as many replicas as the acceptance mode of its
\* task asks for beside the local copy, for any number of replicas and after any retries, failed
\* local commits, compactions and restarts.
THEOREM PublishedIsCopied == Spec => []PublishedCopies
  <1>1. CopiesInv => PublishedCopies
    <2> SUFFICES ASSUME CopiesInv, up, NEW i \in DOMAIN lastTx
                 PROVE  Cardinality({r \in ReplicaId : ReplicaHolds(r, SubSeq(lastTx, 1, i))})
                          >= RequiredAcks(records[TaskOf(SubSeq(lastTx, 1, i))].acceptance)
      BY DEF PublishedCopies
    <2>1. RegistryInv
      BY DEF CopiesInv
    <2>2. Last.state.records = records /\ Last.state.lastTx = lastTx /\ lastTx \in Seq(Entry)
      BY <2>1, OpenState
    <2>3. HistoryCopied(replicaLog, Last.state)
      BY <2>1, LastFacts DEF CopiesInv, LogCopied, Last, LastImage
    <2>4. PICK tx : tx = SubSeq(lastTx, 1, i)
      OBVIOUS
    <2>5. i \in 1..Len(lastTx)
      BY <2>2
    <2>6. Copied(replicaLog, Last.state, tx)
      BY <2>2, <2>3, <2>4, <2>5 DEF HistoryCopied
    <2>7. Holders(replicaLog, tx) = {r \in ReplicaId : ReplicaHolds(r, tx)}
      BY DEF Holders, ReplicaHolds
    <2> QED
      BY <2>2, <2>4, <2>6, <2>7 DEF Copied
  <1> QED
    BY <1>1, CopiesInvariant, PTL

-----------------------------------------------------------------------------
(* The registry implements the ledger.                                       *)

\* The records of the images a crash may leave.
ImageRecords(snap, frames, from) == {ReplayFrames(snap, frames)[n].state.records : n \in from..Len(frames)}

MappingInv ==
    /\ RegistryInv
    /\ current = Last.state.records
    /\ fallbacks = ImageRecords(snapshot, wal, synced)

\* The ledger's transitions are the registry's: both are built from TaskLifecycle.
LEMMA LedgerTransitions ==
    ASSUME NEW recs, NEW m \in Mutation
    PROVE  /\ PrepareOk(recs, m) => Ledger!PrepareOk(recs, m)
           /\ Ledger!Applied(recs, m) = Applied(recs, m)
  <1>1. \A rec : /\ Ledger!Known(rec) <=> Known(rec)
                 /\ Ledger!ActiveAttempt(rec) = ActiveAttempt(rec)
    BY DEF Ledger!Known, Known, Ledger!ActiveAttempt, ActiveAttempt
  <1>2. Ledger!Terminal = Terminal
    BY DEF Ledger!Terminal, Terminal
  <1>3. {t \in Task : Ledger!Known(recs[t])} = {t \in Task : Known(recs[t])}
    BY <1>1
  <1>4. Ledger!SubmitOk(recs, m) <=> SubmitOk(recs, m)
    <2>1. \A S : Ledger!Cardinality(S) = Cardinality(S)
      BY DEF Ledger!Cardinality, Cardinality
    <2> QED
      BY <1>1, <1>3, <2>1 DEF Ledger!SubmitOk, SubmitOk
  <1>5. \A rec : /\ Ledger!AssignOk(rec, m) <=> AssignOk(rec, m)
                 /\ Ledger!RunningOk(rec, m) <=> RunningOk(rec, m)
                 /\ Ledger!StageOk(rec, m) <=> StageOk(rec, m)
                 /\ Ledger!CommitOk(rec, m) <=> CommitOk(rec, m)
                 /\ Ledger!StopOk(rec) <=> StopOk(rec)
    BY <1>1, <1>2 DEF Ledger!AssignOk, AssignOk, Ledger!RunningOk, RunningOk, Ledger!StageOk, StageOk,
           Ledger!CommitOk, CommitOk, Ledger!StopOk, StopOk
  <1>6. PrepareOk(recs, m) => Ledger!PrepareOk(recs, m)
    BY <1>1, <1>4, <1>5 DEF PrepareOk, Ledger!PrepareOk
  <1>7. \A rec : Ledger!Resulting(rec, m) = Resulting(rec, m)
    BY DEF Ledger!Resulting, Resulting, Ledger!Submitted, Submitted, Ledger!EmptyRecord, EmptyRecord,
           Ledger!Assigned, Assigned, Ledger!Deactivated, Deactivated, Ledger!Staged, Staged,
           Ledger!Conflicted, Conflicted, Ledger!Committed, Committed, Ledger!Stopped, Stopped
  <1>8. Ledger!Applied(recs, m) = Applied(recs, m)
    BY <1>7 DEF Ledger!Applied, Applied
  <1> QED
    BY <1>6, <1>8

\* A transaction of any mutation is a step of the ledger.
LEMMA LedgerPublishes ==
    ASSUME NEW m \in Mutation, Ledger!Publish(m)
    PROVE  Ledger!Next
  <1>1. CASE m \in SubmitMutation
    BY <1>1 DEF SubmitMutation, AcceptanceMode, Fast, Durable, Critical,
           Ledger!SubmitMutation, Ledger!AcceptanceMode, Ledger!Fast, Ledger!Durable, Ledger!Critical,
           Ledger!Next, Ledger!Submit
  <1>2. CASE m \in AssignMutation
    BY <1>2 DEF AssignMutation, Ledger!AssignMutation, Ledger!Next, Ledger!Assign
  <1>3. CASE m \in RunningMutation
    BY <1>3 DEF RunningMutation, Ledger!RunningMutation, Ledger!Next, Ledger!MarkRunning
  <1>4. CASE m \in StageMutation
    BY <1>4 DEF StageMutation, Ledger!StageMutation, Ledger!Next, Ledger!StageOutput
  <1>5. CASE m \in ConflictMutation
    BY <1>5 DEF ConflictMutation, Ledger!ConflictMutation, Ledger!Next, Ledger!QuarantineOutput
  <1>6. CASE m \in CommitMutation
    BY <1>6 DEF CommitMutation, Ledger!CommitMutation, Ledger!Next, Ledger!CommitOutput
  <1>7. CASE m \in FailureMutation
    BY <1>7 DEF FailureMutation, Ledger!FailureMutation, Ledger!Next, Ledger!Fail
  <1>8. CASE m \in CancelMutation
    BY <1>8 DEF CancelMutation, Ledger!CancelMutation, Ledger!Next, Ledger!Cancel
  <1> QED
    BY <1>1, <1>2, <1>3, <1>4, <1>5, <1>6, <1>7, <1>8 DEF Mutation

\* The mapping follows the files.
LEMMA MappingKept ==
    ASSUME MappingInv, [RefinementNext]_<<vars, current, fallbacks>>
    PROVE  MappingInv'
  <1>1. RegistryInv /\ [Next]_vars
    BY DEF MappingInv, RefinementNext
  <1>2. RegistryInv'
    BY <1>1, RegistryInvKept
  <1>3. CASE UNCHANGED <<vars, current, fallbacks>>
    BY <1>2, <1>3 DEF MappingInv, vars, files, Last
  <1>4. CASE RefinementNext
    <2>1. /\ current' = (IF up' THEN records' ELSE Replay(snapshot', wal').state.records)
          /\ fallbacks' = Fallbacks(snapshot', wal', synced')
      BY <1>4 DEF RefinementNext
    <2>2. PICK snap : snap = snapshot'
      OBVIOUS
    <2>3. PICK frames : frames = wal'
      OBVIOUS
    <2>4. PICK from : from = synced'
      OBVIOUS
    <2>5. LogOK(snap, frames) /\ from \in 0..Len(frames) /\ Len(frames) \in Nat
      BY <1>2, <2>2, <2>3, <2>4 DEF RegistryInv, MemoryOK, LogOK
    <2>6. \A n \in 0..Len(frames) : ReplayOf(snap, frames)[n].state = ReplayFrames(snap, frames)[n].state
      BY <2>5, FoundImage
    <2>7. \A n \in from..Len(frames) : n \in 0..Len(frames)
      BY <2>5
    <2>8. Fallbacks(snap, frames, from) = ImageRecords(snap, frames, from)
      BY <2>6, <2>7 DEF Fallbacks, ImageRecords
    <2>9. Replay(snap, frames).state = LastImage(snap, frames).state
      BY <2>5, <2>6 DEF Replay, LastImage
    <2>10. up' => LastImage(snap, frames).state.records = records'
      <3>1. up' => LastImage(snap, frames).state = State'
        BY <1>2, <2>2, <2>3 DEF RegistryInv, MemoryOK, Last
      <3> QED
        BY <3>1 DEF State
    <2>11. current' = LastImage(snap, frames).state.records
      BY <2>1, <2>2, <2>3, <2>9, <2>10
    <2> QED
      BY <1>2, <2>1, <2>2, <2>3, <2>4, <2>8, <2>11 DEF MappingInv, Last
  <1> QED
    BY <1>3, <1>4

\* Every change of the log is a step of the ledger, or none.
LEMMA EffectIsLedgerStep ==
    ASSUME MappingInv, MappingInv', FileEffect
    PROVE  [Ledger!Next]_(Ledger!vars)
  <1>0. /\ RegistryInv /\ LogOK(snapshot, wal) /\ Len(wal) \in Nat /\ synced \in Nat /\ synced <= Len(wal)
        /\ Len(wal) \in synced..Len(wal) /\ StateOK(Last.state)
    BY LastFacts DEF MappingInv, RegistryInv
  <1>1. /\ current = Last.state.records /\ fallbacks = ImageRecords(snapshot, wal, synced)
        /\ current' = LastImage(snapshot', wal').state.records
        /\ fallbacks' = ImageRecords(snapshot', wal', synced')
    BY DEF MappingInv, Last
  <1>2. ASSUME current' = current, fallbacks' = {current} PROVE Ledger!Next
    BY <1>2 DEF Ledger!Next, Ledger!Flush
  <1>3. ASSUME current' = current, fallbacks' = fallbacks PROVE UNCHANGED Ledger!vars
    BY <1>3 DEF Ledger!vars
  <1>4. current \in fallbacks
    BY <1>0, <1>1 DEF ImageRecords, Last, LastImage
  <1>5. CASE Stays
    <2>1. wal' = wal /\ snapshot' = snapshot /\ (synced' = synced \/ synced' = Len(wal))
      BY <1>5 DEF Stays
    <2>2. current' = current
      BY <1>1, <2>1 DEF Last
    <2>3. CASE synced' = synced
      BY <1>1, <1>3, <2>1, <2>2, <2>3
    <2>4. CASE synced' = Len(wal)
      <3>1. \A n : n \in synced'..Len(wal') <=> n = Len(wal)
        BY <1>0, <2>1, <2>4
      <3>2. fallbacks' = {current}
        BY <1>1, <2>1, <3>1 DEF ImageRecords, Last, LastImage
      <3> QED
        BY <1>2, <2>2, <3>2
    <2> QED
      BY <2>1, <2>3, <2>4
  <1>6. ASSUME NEW f \in Frame, Grows(f)
        PROVE  /\ Syncs(AcceptanceOf(Last.state.records, MutationOf(f.tx))) => fallbacks' = {current'}
               /\ ~Syncs(AcceptanceOf(Last.state.records, MutationOf(f.tx))) =>
                     fallbacks' = fallbacks \cup {current'}
    <2>1. /\ Len(wal') = Len(wal) + 1
          /\ \A n \in 0..Len(wal) : ReplayFrames(snapshot', wal')[n] = ReplayFrames(snapshot, wal)[n]
      BY <1>0, <1>6, GrowsLast
    <2>2. CASE Syncs(AcceptanceOf(Last.state.records, MutationOf(f.tx)))
      <3>1. synced' = Len(wal')
        BY <1>6, <2>2 DEF Grows
      <3>2. \A n : n \in synced'..Len(wal') <=> n = Len(wal')
        BY <1>0, <2>1, <3>1
      <3> QED
        BY <1>1, <2>2, <3>2 DEF ImageRecords, LastImage
    <2>3. CASE ~Syncs(AcceptanceOf(Last.state.records, MutationOf(f.tx)))
      <3>1. synced' = synced
        BY <1>6, <2>3 DEF Grows
      <3>2. \A n : n \in synced'..Len(wal') <=> n \in synced..Len(wal) \/ n = Len(wal')
        BY <1>0, <2>1, <3>1
      <3>3. \A n \in synced..Len(wal) : ReplayFrames(snapshot', wal')[n] = ReplayFrames(snapshot, wal)[n]
        <4>1. \A n \in synced..Len(wal) : n \in 0..Len(wal)
          BY <1>0
        <4> QED
          BY <2>1, <4>1
      <3>4. ImageRecords(snapshot', wal', synced')
              = ImageRecords(snapshot, wal, synced) \cup {LastImage(snapshot', wal').state.records}
        BY <3>2, <3>3 DEF ImageRecords, LastImage
      <3> QED
        BY <1>1, <2>3, <3>4
    <2> QED
      BY <2>2, <2>3
  <1>7. CASE GrowsPrepare
    <2>1. PICK tx \in Transaction : Last.prepared = {} /\ Continues(Last.state, tx) /\ Grows(Prepare(tx))
      BY <1>7 DEF GrowsPrepare
    <2>2. LastImage(snapshot', wal').state = Last.state
      BY <1>0, <2>1, LogPrepare DEF Last, Grows
    <2>3. current' = current
      BY <1>1, <2>2
    <2>4. Prepare(tx) \in Frame
      BY DEF Prepare, Frame
    <2>5. fallbacks' = {current} \/ fallbacks' = fallbacks
      BY <1>4, <1>6, <2>1, <2>3, <2>4
    <2> QED
      BY <1>2, <1>3, <2>3, <2>5
  <1>8. CASE GrowsCommit
    <2>1. PICK tx \in Transaction : Last.prepared = {tx} /\ Grows(Commit(tx))
      BY <1>8 DEF GrowsCommit
    <2>2. LastImage(snapshot', wal').state = Published(Last.state, tx) /\ Continues(Last.state, tx)
      BY <1>0, <2>1, LogCommit DEF Last, Grows
    <2>3. Commit(tx) \in Frame /\ Commit(tx).tx = tx
      BY DEF Commit, Frame
    <2>4. PICK m \in Mutation : m = MutationOf(tx) /\ m.task = TaskOf(tx)
      BY TransactionType DEF TaskOf
    <2>5. PrepareOk(current, m) /\ current' = Applied(current, m)
      BY <1>0, <1>1, <2>2, <2>4, PublishedOK DEF Continues
    <2>6. current'[m.task].acceptance = AcceptanceOf(Last.state.records, MutationOf(tx))
      BY <1>0, <1>1, <2>2, <2>4, PublishedAcceptance
    <2>7. fallbacks' = (IF Ledger!IsDurable(current'[m.task]) THEN {current'} ELSE fallbacks \cup {current'})
      BY <1>6, <2>1, <2>3, <2>6 DEF Ledger!IsDurable, Syncs
    <2>8. Ledger!Publish(m)
      BY <2>5, <2>7, LedgerTransitions DEF Ledger!Publish
    <2> QED
      BY <2>8, LedgerPublishes
  <1>9. CASE Saves
    <2>1. PICK s : s = Last.state
      OBVIOUS
    <2>2. snapshot' = s /\ Last.prepared = {} /\ StateOK(s)
      BY <1>0, <1>9, <2>1 DEF Saves
    <2>3. /\ \A n \in 0..Len(wal') : ReplayFrames(snapshot', wal')[n] = ReplayStart(s)
          /\ Len(wal') \in Nat /\ synced' \in Nat /\ synced' <= Len(wal')
      <3>1. CASE UNCHANGED <<wal, synced>>
        <4>1. \A n \in 0..Len(wal) : ReplayFrames(s, wal)[n] = ReplayStart(s)
          BY <1>0, <2>1, <2>2, LogSnapshot DEF Last
        <4> QED
          BY <1>0, <2>2, <3>1, <4>1
      <3>2. CASE wal' = <<>> /\ synced' = 0
        <4>1. Len(wal') = 0 /\ \A n \in 0..Len(wal') : n = 0
          BY <3>2
        <4> QED
          BY <2>2, <3>2, <4>1, LogEmpty
      <3> QED
        BY <1>9, <3>1, <3>2 DEF Saves
    <2>4. Len(wal') \in synced'..Len(wal') /\ \A n \in synced'..Len(wal') : n \in 0..Len(wal')
      BY <2>3
    <2>5. ReplayStart(s).state = s
      BY <2>2, StartOK
    <2>6. \A n \in synced'..Len(wal') : ReplayFrames(snapshot', wal')[n].state.records = current
      BY <1>1, <2>1, <2>3, <2>4, <2>5
    <2>7. current' = current
      BY <1>1, <2>4, <2>6 DEF LastImage
    <2>8. fallbacks' = {current}
      BY <1>1, <2>4, <2>6 DEF ImageRecords
    <2> QED
      BY <1>2, <2>7, <2>8
  <1>10. CASE Cuts
    <2>1. PICK m \in synced..Len(wal) : wal' = SubSeq(wal, 1, m)
      BY <1>10 DEF Cuts
    <2>2. m \in 0..Len(wal) /\ snapshot' = snapshot /\ synced' = synced
      BY <1>0, <1>10 DEF Cuts
    <2>3. Len(wal') = m /\ \A n \in 0..m : ReplayFrames(snapshot', wal')[n] = ReplayFrames(snapshot, wal)[n]
      BY <1>0, <2>1, <2>2, LogCut
    <2>4. /\ m \in synced'..Len(wal')
          /\ \A n \in synced'..Len(wal') : n \in 0..m /\ n \in synced..Len(wal)
      BY <1>0, <2>2, <2>3
    <2>5. fallbacks' \in SUBSET fallbacks
      BY <1>1, <2>3, <2>4 DEF ImageRecords
    <2>6. current' \in fallbacks'
      BY <1>1, <2>3, <2>4 DEF ImageRecords, LastImage
    <2>7. Ledger!Crash
      BY <2>5, <2>6 DEF Ledger!Crash
    <2> QED
      BY <2>7 DEF Ledger!Next
  <1> QED
    BY <1>5, <1>7, <1>8, <1>9, <1>10 DEF FileEffect

\* The mapping of the initial state.
LEMMA MappingStarts == RefinementInit => MappingInv /\ Ledger!Init
  <1> SUFFICES ASSUME RefinementInit PROVE MappingInv /\ Ledger!Init
    OBVIOUS
  <1>1. Init /\ current = records /\ fallbacks = {records}
    BY DEF RefinementInit
  <1>2. RegistryInv /\ Last = ReplayStart(EmptyState) /\ State = EmptyState /\ Len(wal) = 0 /\ synced = 0
    BY <1>1, InitLog DEF Init
  <1>3. Last.state.records = records
    BY <1>2, EmptyStateOK, StartOK DEF State
  <1>4. \A n : n \in synced..Len(wal) <=> n = Len(wal)
    BY <1>2
  <1>5. ImageRecords(snapshot, wal, synced) = {records}
    BY <1>3, <1>4 DEF ImageRecords, Last, LastImage
  <1>6. records = [t \in Task |-> NoRecord]
    BY <1>1 DEF Init, EmptyState
  <1>7. Ledger!NoRecord = NoRecord
    BY DEF Ledger!NoRecord, NoRecord, Ledger!EmptyRecord, EmptyRecord, Ledger!Fast, Fast
  <1>8. Ledger!Init
    BY <1>1, <1>6, <1>7 DEF Ledger!Init
  <1> QED
    BY <1>1, <1>2, <1>3, <1>5, <1>8 DEF MappingInv

\* The history variables are the records of the last image and of the crash images.
LEMMA MappingInvariant == RefinementSpec => []MappingInv
  <1>1. RefinementInit => MappingInv
    BY MappingStarts
  <1>2. MappingInv /\ [RefinementNext]_<<vars, current, fallbacks>> => MappingInv'
    BY MappingKept
  <1> QED
    BY <1>1, <1>2, PTL DEF RefinementSpec

\* PersistentRegistry implements TaskLedger, for any tasks, replicas and options: every step of
\* the write-ahead log, of replication, of compaction, of a crash and of recovery is one atomic
\* transaction of the ledger, a sync, a fall back to a state that a crash may leave, or nothing.
THEOREM RegistryImplementsLedger == RefinementSpec => ImplementsLedger
  <1>1. RefinementInit => Ledger!Init
    BY MappingStarts
  <1>2. MappingInv /\ [RefinementNext]_<<vars, current, fallbacks>> => [Ledger!Next]_(Ledger!vars)
    <2> SUFFICES ASSUME MappingInv, [RefinementNext]_<<vars, current, fallbacks>>
                 PROVE  [Ledger!Next]_(Ledger!vars)
      OBVIOUS
    <2>1. RegistryInv /\ [Next]_vars
      BY DEF MappingInv, RefinementNext
    <2> QED
      BY <2>1, MappingKept, StepEffect, EffectIsLedgerStep
  <1> QED
    BY <1>1, <1>2, MappingInvariant, PTL DEF RefinementSpec, ImplementsLedger, Ledger!Spec

-----------------------------------------------------------------------------
(* What is proved of the ledger holds of the registry.                       *)

LedgerTheory == INSTANCE TaskLedgerProofs WITH records <- current, recoverable <- fallbacks

\* The ledger of the refinement and the one its theorems are about have the same transactions.
LEMMA SameTransactions ==
    \A recs, m : /\ Ledger!PrepareOk(recs, m) <=> LedgerTheory!PrepareOk(recs, m)
                 /\ Ledger!Applied(recs, m) = LedgerTheory!Applied(recs, m)
  <1>1. \A recs, m : Ledger!PrepareOk(recs, m) <=> LedgerTheory!PrepareOk(recs, m)
    BY Zenon DEF Ledger!PrepareOk, Ledger!Known, Ledger!ActiveAttempt, Ledger!Terminal, Ledger!SubmitOk,
           Ledger!Cardinality, Ledger!AssignOk, Ledger!RunningOk, Ledger!StageOk, Ledger!CommitOk, Ledger!StopOk,
           LedgerTheory!PrepareOk, LedgerTheory!Known, LedgerTheory!ActiveAttempt, LedgerTheory!Terminal,
           LedgerTheory!SubmitOk, LedgerTheory!Cardinality, LedgerTheory!AssignOk, LedgerTheory!RunningOk,
           LedgerTheory!StageOk, LedgerTheory!CommitOk, LedgerTheory!StopOk
  <1>2. \A rec, m : Ledger!Resulting(rec, m) = LedgerTheory!Resulting(rec, m)
    BY Zenon DEF Ledger!Resulting, Ledger!Submitted, Ledger!EmptyRecord, Ledger!Assigned, Ledger!Deactivated,
           Ledger!Staged, Ledger!Conflicted, Ledger!Committed, Ledger!Stopped,
           LedgerTheory!Resulting, LedgerTheory!Submitted, LedgerTheory!EmptyRecord, LedgerTheory!Assigned,
           LedgerTheory!Deactivated, LedgerTheory!Staged, LedgerTheory!Conflicted, LedgerTheory!Committed,
           LedgerTheory!Stopped
  <1>3. \A recs, m : Ledger!Applied(recs, m) = LedgerTheory!Applied(recs, m)
    BY <1>2 DEF Ledger!Applied, LedgerTheory!Applied
  <1> QED
    BY <1>1, <1>3

\* They have the same mutations, the same initial state and the same steps.
LEMMA SameLedger ==
    /\ Ledger!Init <=> LedgerTheory!Init
    /\ Ledger!Next <=> LedgerTheory!Next
    /\ Ledger!vars = LedgerTheory!vars
    /\ (Ledger!vars)' = (LedgerTheory!vars)'
  <1>1. Ledger!Init <=> LedgerTheory!Init
    BY DEF Ledger!Init, Ledger!NoRecord, Ledger!EmptyRecord, Ledger!Fast,
           LedgerTheory!Init, LedgerTheory!NoRecord, LedgerTheory!EmptyRecord, LedgerTheory!Fast
  <1>2. \A m : Ledger!Publish(m) <=> LedgerTheory!Publish(m)
    BY SameTransactions DEF Ledger!Publish, LedgerTheory!Publish, Ledger!IsDurable, LedgerTheory!IsDurable
  <1>3. Ledger!AcceptanceMode = LedgerTheory!AcceptanceMode
    BY DEF Ledger!AcceptanceMode, Ledger!Fast, Ledger!Durable, Ledger!Critical,
           LedgerTheory!AcceptanceMode, LedgerTheory!Fast, LedgerTheory!Durable, LedgerTheory!Critical
  <1>4. /\ Ledger!Submit <=> LedgerTheory!Submit
        /\ Ledger!Assign <=> LedgerTheory!Assign
        /\ Ledger!MarkRunning <=> LedgerTheory!MarkRunning
        /\ Ledger!StageOutput <=> LedgerTheory!StageOutput
    BY <1>2, <1>3, Zenon DEF Ledger!Submit, Ledger!SubmitMutation, LedgerTheory!Submit, LedgerTheory!SubmitMutation,
           Ledger!Assign, Ledger!AssignMutation, LedgerTheory!Assign, LedgerTheory!AssignMutation,
           Ledger!MarkRunning, Ledger!RunningMutation, LedgerTheory!MarkRunning, LedgerTheory!RunningMutation,
           Ledger!StageOutput, Ledger!StageMutation, LedgerTheory!StageOutput, LedgerTheory!StageMutation
  <1>5. /\ Ledger!QuarantineOutput <=> LedgerTheory!QuarantineOutput
        /\ Ledger!CommitOutput <=> LedgerTheory!CommitOutput
        /\ Ledger!Fail <=> LedgerTheory!Fail
        /\ Ledger!Cancel <=> LedgerTheory!Cancel
    BY <1>2, Zenon DEF Ledger!QuarantineOutput, Ledger!ConflictMutation, LedgerTheory!QuarantineOutput,
           LedgerTheory!ConflictMutation, Ledger!CommitOutput, Ledger!CommitMutation, LedgerTheory!CommitOutput,
           LedgerTheory!CommitMutation, Ledger!Fail, Ledger!FailureMutation, LedgerTheory!Fail,
           LedgerTheory!FailureMutation, Ledger!Cancel, Ledger!CancelMutation, LedgerTheory!Cancel,
           LedgerTheory!CancelMutation
  <1>6. /\ Ledger!Flush <=> LedgerTheory!Flush
        /\ Ledger!Crash <=> LedgerTheory!Crash
    BY Zenon DEF Ledger!Flush, LedgerTheory!Flush, Ledger!Crash, LedgerTheory!Crash
  <1>7. Ledger!Next <=> LedgerTheory!Next
    BY <1>4, <1>5, <1>6 DEF Ledger!Next, LedgerTheory!Next
  <1>8. Ledger!vars = LedgerTheory!vars /\ (Ledger!vars)' = (LedgerTheory!vars)'
    BY DEF Ledger!vars, LedgerTheory!vars
  <1> QED
    BY <1>1, <1>7, <1>8

\* They promise the same.
LEMMA SamePromises ==
    /\ LedgerTheory!FencedAttempts => Ledger!FencedAttempts
    /\ LedgerTheory!OnlyNewestCommits => Ledger!OnlyNewestCommits
    /\ LedgerTheory!DurableAgrees => Ledger!DurableAgrees
    /\ \A old, new : LedgerTheory!DurableStep(old, new) <=> Ledger!DurableStep(old, new)
  <1>1. LedgerTheory!FencedAttempts => Ledger!FencedAttempts
    BY Zenon DEF Ledger!FencedAttempts, Ledger!FencedRecord, Ledger!Newest,
           LedgerTheory!FencedAttempts, LedgerTheory!FencedRecord, LedgerTheory!Newest
  <1>2. LedgerTheory!OnlyNewestCommits => Ledger!OnlyNewestCommits
    BY Zenon DEF Ledger!OnlyNewestCommits, Ledger!StagedRecord, Ledger!CommittedRecord, Ledger!Newest,
           LedgerTheory!OnlyNewestCommits, LedgerTheory!StagedRecord, LedgerTheory!CommittedRecord,
           LedgerTheory!Newest
  <1>3. LedgerTheory!DurableAgrees => Ledger!DurableAgrees
    BY DEF Ledger!DurableAgrees, LedgerTheory!DurableAgrees, Ledger!IsDurable, LedgerTheory!IsDurable
  <1>4. \A old, new : LedgerTheory!DurableStep(old, new) <=> Ledger!DurableStep(old, new)
    BY Zenon DEF Ledger!DurableStep, LedgerTheory!DurableStep, Ledger!Terminal, LedgerTheory!Terminal
  <1> QED
    BY <1>1, <1>2, <1>3, <1>4

\* The registry is the ledger that TaskLedgerProofs is about.
LEMMA RegistryIsLedger == RefinementSpec => LedgerTheory!Spec
  <1>1. Ledger!Init => LedgerTheory!Init
    BY SameLedger
  <1>2. [Ledger!Next]_(Ledger!vars) => [LedgerTheory!Next]_(LedgerTheory!vars)
    BY SameLedger
  <1> QED
    BY <1>1, <1>2, RegistryImplementsLedger, PTL DEF ImplementsLedger, Ledger!Spec, LedgerTheory!Spec

\* In an open PersistentRegistry, after any failed writes, crashes and recoveries: no two attempts
\* of a task are active, a staged output is that of the active attempt, and the formal output is
\* that of the newest attempt.
THEOREM RegistryRecordsSafe ==
    RefinementSpec =>
        [](up => \A t \in Task : /\ Ledger!FencedRecord(records[t])
                                 /\ Ledger!StagedRecord(records[t])
                                 /\ Ledger!CommittedRecord(records[t]))
  <1> DEFINE Safe == up => \A t \in Task : /\ Ledger!FencedRecord(records[t])
                                           /\ Ledger!StagedRecord(records[t])
                                           /\ Ledger!CommittedRecord(records[t])
  <1>1. MappingInv /\ LedgerTheory!FencedAttempts /\ LedgerTheory!OnlyNewestCommits => Safe
    <2> SUFFICES ASSUME MappingInv, LedgerTheory!FencedAttempts, LedgerTheory!OnlyNewestCommits, up,
                        NEW t \in Task
                 PROVE  /\ Ledger!FencedRecord(records[t])
                        /\ Ledger!StagedRecord(records[t])
                        /\ Ledger!CommittedRecord(records[t])
      OBVIOUS
    <2>1. current = records
      BY OpenState DEF MappingInv
    <2>2. Ledger!FencedAttempts /\ Ledger!OnlyNewestCommits
      BY SamePromises
    <2> QED
      BY <2>1, <2>2 DEF Ledger!FencedAttempts, Ledger!OnlyNewestCommits
  <1> HIDE DEF Safe
  <1>2. LedgerTheory!Spec => []LedgerTheory!FencedAttempts
    BY LifecycleConstants, LedgerTheory!AttemptsAreFenced, PTL
  <1>3. LedgerTheory!Spec => []LedgerTheory!OnlyNewestCommits
    BY LifecycleConstants, LedgerTheory!NewestOutputCommits, PTL
  <1>4. RefinementSpec => []Safe
    BY <1>1, <1>2, <1>3, RegistryIsLedger, MappingInvariant, PTL
  <1> QED
    BY <1>4 DEF Safe

\* Whatever a crash may leave of the log, the records of a task accepted as Durable or Critical are
\* the published ones (Ledger!DurableAgrees); and no step, crash and recovery included, replaces
\* its formal output, leaves a terminal state, forgets an attempt or makes a fenced one active
\* again (Ledger!DurableHistory).
THEOREM RegistryKeepsDurable ==
    RefinementSpec => []Ledger!DurableAgrees /\ Ledger!DurableHistory
  <1>1. LedgerTheory!DurableAgrees => Ledger!DurableAgrees
    BY SamePromises
  <1>2. LedgerTheory!Spec => []LedgerTheory!DurableAgrees
    BY LifecycleConstants, LedgerTheory!DurableSurvives, PTL
  <1>3. LedgerTheory!Spec => LedgerTheory!DurableHistory
    BY LifecycleConstants, LedgerTheory!DurableHistoryKept, PTL
  <1>4. [\A t \in Task : LedgerTheory!IsDurable(current[t]) =>
            LedgerTheory!DurableStep(current[t], current'[t])]_(LedgerTheory!vars)
        => [\A t \in Task : Ledger!IsDurable(current[t]) =>
               Ledger!DurableStep(current[t], current'[t])]_(Ledger!vars)
    BY SameLedger, SamePromises DEF Ledger!IsDurable, LedgerTheory!IsDurable
  <1>5. LedgerTheory!DurableHistory => Ledger!DurableHistory
    BY <1>4, PTL DEF Ledger!DurableHistory, LedgerTheory!DurableHistory
  <1> QED
    BY <1>1, <1>2, <1>3, <1>5, RegistryIsLedger, PTL


-----------------------------------------------------------------------------
(* A replica's log opens as the registry.                                    *)

\* The frames of a replica's log.
FramesOf(log) ==
    [i \in 1..(2 * Len(log)) |->
        LET tx == log[(i + 1) \div 2]
        IN  IF i % 2 = 1 THEN Prepare(tx) ELSE Commit(tx)]

\* One more transaction is one more prepare and commit frame.
LEMMA FramesAppend ==
    ASSUME NEW log \in Seq(Transaction), NEW tx \in Transaction
    PROVE  /\ FramesOf(log) \in Seq(Frame)
           /\ FramesOf(Append(log, tx)) = Append(Append(FramesOf(log), Prepare(tx)), Commit(tx))
  <1>1. PICK n \in Nat : n = Len(log)
    OBVIOUS
  <1>2. PICK new : new = Append(log, tx)
    OBVIOUS
  <1>3. Len(new) = n + 1 /\ new[n + 1] = tx /\ \A i \in 1..n : new[i] = log[i] /\ log[i] \in Transaction
    BY <1>1, <1>2
  <1>4. \A i \in 1..(2 * n) : (i + 1) \div 2 \in 1..n
    OBVIOUS
  <1>5. PICK old : old = FramesOf(log)
    OBVIOUS
  <1>6. old = [i \in 1..(2 * n) |-> IF i % 2 = 1 THEN Prepare(log[(i + 1) \div 2])
                                              ELSE Commit(log[(i + 1) \div 2])]
    BY <1>1, <1>5 DEF FramesOf
  <1>7. ASSUME NEW i \in 1..(2 * n) PROVE old[i] \in Frame
    <2>1. log[(i + 1) \div 2] \in Transaction
      BY <1>3, <1>4
    <2> QED
      BY <1>6, <2>1 DEF Frame, Prepare, Commit
  <1>8. old \in Seq(Frame) /\ Len(old) = 2 * n
    <2>1. 2 * n \in Nat
      OBVIOUS
    <2>2. old \in [1..(2 * n) -> Frame]
      BY <1>6, <1>7
    <2> QED
      BY <2>1, <2>2
  <1>9. PICK f1 \in Frame : f1 = Prepare(tx)
    BY DEF Prepare, Frame
  <1>10. PICK f2 \in Frame : f2 = Commit(tx)
    BY DEF Commit, Frame
  <1>11. PICK longer : longer = Append(Append(old, f1), f2)
    OBVIOUS
  <1>12. /\ longer \in Seq(Frame) /\ Len(longer) = 2 * n + 2
         /\ longer[2 * n + 1] = f1 /\ longer[2 * n + 2] = f2
         /\ \A i \in 1..(2 * n) : longer[i] = old[i]
    BY <1>8, <1>11
  <1>13. PICK fs : fs = FramesOf(new)
    OBVIOUS
  <1>14. fs = [i \in 1..(2 * n + 2) |-> IF i % 2 = 1 THEN Prepare(new[(i + 1) \div 2])
                                                 ELSE Commit(new[(i + 1) \div 2])]
    <2>1. 2 * Len(new) = 2 * n + 2
      BY <1>3
    <2> QED
      BY <1>13, <2>1 DEF FramesOf
  <1>15. ASSUME NEW i \in 1..(2 * n + 2) PROVE fs[i] = longer[i]
    <2>1. CASE i \in 1..(2 * n)
      <3>1. new[(i + 1) \div 2] = log[(i + 1) \div 2]
        BY <1>3, <1>4, <2>1
      <3> QED
        BY <1>6, <1>12, <1>14, <2>1, <3>1
    <2>2. CASE i = 2 * n + 1
      <3>1. i % 2 = 1 /\ (i + 1) \div 2 = n + 1
        BY <2>2
      <3> QED
        BY <1>3, <1>9, <1>12, <1>14, <2>2, <3>1
    <2>3. CASE i = 2 * n + 2
      <3>1. i % 2 # 1 /\ (i + 1) \div 2 = n + 1
        BY <2>3
      <3> QED
        BY <1>3, <1>10, <1>12, <1>14, <2>3, <3>1
    <2> QED
      BY <2>1, <2>2, <2>3
  <1>16. fs = longer
    <2>1. longer \in [1..(2 * n + 2) -> Frame]
      BY <1>12
    <2>2. DOMAIN fs = 1..(2 * n + 2) /\ fs = [i \in 1..(2 * n + 2) |-> fs[i]]
      BY <1>14
    <2>3. longer = [i \in 1..(2 * n + 2) |-> longer[i]]
      BY <2>1
    <2> QED
      BY <1>15, <2>2, <2>3
  <1> QED
    BY <1>2, <1>5, <1>8, <1>9, <1>10, <1>11, <1>13, <1>16

\* The frames of an empty log.
LEMMA FramesEmpty == FramesOf(<<>>) = <<>>
  <1>1. 2 * Len(<<>>) = 0 /\ 1..0 = {}
    OBVIOUS
  <1> QED
    BY <1>1 DEF FramesOf

\* The log is well formed and ends in the given state, with every transaction committed.
Reaches(log, s) ==
    /\ log \in Seq(Transaction)
    /\ LogOK(EmptyState, FramesOf(log))
    /\ LastImage(EmptyState, FramesOf(log)).state = s
    /\ LastImage(EmptyState, FramesOf(log)).prepared = {}

\* A transaction is in a replica's log.
InLog(log, tx) == \E i \in DOMAIN log : log[i] = tx

\* A replica's log that reaches a state and commits a transaction that follows it.
LEMMA ReachesNext ==
    ASSUME NEW log, NEW s, Reaches(log, s), NEW tx \in Transaction, Continues(s, tx)
    PROVE  /\ Reaches(Append(log, tx), Published(s, tx))
           /\ ~InLog(log, tx) /\ InLog(Append(log, tx), tx)
  <1>1. log \in Seq(Transaction) /\ LogOK(EmptyState, FramesOf(log)) /\ FramesOf(log) \in Seq(Frame)
    BY DEF Reaches, LogOK
  <1>2. PICK one : one = Append(FramesOf(log), Prepare(tx))
    OBVIOUS
  <1>3. /\ LogOK(EmptyState, one) /\ LastImage(EmptyState, one).state = s
        /\ LastImage(EmptyState, one).prepared = {tx}
    BY <1>1, <1>2, LogPrepare DEF Reaches
  <1>4. PICK two : two = Append(one, Commit(tx))
    OBVIOUS
  <1>5. /\ LogOK(EmptyState, two) /\ LastImage(EmptyState, two).state = Published(s, tx)
        /\ LastImage(EmptyState, two).prepared = {}
    BY <1>3, <1>4, LogCommit
  <1>6. FramesOf(Append(log, tx)) = two
    BY <1>1, <1>2, <1>4, FramesAppend
  <1>7. Append(log, tx) \in Seq(Transaction) /\ InLog(Append(log, tx), tx)
    <2>1. /\ Append(log, tx) \in Seq(Transaction) /\ Len(log) + 1 \in DOMAIN Append(log, tx)
          /\ Append(log, tx)[Len(log) + 1] = tx
      BY <1>1
    <2> QED
      BY <2>1 DEF InLog
  <1>8. ~InLog(log, tx)
    <2> SUFFICES ASSUME NEW i \in DOMAIN log, log[i] = tx PROVE FALSE
      BY DEF InLog
    <2>1. PICK n \in Nat : n = Len(log)
      BY <1>1
    <2>2. i \in 1..n
      BY <1>1, <2>1
    <2>3. 2 * i \in 1..(2 * n) /\ (2 * i) % 2 # 1 /\ (2 * i + 1) \div 2 = i
      BY <2>2
    <2>4. FramesOf(log)[2 * i] = Commit(tx)
      BY <2>1, <2>3 DEF FramesOf
    <2>5. Len(FramesOf(log)) = 2 * n
      <3>1. DOMAIN FramesOf(log) = 1..(2 * n) /\ 2 * n \in Nat
        BY <2>1 DEF FramesOf
      <3> QED
        BY <1>1, <3>1
    <2>6. Bounded(FramesOf(log), Len(FramesOf(log)), LastImage(EmptyState, FramesOf(log)))
      <3>1. Len(FramesOf(log)) \in 0..Len(FramesOf(log))
        BY <1>1
      <3> QED
        BY <1>1, <3>1 DEF LogOK, LastImage
    <2>7. Commit(tx).tx = tx
      BY DEF Commit
    <2>8. Len(tx) <= Len(s.lastTx)
      BY <2>3, <2>4, <2>5, <2>6, <2>7 DEF Bounded, Reaches
    <2>9. StateOK(s)
      BY <1>3 DEF LogOK, LastImage, ImageOK
    <2>10. Len(s.lastTx) \in Nat /\ Len(tx) = Len(s.lastTx) + 1
      BY <2>9, ContinuesLength
    <2> QED
      BY <2>8, <2>10
  <1> QED
    BY <1>5, <1>6, <1>7, <1>8 DEF Reaches

\* Every task is acknowledged by the local log and by every replica: submit is called with modes
\* that sync and whose minimum_metadata_copies is the number of replicas plus one.
EveryReplicaAcknowledges ==
    Replicas # <<>> /\ \A a \in Requested : Syncs(a) /\ RequiredAcks(a) = Len(Replicas)

\* Known tasks, and the one of a prepared transaction, have a mode that submit was called with.
Accepted(img) ==
    /\ \A t \in Task : IF Known(img.state.records[t])
                         THEN img.state.records[t].acceptance \in Requested
                         ELSE ~Syncs(img.state.records[t].acceptance)
    /\ \A p \in img.prepared : AcceptanceOf(img.state.records, MutationOf(p)) \in Requested

\* A replica's log opens as the image, or as what it becomes when the prepared transaction, which
\* the replica holds, commits.
Mirrors(log, img) ==
    \/ Reaches(log, img.state)
    \/ \E p \in img.prepared : Reaches(log, Published(img.state, p)) /\ InLog(log, p)

SurvivalInv ==
    /\ synced = Len(wal)
    /\ Accepted(Last)
    /\ \A r \in ReplicaId : Mirrors(replicaLog[r], Last)

\* Only Submit is a mutation of a task that is not known.
LEMMA MutatesKnown ==
    ASSUME NEW recs, NEW m, PrepareOk(recs, m), m.kind # "Submit"
    PROVE  Known(recs[m.task])
  BY DEF PrepareOk, AssignOk, RunningOk, StageOk, CommitOk, StopOk, Known

\* A transaction that may be prepared has a mode that submit was called with.
LEMMA PreparedAccepted ==
    ASSUME NEW img, StateOK(img.state), Accepted(img), NEW tx \in Transaction,
           Continues(img.state, tx), Asked(MutationOf(tx))
    PROVE  AcceptanceOf(img.state.records, MutationOf(tx)) \in Requested
  <1>1. PICK m \in Mutation : m = MutationOf(tx) /\ TaskOf(tx) = m.task /\ m.task \in Task
    BY TransactionType DEF TaskOf
  <1>2. PrepareOk(img.state.records, m) /\ Asked(m)
    BY <1>1 DEF Continues
  <1>3. m.kind # "Submit" => Known(img.state.records[m.task])
    BY <1>2, MutatesKnown
  <1>4. m.kind # "Submit" => img.state.records[m.task].acceptance \in Requested
    BY <1>1, <1>3 DEF Accepted
  <1> QED
    BY <1>1, <1>2, <1>4 DEF AcceptanceOf, Asked

\* Publishing keeps the modes.
LEMMA PublishedAccepted ==
    ASSUME NEW img, StateOK(img.state), Accepted(img), NEW tx \in Transaction, img.prepared = {tx},
           Continues(img.state, tx), NEW new, new.state = Published(img.state, tx), new.prepared = {}
    PROVE  Accepted(new)
  <1>1. TaskOf(tx) \in Task
    BY TransactionType
  <1>2. AcceptanceOf(img.state.records, MutationOf(tx)) \in Requested
    BY DEF Accepted
  <1>3. /\ Known(new.state.records[TaskOf(tx)])
        /\ new.state.records[TaskOf(tx)].acceptance \in Requested
        /\ \A t \in Task : t # TaskOf(tx) => new.state.records[t] = img.state.records[t]
    BY <1>2, PublishedAcceptance
  <1> QED
    BY <1>1, <1>3 DEF Accepted

\* Acknowledged by as many replicas as there are is acknowledged by each.
LEMMA AllHold ==
    ASSUME NEW H \in SUBSET ReplicaId, Cardinality(H) >= Len(Replicas)
    PROVE  H = ReplicaId
  <1>1. Len(Replicas) \in Nat /\ DOMAIN Replicas = 1..Len(Replicas)
    BY RegistryConstants
  <1>2. IsFiniteSet(1..Len(Replicas)) /\ Cardinality(1..Len(Replicas)) = Len(Replicas)
    <2>1. PICK n \in Nat : n = Len(Replicas)
      BY <1>1
    <2>2. IsFiniteSet(1..n) /\ Cardinality(1..n) = IF 1 > n THEN 0 ELSE n - 1 + 1
      BY FS_Interval
    <2> QED
      BY <2>1, <2>2
  <1>3. PICK f : f = [i \in 1..Len(Replicas) |-> Replicas[i]]
    OBVIOUS
  <1>4. ReplicaId = {f[i] : i \in 1..Len(Replicas)}
    BY <1>1, <1>3 DEF ReplicaId
  <1>5. f \in Surjection(1..Len(Replicas), ReplicaId)
    BY <1>3, <1>4 DEF Surjection
  <1>6. IsFiniteSet(ReplicaId) /\ Cardinality(ReplicaId) <= Len(Replicas)
    BY <1>2, <1>5, FS_Surjection
  <1>7. /\ Cardinality(H) \in Nat /\ Cardinality(ReplicaId) \in Nat
        /\ Cardinality(H) <= Cardinality(ReplicaId)
        /\ Cardinality(H) = Cardinality(ReplicaId) => H = ReplicaId
    BY <1>6, FS_Subset, FS_CardinalityType
  <1>8. Cardinality(H) = Cardinality(ReplicaId)
    BY <1>1, <1>6, <1>7
  <1> QED
    BY <1>7, <1>8

\* When the transaction commits locally, every replica's log opens as what is published.
LEMMA CommitMirrored ==
    ASSUME EveryReplicaAcknowledges, CopiesInv, SurvivalInv, CommitLocal,
           NEW tx \in Transaction, Last.prepared = {tx}, NEW r \in ReplicaId
    PROVE  Reaches(replicaLog[r], Published(Last.state, tx))
  <1>1. RegistryInv /\ StateOK(Last.state) /\ Continues(Last.state, tx) /\ tx = Pending.tx
    <2>1. RegistryInv /\ tx = Pending.tx
      BY ProofsAreCopies DEF CopiesInv
    <2> QED
      BY <2>1, LastFacts DEF ImageOK
  <1>2. PICK a \in Requested : a = AcceptanceOf(Last.state.records, MutationOf(tx))
    BY DEF SurvivalInv, Accepted
  <1>3. Cardinality(Holders(replicaLog, tx)) >= Len(Replicas)
    BY <1>1, <1>2, ProofsAreCopies DEF EveryReplicaAcknowledges
  <1>4. Holders(replicaLog, tx) = ReplicaId
    BY <1>3, AllHold DEF Holders
  <1>5. InLog(replicaLog[r], tx)
    BY <1>4 DEF Holders, InLog
  <1>6. ~Reaches(replicaLog[r], Last.state)
    BY <1>1, <1>5, ReachesNext
  <1> QED
    BY <1>6 DEF SurvivalInv, Mirrors

\* Every change of the log keeps what the replicas' logs open as.
LEMMA EffectKeepsMirrors ==
    ASSUME EveryReplicaAcknowledges, CopiesInv, SurvivalInv, FileEffect
    PROVE  /\ synced' = Len(wal')
           /\ Accepted(LastImage(snapshot', wal'))
           /\ \A r \in ReplicaId : Mirrors(replicaLog[r], LastImage(snapshot', wal'))
  <1>0. /\ RegistryInv /\ LogOK(snapshot, wal) /\ Len(wal) \in Nat /\ synced = Len(wal) /\ wal \in Seq(Frame)
        /\ StateOK(Last.state) /\ Accepted(Last) /\ Last = LastImage(snapshot, wal)
    BY LastFacts DEF CopiesInv, RegistryInv, SurvivalInv, Last
  <1>1. PICK img : img = LastImage(snapshot', wal')
    OBVIOUS
  <1>2. CASE wal' = wal /\ snapshot' = snapshot /\ synced' = Len(wal)
    BY <1>0, <1>2 DEF SurvivalInv
  <1>3. CASE Stays
    BY <1>0, <1>2, <1>3 DEF Stays
  <1>4. CASE GrowsPrepare
    <2>1. PICK tx \in Transaction : /\ Last.prepared = {} /\ Continues(Last.state, tx)
                                    /\ Asked(MutationOf(tx)) /\ Grows(Prepare(tx))
      BY <1>4 DEF GrowsPrepare
    <2>2. img.state = Last.state /\ img.prepared = {tx}
      BY <1>0, <1>1, <2>1, LogPrepare DEF Grows
    <2>3. AcceptanceOf(Last.state.records, MutationOf(tx)) \in Requested
      BY <1>0, <2>1, PreparedAccepted
    <2>4. Accepted(img)
      BY <1>0, <2>2, <2>3 DEF Accepted
    <2>5. synced' = Len(wal')
      <3>1. Prepare(tx).tx = tx
        BY DEF Prepare
      <3> QED
        BY <2>1, <2>3, <3>1 DEF Grows, EveryReplicaAcknowledges
    <2>6. \A r \in ReplicaId : Mirrors(replicaLog[r], img)
      BY <2>1, <2>2 DEF SurvivalInv, Mirrors
    <2> QED
      BY <1>1, <2>4, <2>5, <2>6
  <1>5. CASE GrowsCommit
    <2>1. CommitLocal /\ \E tx \in Transaction : Last.prepared = {tx} /\ Grows(Commit(tx))
      BY <1>5 DEF GrowsCommit
    <2>2. PICK tx \in Transaction : Last.prepared = {tx} /\ Grows(Commit(tx))
      BY <2>1
    <2>3. img.state = Published(Last.state, tx) /\ img.prepared = {} /\ Continues(Last.state, tx)
      BY <1>0, <1>1, <2>2, LogCommit DEF Grows
    <2>4. Accepted(img)
      BY <1>0, <2>2, <2>3, PublishedAccepted
    <2>5. synced' = Len(wal')
      <3>1. Commit(tx).tx = tx
        BY DEF Commit
      <3>2. AcceptanceOf(Last.state.records, MutationOf(tx)) \in Requested
        BY <1>0, <2>2 DEF Accepted
      <3> QED
        BY <2>2, <3>1, <3>2 DEF Grows, EveryReplicaAcknowledges
    <2>6. \A r \in ReplicaId : Mirrors(replicaLog[r], img)
      BY <2>1, <2>2, <2>3, CommitMirrored DEF Mirrors
    <2> QED
      BY <1>1, <2>4, <2>5, <2>6
  <1>6. CASE Saves
    <2>1. snapshot' = Last.state /\ Last.prepared = {}
      BY <1>6 DEF Saves
    <2>2. img = ReplayStart(Last.state) /\ synced' = Len(wal')
      <3>1. CASE UNCHANGED <<wal, synced>>
        <4>1. \A n \in 0..Len(wal) : ReplayFrames(Last.state, wal)[n] = ReplayStart(Last.state)
          BY <1>0, <2>1, LogSnapshot
        <4> QED
          BY <1>0, <1>1, <2>1, <3>1, <4>1 DEF LastImage
      <3>2. CASE wal' = <<>> /\ synced' = 0
        <4>1. Len(wal') = 0 /\ ReplayFrames(Last.state, <<>>)[0] = ReplayStart(Last.state)
          BY <1>0, <3>2, LogEmpty
        <4> QED
          BY <1>1, <2>1, <3>2, <4>1 DEF LastImage
      <3> QED
        BY <1>6, <3>1, <3>2 DEF Saves
    <2>3. img.state = Last.state /\ img.prepared = {}
      BY <1>0, <2>2, StartOK
    <2>4. Accepted(img) /\ \A r \in ReplicaId : Mirrors(replicaLog[r], img)
      BY <1>0, <2>1, <2>3 DEF Accepted, SurvivalInv, Mirrors
    <2> QED
      BY <1>1, <2>2, <2>4
  <1>7. CASE Cuts
    <2>1. PICK n \in synced..Len(wal) : wal' = SubSeq(wal, 1, n)
      BY <1>7 DEF Cuts
    <2>2. n = Len(wal)
      BY <1>0
    <2>3. wal' = wal
      BY <1>0, <2>1, <2>2
    <2> QED
      BY <1>0, <1>2, <1>7, <2>3 DEF Cuts
  <1> QED
    BY <1>3, <1>4, <1>5, <1>6, <1>7 DEF FileEffect

\* A replica that commits the pending transaction goes on mirroring the registry.
LEMMA CommitKeepsMirrors ==
    ASSUME CopiesInv, SurvivalInv, Replicate, ReplicaCommits(Replicas[next]), NEW r \in ReplicaId
    PROVE  Mirrors(replicaLog'[r], Last)
  <1>1. /\ Last.prepared = {Pending.tx} /\ Pending.tx \in Transaction
        /\ Continues(Last.state, Pending.tx)
    <2>1. RegistryInv /\ up /\ phase = "replicate"
      BY DEF CopiesInv, Replicate
    <2> QED
      BY <2>1, PendingFacts, LastFacts DEF ImageOK
  <1>2. PICK tx \in Transaction : tx = Pending.tx
    BY <1>1
  <1>3. PICK log : log = replicaLog[r]
    OBVIOUS
  <1>4. Mirrors(log, Last)
    BY <1>3 DEF SurvivalInv
  <1>5. CASE replicaLog'[r] = log
    BY <1>4, <1>5
  <1>6. CASE replicaLog'[r] # log
    <2>1. ~InLog(log, tx) /\ replicaLog'[r] = Append(log, tx)
      BY <1>2, <1>3, <1>6 DEF CopiesInv, ReplicaCommits, ReplicaHolds, InLog
    <2>2. Reaches(log, Last.state)
      BY <1>1, <1>2, <1>4, <2>1 DEF Mirrors
    <2>3. Reaches(Append(log, tx), Published(Last.state, tx)) /\ InLog(Append(log, tx), tx)
      BY <1>1, <1>2, <2>2, ReachesNext
    <2> QED
      BY <1>1, <1>2, <2>1, <2>3 DEF Mirrors
  <1> QED
    BY <1>5, <1>6

\* In every state each replica's log opens as the registry.
LEMMA SurvivalInvariant ==
    ASSUME EveryReplicaAcknowledges
    PROVE  Spec => []SurvivalInv
  <1>1. Init => SurvivalInv
    <2> SUFFICES ASSUME Init PROVE SurvivalInv
      OBVIOUS
    <2>1. Last = ReplayStart(EmptyState) /\ synced = Len(wal)
      BY InitLog DEF Init
    <2>2. Last.state = EmptyState /\ Last.prepared = {}
      BY <2>1, EmptyStateOK, StartOK
    <2>3. \A t \in Task : ~Known(EmptyState.records[t]) /\ ~Syncs(EmptyState.records[t].acceptance)
      BY DEF EmptyState, NoRecord, EmptyRecord, Known, Fast, Syncs
    <2>4. Accepted(Last)
      BY <2>2, <2>3 DEF Accepted
    <2>5. ASSUME NEW r \in ReplicaId PROVE Mirrors(replicaLog[r], Last)
      <3>1. replicaLog[r] = <<>> /\ <<>> \in Seq(Transaction)
        BY DEF Init
      <3>2. FramesOf(<<>>) = <<>> /\ Len(<<>>) = 0
        BY FramesEmpty
      <3>3. LogOK(EmptyState, <<>>) /\ ReplayFrames(EmptyState, <<>>)[0] = ReplayStart(EmptyState)
        BY EmptyStateOK, LogEmpty
      <3>4. Reaches(<<>>, EmptyState)
        BY <2>1, <2>2, <3>1, <3>2, <3>3 DEF Reaches, LastImage
      <3> QED
        BY <2>2, <3>1, <3>4 DEF Mirrors
    <2> QED
      BY <2>1, <2>4, <2>5 DEF SurvivalInv
  <1>2. CopiesInv /\ SurvivalInv /\ [Next]_vars => SurvivalInv'
    <2> SUFFICES ASSUME CopiesInv, SurvivalInv, [Next]_vars PROVE SurvivalInv'
      OBVIOUS
    <2>1. FileEffect
      BY StepEffect DEF CopiesInv
    <2>2. /\ synced' = Len(wal') /\ Accepted(LastImage(snapshot', wal'))
          /\ \A r \in ReplicaId : Mirrors(replicaLog[r], LastImage(snapshot', wal'))
      BY <2>1, EffectKeepsMirrors
    <2>3. \A r \in ReplicaId : Mirrors(replicaLog'[r], LastImage(snapshot', wal'))
      <3>1. CASE UNCHANGED replicaLog
        BY <2>2, <3>1
      <3>2. CASE Replicate /\ ReplicaCommits(Replicas[next])
        <4>1. wal' = wal /\ snapshot' = snapshot
          BY <3>2 DEF Replicate
        <4> QED
          BY <3>2, <4>1, CommitKeepsMirrors DEF Last
      <3> QED
        BY <3>1, <3>2, ReplicaStep
    <2> QED
      BY <2>2, <2>3 DEF SurvivalInv, Last
  <1>3. Spec => []CopiesInv
    BY CopiesInvariant
  <1> QED
    BY <1>1, <1>2, <1>3, PTL DEF Spec

\* A replica's log opens with what the registry has published, or will have when the pending
\* transaction commits.
LEMMA ReplicaFound ==
    ASSUME RegistryInv, SurvivalInv, NEW r \in ReplicaId
    PROVE  /\ ReplicaReplay(r).ok
           /\ \/ ReplicaReplay(r).state = Last.state
              \/ \E p \in Last.prepared : ReplicaReplay(r).state = Published(Last.state, p)
  <1>1. PICK s : Reaches(replicaLog[r], s)
                 /\ (s = Last.state \/ \E p \in Last.prepared : s = Published(Last.state, p))
    BY DEF SurvivalInv, Mirrors
  <1>2. PICK frames : frames = FramesOf(replicaLog[r])
    OBVIOUS
  <1>3. LogOK(EmptyState, frames) /\ Len(frames) \in 0..Len(frames) /\ LastImage(EmptyState, frames).state = s
    BY <1>1, <1>2 DEF Reaches, LogOK
  <1>4. ReplicaReplay(r) = ReplayOf(EmptyState, frames)[Len(frames)]
    BY <1>2 DEF ReplicaReplay, Replay, ReplicaFrames, FramesOf
  <1>5. ReplicaReplay(r).ok /\ ReplicaReplay(r).state = s
    BY <1>3, <1>4, FoundImage DEF LastImage
  <1> QED
    BY <1>1, <1>5

\* docs/phase4-durable-registry.md, Durable: for any number of replicas, if every transaction is
\* acknowledged by each, then after any retries, failed local commits, compactions and restarts
\* another management node that opens a replica's log finds every task that was published, with
\* the record that was published when nothing is pending.
THEOREM EntryLossSurvived ==
    ASSUME EveryReplicaAcknowledges
    PROVE  Spec => []EntryLossSurvivable
  <1>1. RegistryInv /\ SurvivalInv => EntryLossSurvivable
    <2> SUFFICES ASSUME RegistryInv, SurvivalInv, up, NEW t \in Task, Syncs(records[t].acceptance)
                 PROVE  \E r \in ReplicaId :
                            /\ ReplicaReplay(r).ok
                            /\ Known(ReplicaReplay(r).state.records[t])
                            /\ (pending = {}) => ReplicaReplay(r).state.records[t] = records[t]
      BY DEF EntryLossSurvivable
    <2>1. Last.state.records = records /\ Last.prepared = PendingTxs(pending) /\ StateOK(Last.state)
      BY OpenState
    <2>2. Known(Last.state.records[t])
      BY <2>1 DEF SurvivalInv, Accepted
    <2>3. PICK r \in ReplicaId : TRUE
      <3>1. Len(Replicas) \in Nat /\ Len(Replicas) # 0 /\ DOMAIN Replicas = 1..Len(Replicas)
        BY RegistryConstants DEF EveryReplicaAcknowledges
      <3>2. Replicas[1] \in ReplicaId
        BY <3>1 DEF ReplicaId
      <3> QED
        BY <3>2
    <2>4. ReplicaReplay(r).ok
      BY ReplicaFound
    <2>5. CASE ReplicaReplay(r).state = Last.state
      BY <2>1, <2>2, <2>4, <2>5
    <2>6. ASSUME NEW p \in Last.prepared, ReplicaReplay(r).state = Published(Last.state, p)
          PROVE  Known(ReplicaReplay(r).state.records[t]) /\ pending # {}
      <3>1. pending # {}
        BY <2>1 DEF PendingTxs
      <3>2. p \in Transaction /\ Continues(Last.state, p)
        BY LastFacts DEF ImageOK
      <3>3. Known(Published(Last.state, p).records[t])
        BY <2>1, <2>2, <3>2, PublishedAcceptance
      <3> QED
        BY <2>6, <3>1, <3>3
    <2> QED
      BY <2>4, <2>5, <2>6, ReplicaFound
  <1>2. Spec => []RegistryInv
    BY RegistryInvariant
  <1>3. Spec => []SurvivalInv
    BY SurvivalInvariant
  <1> QED
    BY <1>1, <1>2, <1>3, PTL

=============================================================================
