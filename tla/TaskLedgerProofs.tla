-------------------------- MODULE TaskLedgerProofs --------------------------
(***************************************************************************)
(* Proofs about TaskLedger, for every set of tasks, nodes and contents and   *)
(* every bound: type correctness, fencing, the origin of formal outputs, and *)
(* that no step, crash included, undoes anything for a durable task.         *)
(***************************************************************************)
EXTENDS TaskLedger, TLAPS

\* The inductive part of the safety of one record.
RecordInv(rec) ==
    /\ rec.state = "Absent" => rec = NoRecord
    /\ FencedRecord(rec)
    /\ StagedRecord(rec)
    /\ CommittedRecord(rec)

RecordsInv(recs) == \A t \in Task : RecordInv(recs[t])

\* The inductive invariant of the ledger.
LedgerInv ==
    /\ TypeOK
    /\ RecordsInv(records)
    /\ \A r \in recoverable : RecordsInv(r)
    /\ DurableAgrees

-----------------------------------------------------------------------------
\* Every mutation has one of the eight shapes.
LEMMA MutationCases ==
    ASSUME NEW m \in Mutation
    PROVE  /\ m.task \in Task
           /\ \/ m \in SubmitMutation /\ m.kind = "Submit"
              \/ m \in AssignMutation /\ m.kind = "Assign"
              \/ m \in RunningMutation /\ m.kind = "Running"
              \/ m \in StageMutation /\ m.kind = "StageOutput"
              \/ m \in ConflictMutation /\ m.kind = "ConflictOutput"
              \/ m \in CommitMutation /\ m.kind = "CommitOutput"
              \/ m \in FailureMutation /\ m.kind = "SetFailure"
              \/ m \in CancelMutation /\ m.kind = "Cancel"
  BY DEF Mutation, SubmitMutation, AssignMutation, RunningMutation,
         StageMutation, ConflictMutation, CommitMutation, FailureMutation,
         CancelMutation

\* The empty record of any acceptance mode is well typed.
LEMMA EmptyRecordType ==
    ASSUME NEW s \in TaskState \cup {"Absent"}, NEW a \in AcceptanceMode
    PROVE  EmptyRecord(s, a) \in TaskRecord
  BY DEF EmptyRecord, TaskRecord

\* The record of a task nobody submitted is well typed.
LEMMA NoRecordType == NoRecord \in TaskRecord
  <1>1. Fast \in AcceptanceMode
    BY DEF AcceptanceMode
  <1> QED
    BY <1>1, EmptyRecordType DEF NoRecord

\* Deactivating attempts keeps their type, numbers and nodes.
LEMMA DeactivatedType ==
    ASSUME NEW as \in SUBSET Attempt
    PROVE  /\ Deactivated(as) \in SUBSET Attempt
           /\ \A b \in Deactivated(as) :
                 /\ b.active = FALSE
                 /\ \E a \in as : a.attempt = b.attempt /\ a.node = b.node
           /\ \A a \in as : [a EXCEPT !.active = FALSE] \in Deactivated(as)
           /\ \A a \in as : \E b \in Deactivated(as) :
                 b.attempt = a.attempt /\ b.node = a.node
  <1>1. ASSUME NEW a \in as
        PROVE  LET b == [a EXCEPT !.active = FALSE] IN
               /\ b \in Attempt /\ b.active = FALSE
               /\ b.attempt = a.attempt /\ b.node = a.node
    BY DEF Attempt
  <1>2. \A a \in as : [a EXCEPT !.active = FALSE] \in Deactivated(as)
    BY DEF Deactivated
  <1>3. ASSUME NEW b \in Deactivated(as)
        PROVE  /\ b \in Attempt /\ b.active = FALSE
               /\ \E a \in as : a.attempt = b.attempt /\ a.node = b.node
    <2>1. PICK a \in as : b = [a EXCEPT !.active = FALSE]
      BY DEF Deactivated
    <2> QED
      BY <1>1, <2>1
  <1>4. ASSUME NEW a \in as
        PROVE  \E b \in Deactivated(as) : b.attempt = a.attempt /\ b.node = a.node
    <2>1. [a EXCEPT !.active = FALSE] \in Deactivated(as)
      BY <1>2
    <2> QED
      BY <1>1, <2>1
  <1>5. Deactivated(as) \in SUBSET Attempt
    BY <1>3
  <1> QED
    BY <1>2, <1>3, <1>4, <1>5

\* What Resulting is, by the shape of the mutation.
LEMMA ResultingCases ==
    ASSUME NEW rec, NEW m
    PROVE  /\ m.kind = "Submit" => Resulting(rec, m) = Submitted(m)
           /\ m.kind = "Assign" => Resulting(rec, m) = Assigned(rec, m)
           /\ m.kind = "Running" => Resulting(rec, m) = [rec EXCEPT !.state = "Running"]
           /\ m.kind = "StageOutput" => Resulting(rec, m) = Staged(rec, m)
           /\ m.kind = "ConflictOutput" => Resulting(rec, m) = Conflicted(rec, m)
           /\ m.kind = "CommitOutput" => Resulting(rec, m) = Committed(rec, m)
           /\ m.kind = "SetFailure" => Resulting(rec, m) = Stopped(rec, m.state)
           /\ m.kind = "Cancel" => Resulting(rec, m) = Stopped(rec, "Cancelled")
  BY DEF Resulting

\* Resulting preserves the type of a record.
LEMMA ResultingType ==
    ASSUME NEW rec \in TaskRecord, NEW m \in Mutation
    PROVE  Resulting(rec, m) \in TaskRecord
  <1>1. CASE m \in SubmitMutation /\ m.kind = "Submit"
    <2>1. m.acceptance \in AcceptanceMode
      BY <1>1 DEF SubmitMutation
    <2> QED
      BY <1>1, <2>1, ResultingCases, EmptyRecordType DEF Submitted, TaskState
  <1>2. CASE m \in AssignMutation /\ m.kind = "Assign"
    <2>1. [attempt |-> m.attempt, node |-> m.node, active |-> TRUE] \in Attempt
      BY <1>2 DEF AssignMutation, Attempt
    <2>2. Deactivated(rec.attempts) \in SUBSET Attempt
      BY DeactivatedType DEF TaskRecord
    <2>3. Resulting(rec, m) = Assigned(rec, m)
      BY <1>2, ResultingCases
    <2>4. "Assigned" \in TaskState
      BY DEF TaskState
    <2>5. PICK as \in SUBSET Attempt :
             Assigned(rec, m) = [rec EXCEPT !.state = "Assigned", !.attempts = as]
      BY <2>1, <2>2 DEF Assigned
    <2> QED
      BY <2>3, <2>4, <2>5 DEF TaskRecord
  <1>3. CASE m \in RunningMutation /\ m.kind = "Running"
    BY <1>3, ResultingCases DEF TaskRecord, TaskState
  <1>4. CASE m \in StageMutation /\ m.kind = "StageOutput"
    <2>1. [attempt |-> m.attempt, node |-> m.node, content |-> m.content,
           copies |-> m.copies] \in StagedOutput
      BY <1>4 DEF StageMutation, StagedOutput
    <2>2. Resulting(rec, m) = Staged(rec, m)
      BY <1>4, ResultingCases
    <2> QED
      BY <2>1, <2>2 DEF Staged, TaskRecord, TaskState
  <1>5. CASE m \in ConflictMutation /\ m.kind = "ConflictOutput"
    <2>1. [attempt |-> m.attempt, node |-> m.node, content |-> m.content]
             \in ConflictOutput
      BY <1>5 DEF ConflictMutation, ConflictOutput
    <2>2. Resulting(rec, m) = Conflicted(rec, m)
      BY <1>5, ResultingCases
    <2> QED
      BY <2>1, <2>2 DEF Conflicted, TaskRecord
  <1>6. CASE m \in CommitMutation /\ m.kind = "CommitOutput"
    <2>1. Deactivated(rec.attempts) \in SUBSET Attempt
      BY DeactivatedType DEF TaskRecord
    <2>2. Resulting(rec, m) = Committed(rec, m) /\ m.content \in Content
      BY <1>6, ResultingCases DEF CommitMutation
    <2>3. "Committed" \in TaskState /\ {m.content} \in SUBSET Content
      BY <2>2 DEF TaskState
    <2> QED
      BY <2>1, <2>2, <2>3 DEF Committed, TaskRecord
  <1>7. CASE m.kind = "SetFailure" /\ m \in FailureMutation
    <2>1. Deactivated(rec.attempts) \in SUBSET Attempt
      BY DeactivatedType DEF TaskRecord
    <2>2. m.state \in TaskState
      BY <1>7 DEF FailureMutation, TaskState
    <2>3. Resulting(rec, m) = Stopped(rec, m.state)
      BY <1>7, ResultingCases
    <2> QED
      BY <2>1, <2>2, <2>3 DEF Stopped, TaskRecord
  <1>8. CASE m.kind = "Cancel" /\ m \in CancelMutation
    <2>1. Deactivated(rec.attempts) \in SUBSET Attempt
      BY DeactivatedType DEF TaskRecord
    <2>2. Resulting(rec, m) = Stopped(rec, "Cancelled")
      BY <1>8, ResultingCases
    <2> QED
      BY <2>1, <2>2 DEF Stopped, TaskRecord, TaskState
  <1> QED
    BY <1>1, <1>2, <1>3, <1>4, <1>5, <1>6, <1>7, <1>8, MutationCases

-----------------------------------------------------------------------------
\* A record without attempts or outputs satisfies the record invariant.
LEMMA EmptyRecordInv ==
    ASSUME NEW s \in {"Submitted", "Persisted"}, NEW a
    PROVE  RecordInv(EmptyRecord(s, a)) /\ RecordInv(NoRecord)
  BY DEF EmptyRecord, NoRecord, RecordInv, FencedRecord, StagedRecord,
         CommittedRecord

\* Deactivating the attempts of a record forgets none of them.
LEMMA DeactivatedKeeps ==
    ASSUME NEW as \in SUBSET Attempt, NEW a \in as
    PROVE  \/ a \in Deactivated(as)
           \/ a.active /\ [a EXCEPT !.active = FALSE] \in Deactivated(as)
  <1>1. [a EXCEPT !.active = FALSE] \in Deactivated(as)
    BY DEF Deactivated
  <1>2. a.active \in BOOLEAN /\ (a.active = FALSE => a = [a EXCEPT !.active = FALSE])
    BY DEF Attempt
  <1> QED
    BY <1>1, <1>2

-----------------------------------------------------------------------------
(* Each transition of prepare_existing_mutation preserves the invariant of   *)
(* the record it changes, and keeps the record's history.                    *)

\* Assign: the new attempt is the only active one and the newest.
LEMMA AssignedStep ==
    ASSUME NEW rec \in TaskRecord, NEW m \in AssignMutation,
           RecordInv(rec), AssignOk(rec, m)
    PROVE  RecordInv(Assigned(rec, m)) /\ DurableStep(rec, Assigned(rec, m))
  <1> DEFINE fresh == [attempt |-> m.attempt, node |-> m.node, active |-> TRUE]
  <1>1. PICK new : new = Assigned(rec, m)
    OBVIOUS
  <1>2. /\ new.state = "Assigned" /\ new.acceptance = rec.acceptance
        /\ new.attempts = Deactivated(rec.attempts) \cup {fresh}
        /\ new.committed = rec.committed /\ new.conflicts = rec.conflicts
    BY <1>1 DEF Assigned, TaskRecord
  <1>3. rec.attempts \in SUBSET Attempt /\ m.attempt \in Nat
    BY DEF TaskRecord, AssignMutation
  <1>4. rec.state \notin Terminal /\ \A a \in rec.attempts : a.attempt < m.attempt
    BY DEF AssignOk
  <1>5. \A b \in Deactivated(rec.attempts) : b.active = FALSE /\ b.attempt <= m.attempt
    <2>1. \A a \in rec.attempts : a.attempt \in Nat
      BY <1>3 DEF Attempt
    <2>2. \A b \in Deactivated(rec.attempts) :
             b.active = FALSE /\ \E a \in rec.attempts : a.attempt = b.attempt
      BY <1>3, DeactivatedType
    <2> QED
      BY <1>3, <1>4, <2>1, <2>2
  <1>6. FencedRecord(new)
    <2>1. \A a \in new.attempts : a.attempt <= m.attempt /\ (a.active => a = fresh)
      BY <1>2, <1>3, <1>5
    <2>2. fresh \in new.attempts /\ fresh.active /\ fresh.attempt = m.attempt
      BY <1>2
    <2> HIDE DEF fresh
    <2> QED
      BY <1>2, <2>1, <2>2 DEF FencedRecord, Newest
  <1>7. rec.committed = {}
    BY <1>4 DEF RecordInv, CommittedRecord, Terminal
  <1>8. RecordInv(new)
    BY <1>2, <1>6, <1>7 DEF RecordInv, StagedRecord, CommittedRecord
  <1>9. DurableStep(rec, new)
    <2>1. \A a \in rec.attempts : \/ a \in new.attempts
                                  \/ a.active /\ [a EXCEPT !.active = FALSE] \in new.attempts
      BY <1>2, <1>3, DeactivatedKeeps
    <2> QED
      BY <1>2, <1>4, <2>1 DEF DurableStep
  <1> QED
    BY <1>1, <1>8, <1>9

\* Running: only the state changes.
LEMMA RunningStep ==
    ASSUME NEW rec \in TaskRecord, RecordInv(rec), rec.state = "Assigned"
    PROVE  LET new == [rec EXCEPT !.state = "Running"]
           IN  RecordInv(new) /\ DurableStep(rec, new)
  <1>1. PICK new : new = [rec EXCEPT !.state = "Running"]
    OBVIOUS
  <1>2. /\ new.state = "Running" /\ new.attempts = rec.attempts
        /\ new.committed = rec.committed /\ new.acceptance = rec.acceptance
        /\ new.conflicts = rec.conflicts
    BY <1>1 DEF TaskRecord
  <1>3. RecordInv(new)
    BY <1>2 DEF RecordInv, FencedRecord, StagedRecord, CommittedRecord, Newest
  <1>4. DurableStep(rec, new)
    BY <1>2 DEF DurableStep, Terminal
  <1> QED
    BY <1>1, <1>3, <1>4

\* StageOutput: the staged output is the active attempt's.
LEMMA StagedStep ==
    ASSUME NEW rec \in TaskRecord, NEW m, RecordInv(rec), StageOk(rec, m)
    PROVE  RecordInv(Staged(rec, m)) /\ DurableStep(rec, Staged(rec, m))
  <1> DEFINE out == [attempt |-> m.attempt, node |-> m.node,
                     content |-> m.content, copies |-> m.copies]
  <1>1. PICK new : new = Staged(rec, m)
    OBVIOUS
  <1>2. /\ new.state = "OutputStaged" /\ new.attempts = rec.attempts
        /\ new.staged = {out} /\ new.committed = rec.committed
        /\ new.acceptance = rec.acceptance /\ new.conflicts = rec.conflicts
    BY <1>1 DEF Staged, TaskRecord
  <1>3. /\ rec.state \in {"Assigned", "Running"}
        /\ \E a \in rec.attempts :
              a.active /\ a.attempt = m.attempt /\ a.node = m.node
    BY DEF StageOk, ActiveAttempt
  <1>4. StagedRecord(new)
    BY <1>2, <1>3 DEF StagedRecord
  <1>5. RecordInv(new)
    BY <1>2, <1>3, <1>4 DEF RecordInv, FencedRecord, CommittedRecord, Newest
  <1>6. DurableStep(rec, new)
    BY <1>2, <1>3 DEF DurableStep, Terminal
  <1> QED
    BY <1>1, <1>5, <1>6

\* ConflictOutput: a conflict is added and nothing else changes.
LEMMA ConflictedStep ==
    ASSUME NEW rec \in TaskRecord, NEW m, RecordInv(rec), Known(rec)
    PROVE  RecordInv(Conflicted(rec, m)) /\ DurableStep(rec, Conflicted(rec, m))
  <1>1. PICK new : new = Conflicted(rec, m)
    OBVIOUS
  <1>2. /\ new.state = rec.state /\ new.attempts = rec.attempts
        /\ new.staged = rec.staged /\ new.committed = rec.committed
        /\ new.acceptance = rec.acceptance /\ rec.conflicts \subseteq new.conflicts
    BY <1>1 DEF Conflicted, TaskRecord
  <1>3. RecordInv(new)
    BY <1>2 DEF RecordInv, FencedRecord, StagedRecord, CommittedRecord, Newest, Known
  <1>4. DurableStep(rec, new)
    BY <1>2 DEF DurableStep
  <1> QED
    BY <1>1, <1>3, <1>4

\* CommitOutput: the staged output, of the newest attempt, becomes formal.
LEMMA CommittedStep ==
    ASSUME NEW rec \in TaskRecord, NEW m, RecordInv(rec), CommitOk(rec, m)
    PROVE  RecordInv(Committed(rec, m)) /\ DurableStep(rec, Committed(rec, m))
  <1>1. PICK new : new = Committed(rec, m)
    OBVIOUS
  <1>2. /\ new.state = "Committed" /\ new.attempts = Deactivated(rec.attempts)
        /\ new.staged = rec.staged /\ new.committed = {m.content}
        /\ new.acceptance = rec.acceptance /\ new.conflicts = rec.conflicts
    BY <1>1 DEF Committed, TaskRecord
  <1>3. rec.state = "OutputStaged" /\ \E s \in rec.staged : s.content = m.content
    BY DEF CommitOk
  <1>4. PICK s \in rec.staged, a \in rec.attempts :
           /\ rec.staged = {s} /\ a.active
           /\ a.attempt = s.attempt /\ a.node = s.node
    BY <1>3 DEF RecordInv, StagedRecord
  <1>5. s.content = m.content
    BY <1>3, <1>4
  <1>6. rec.attempts \in SUBSET Attempt
    BY DEF TaskRecord
  <1>7. \A b \in Deactivated(rec.attempts) : b.active = FALSE /\ b.attempt <= s.attempt
    <2>1. \A b \in rec.attempts : b.attempt <= s.attempt
      BY <1>4 DEF RecordInv, FencedRecord, Newest
    <2> QED
      BY <1>6, <2>1, DeactivatedType
  <1>8. \E b \in Deactivated(rec.attempts) : b.attempt = s.attempt /\ b.node = s.node
    <2>1. \A c \in rec.attempts : \E b \in Deactivated(rec.attempts) :
             b.attempt = c.attempt /\ b.node = c.node
      BY <1>6, DeactivatedType
    <2> QED
      BY <1>4, <2>1
  <1>9. CommittedRecord(new)
    BY <1>2, <1>4, <1>5, <1>7, <1>8 DEF CommittedRecord, Newest
  <1>10. RecordInv(new)
    BY <1>2, <1>7, <1>9 DEF RecordInv, FencedRecord, StagedRecord
  <1>11. DurableStep(rec, new)
    <2>1. rec.committed = {}
      BY <1>3 DEF RecordInv, CommittedRecord
    <2>2. \A b \in rec.attempts : \/ b \in new.attempts
                                  \/ b.active /\ [b EXCEPT !.active = FALSE] \in new.attempts
      BY <1>2, <1>6, DeactivatedKeeps
    <2> QED
      BY <1>2, <1>3, <2>1, <2>2 DEF DurableStep, Terminal
  <1> QED
    BY <1>1, <1>10, <1>11

\* SetFailure and Cancel: every attempt is deactivated, nothing was committed.
LEMMA StoppedStep ==
    ASSUME NEW rec \in TaskRecord, RecordInv(rec), StopOk(rec),
           NEW st \in {"Failed", "RecoveryRequired", "Cancelled"}
    PROVE  RecordInv(Stopped(rec, st)) /\ DurableStep(rec, Stopped(rec, st))
  <1>1. PICK new : new = Stopped(rec, st)
    OBVIOUS
  <1>2. /\ new.state = st /\ new.attempts = Deactivated(rec.attempts)
        /\ new.committed = rec.committed
        /\ new.acceptance = rec.acceptance /\ new.conflicts = rec.conflicts
    BY <1>1 DEF Stopped, TaskRecord
  <1>3. rec.state \notin Terminal /\ rec.attempts \in SUBSET Attempt
    BY DEF StopOk, TaskRecord
  <1>4. \A b \in Deactivated(rec.attempts) : b.active = FALSE
    BY <1>3, DeactivatedType
  <1>5. RecordInv(new)
    BY <1>2, <1>3, <1>4
    DEF RecordInv, FencedRecord, StagedRecord, CommittedRecord, Terminal
  <1>6. DurableStep(rec, new)
    <2>1. \A b \in rec.attempts : \/ b \in new.attempts
                                  \/ b.active /\ [b EXCEPT !.active = FALSE] \in new.attempts
      BY <1>2, <1>3, DeactivatedKeeps
    <2> QED
      BY <1>2, <1>3, <2>1 DEF DurableStep
  <1> QED
    BY <1>1, <1>5, <1>6

\* A mutation that prepare_mutation admits preserves the record invariant, and
\* the history of a record that existed.
LEMMA ResultingStep ==
    ASSUME NEW recs \in Records, NEW m \in Mutation,
           PrepareOk(recs, m), RecordInv(recs[m.task])
    PROVE  /\ RecordInv(Resulting(recs[m.task], m))
           /\ Known(recs[m.task]) =>
                 DurableStep(recs[m.task], Resulting(recs[m.task], m))
  <1>1. PICK rec \in TaskRecord : rec = recs[m.task]
    BY MutationCases DEF Records
  <1>2. RecordInv(rec)
    BY <1>1
  <1> SUFFICES /\ RecordInv(Resulting(rec, m))
               /\ Known(rec) => DurableStep(rec, Resulting(rec, m))
    BY <1>1
  <1>3. CASE m \in SubmitMutation /\ m.kind = "Submit"
    <2>1. ~Known(rec)
      BY <1>1, <1>3 DEF PrepareOk, SubmitOk
    <2>2. Resulting(rec, m) = Submitted(m)
      BY <1>3, ResultingCases
    <2> QED
      BY <2>1, <2>2, EmptyRecordInv DEF Submitted
  <1>4. CASE m \in AssignMutation /\ m.kind = "Assign"
    <2>1. AssignOk(rec, m) /\ Resulting(rec, m) = Assigned(rec, m)
      BY <1>1, <1>4, ResultingCases DEF PrepareOk
    <2> QED
      BY <1>2, <1>4, <2>1, AssignedStep
  <1>5. CASE m \in RunningMutation /\ m.kind = "Running"
    <2>1. rec.state = "Assigned" /\ Resulting(rec, m) = [rec EXCEPT !.state = "Running"]
      BY <1>1, <1>5, ResultingCases DEF PrepareOk, RunningOk
    <2> QED
      BY <1>2, <2>1, RunningStep
  <1>6. CASE m \in StageMutation /\ m.kind = "StageOutput"
    <2>1. StageOk(rec, m) /\ Resulting(rec, m) = Staged(rec, m)
      BY <1>1, <1>6, ResultingCases DEF PrepareOk
    <2> QED
      BY <1>2, <2>1, StagedStep
  <1>7. CASE m \in ConflictMutation /\ m.kind = "ConflictOutput"
    <2>1. Known(rec) /\ Resulting(rec, m) = Conflicted(rec, m)
      BY <1>1, <1>7, ResultingCases DEF PrepareOk
    <2> QED
      BY <1>2, <2>1, ConflictedStep
  <1>8. CASE m \in CommitMutation /\ m.kind = "CommitOutput"
    <2>1. CommitOk(rec, m) /\ Resulting(rec, m) = Committed(rec, m)
      BY <1>1, <1>8, ResultingCases DEF PrepareOk
    <2> QED
      BY <1>2, <2>1, CommittedStep
  <1>9. CASE m \in FailureMutation /\ m.kind = "SetFailure"
    <2>1. StopOk(rec) /\ Resulting(rec, m) = Stopped(rec, m.state)
      BY <1>1, <1>9, ResultingCases DEF PrepareOk
    <2>2. m.state \in {"Failed", "RecoveryRequired", "Cancelled"}
      BY <1>9 DEF FailureMutation
    <2> QED
      BY <1>2, <2>1, <2>2, StoppedStep
  <1>10. CASE m \in CancelMutation /\ m.kind = "Cancel"
    <2>1. StopOk(rec) /\ Resulting(rec, m) = Stopped(rec, "Cancelled")
      BY <1>1, <1>10, ResultingCases DEF PrepareOk
    <2> QED
      BY <1>2, <2>1, StoppedStep
  <1> QED
    BY <1>3, <1>4, <1>5, <1>6, <1>7, <1>8, <1>9, <1>10, MutationCases

-----------------------------------------------------------------------------
(* One transaction.                                                          *)

\* A transaction preserves the ledger's invariant and every durable history.
LEMMA PublishStep ==
    ASSUME LedgerInv, NEW m \in Mutation, Publish(m)
    PROVE  /\ LedgerInv'
           /\ \A t \in Task : IsDurable(records[t]) => DurableStep(records[t], records'[t])
  <1>1. records \in Records /\ recoverable \subseteq Records /\ m.task \in Task
    BY MutationCases DEF LedgerInv, TypeOK
  <1>2. PICK new \in TaskRecord : new = Resulting(records[m.task], m)
    BY <1>1, ResultingType DEF Records
  <1>3. /\ records' \in Records
        /\ records'[m.task] = new
        /\ \A t \in Task : t # m.task => records'[t] = records[t]
    BY <1>1, <1>2 DEF Publish, Applied, Records
  <1>4. /\ RecordInv(new)
        /\ Known(records[m.task]) => DurableStep(records[m.task], new)
    BY <1>1, <1>2, ResultingStep DEF Publish, LedgerInv, RecordsInv
  <1>5. RecordsInv(records')
    BY <1>3, <1>4 DEF LedgerInv, RecordsInv
  <1>6. recoverable' = {records'} \/ recoverable' = recoverable \cup {records'}
    BY DEF Publish
  <1>7. TypeOK' /\ \A r \in recoverable' : RecordsInv(r)
    BY <1>1, <1>3, <1>5, <1>6 DEF LedgerInv, TypeOK
  <1>8. ~Known(records[m.task]) => ~IsDurable(records[m.task])
    BY <1>1 DEF LedgerInv, RecordsInv, RecordInv, Known, IsDurable, NoRecord,
               EmptyRecord, Fast
  <1>9. DurableAgrees'
    <2>1. CASE IsDurable(records'[m.task])
      BY <2>1 DEF Publish, DurableAgrees
    <2>2. CASE ~IsDurable(records'[m.task])
      <3>1. recoverable' = recoverable \cup {records'}
        BY <2>2 DEF Publish
      <3>2. ~IsDurable(records[m.task])
        BY <1>3, <1>4, <1>8, <2>2 DEF DurableStep, IsDurable
      <3>3. \A r \in recoverable : ~IsDurable(r[m.task])
        BY <1>1, <3>2 DEF LedgerInv, DurableAgrees
      <3> QED
        BY <1>1, <1>3, <2>2, <3>1, <3>3 DEF LedgerInv, DurableAgrees
    <2> QED
      BY <2>1, <2>2
  <1>10. ASSUME NEW t \in Task, IsDurable(records[t])
         PROVE  DurableStep(records[t], records'[t])
    <2>1. CASE t = m.task
      BY <1>3, <1>4, <1>8, <1>10, <2>1
    <2>2. CASE t # m.task
      BY <1>3, <2>2 DEF DurableStep
    <2> QED
      BY <2>1, <2>2
  <1> QED
    BY <1>5, <1>7, <1>9, <1>10 DEF LedgerInv

\* Falling back to a recoverable state is a durable step of every durable task.
LEMMA CrashStep ==
    ASSUME LedgerInv, Crash
    PROVE  /\ LedgerInv'
           /\ \A t \in Task : IsDurable(records[t]) => DurableStep(records[t], records'[t])
  <1>0. PICK left \in SUBSET recoverable :
           \E r \in left : records' = r /\ recoverable' = left
    BY DEF Crash
  <1>1. PICK r \in left : records' = r /\ recoverable' = left
    BY <1>0
  <1>2. LedgerInv'
    BY <1>1 DEF LedgerInv, TypeOK, DurableAgrees
  <1>3. \A t \in Task : IsDurable(records[t]) => records'[t] = records[t]
    BY <1>1 DEF LedgerInv, DurableAgrees
  <1> QED
    BY <1>2, <1>3 DEF DurableStep

\* Every step preserves the invariant and every durable history.
LEMMA LedgerStep ==
    ASSUME LedgerInv, [Next]_vars
    PROVE  /\ LedgerInv'
           /\ \A t \in Task : IsDurable(records[t]) => DurableStep(records[t], records'[t])
  <1>1. ASSUME NEW m \in Mutation, Publish(m)
        PROVE  /\ LedgerInv'
               /\ \A t \in Task :
                     IsDurable(records[t]) => DurableStep(records[t], records'[t])
    BY <1>1, PublishStep
  <1>2. CASE Submit
    BY <1>1, <1>2 DEF Submit, Mutation
  <1>3. CASE Assign
    BY <1>1, <1>3 DEF Assign, Mutation
  <1>4. CASE MarkRunning
    BY <1>1, <1>4 DEF MarkRunning, Mutation
  <1>5. CASE StageOutput
    BY <1>1, <1>5 DEF StageOutput, Mutation
  <1>6. CASE QuarantineOutput
    BY <1>1, <1>6 DEF QuarantineOutput, Mutation
  <1>7. CASE CommitOutput
    BY <1>1, <1>7 DEF CommitOutput, Mutation
  <1>8. CASE Fail
    BY <1>1, <1>8 DEF Fail, Mutation
  <1>9. CASE Cancel
    BY <1>1, <1>9 DEF Cancel, Mutation
  <1>10. CASE Flush
    BY <1>10 DEF Flush, LedgerInv, TypeOK, DurableAgrees, DurableStep
  <1>11. CASE Crash
    BY <1>11, CrashStep
  <1>12. CASE UNCHANGED vars
    BY <1>12 DEF vars, LedgerInv, TypeOK, RecordsInv, DurableAgrees, DurableStep
  <1> QED
    BY <1>2, <1>3, <1>4, <1>5, <1>6, <1>7, <1>8, <1>9, <1>10, <1>11, <1>12 DEF Next

\* The invariant holds initially.
LEMMA LedgerInit == Init => LedgerInv
  <1> SUFFICES ASSUME Init PROVE LedgerInv
    OBVIOUS
  <1>1. records \in Records /\ recoverable = {records}
    BY NoRecordType DEF Init, Records
  <1>2. RecordsInv(records)
    BY EmptyRecordInv DEF Init, RecordsInv
  <1> QED
    BY <1>1, <1>2 DEF LedgerInv, TypeOK, DurableAgrees

-----------------------------------------------------------------------------
(* The theorems.                                                             *)

\* The inductive invariant holds in every reachable state.
THEOREM LedgerInvariant == Spec => []LedgerInv
  <1>1. LedgerInv /\ [Next]_vars => LedgerInv'
    BY LedgerStep
  <1> QED
    BY <1>1, LedgerInit, PTL DEF Spec

\* The records, and what a crash can leave of them, always have their types.
THEOREM LedgerTypeCorrect == Spec => []TypeOK
  <1>1. LedgerInv => TypeOK
    BY DEF LedgerInv
  <1> QED
    BY <1>1, LedgerInvariant, PTL

\* No two attempts of a task are ever active, in any state a crash can leave.
THEOREM AttemptsAreFenced == Spec => []FencedAttempts
  <1>1. LedgerInv => FencedAttempts
    BY DEF LedgerInv, RecordsInv, RecordInv, FencedAttempts
  <1> QED
    BY <1>1, LedgerInvariant, PTL

\* Only the output of the newest attempt is ever the formal one.
THEOREM NewestOutputCommits == Spec => []OnlyNewestCommits
  <1>1. LedgerInv => OnlyNewestCommits
    BY DEF LedgerInv, RecordsInv, RecordInv, OnlyNewestCommits
  <1> QED
    BY <1>1, LedgerInvariant, PTL

\* A crash loses no mutation of a task accepted as Durable or Critical.
THEOREM DurableSurvives == Spec => []DurableAgrees
  <1>1. LedgerInv => DurableAgrees
    BY DEF LedgerInv
  <1> QED
    BY <1>1, LedgerInvariant, PTL

\* No step, crash included, undoes anything of a durable task.
THEOREM DurableHistoryKept == Spec => DurableHistory
  <1>1. LedgerInv /\ [Next]_vars =>
           [\A t \in Task : IsDurable(records[t]) => DurableStep(records[t], records'[t])]_vars
    BY LedgerStep
  <1> QED
    BY <1>1, LedgerInvariant, PTL DEF Spec, DurableHistory

=============================================================================
