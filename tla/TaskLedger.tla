----------------------------- MODULE TaskLedger -----------------------------
(***************************************************************************)
(* What a registry of global tasks promises: every published mutation is one *)
(* atomic step of the task's state machine, and a crash returns to a state   *)
(* that was published, losing at most mutations of tasks accepted as Fast.   *)
(* PersistentRegistry implements this with a write-ahead log, a snapshot and *)
(* metadata replicas.                                                        *)
(***************************************************************************)
EXTENDS TaskLifecycle

VARIABLES
    records,       \* the published record of every task
    recoverable    \* every value of `records` that a crash may fall back to

vars == <<records, recoverable>>

Records == [Task -> TaskRecord]

IsDurable(rec) == rec.acceptance.mode # "Fast"

TypeOK ==
    /\ records \in Records
    /\ recoverable \subseteq Records

Init ==
    /\ records = [t \in Task |-> NoRecord]
    /\ recoverable = {records}

-----------------------------------------------------------------------------
\* Defect: no transaction is synced before it returns.
PublishUnsynced(m) ==
    /\ PrepareOk(records, m)
    /\ records' = Applied(records, m)
    /\ recoverable' = recoverable \cup {records'}

\* One transaction.  A task accepted as Durable or Critical is synced before
\* the transaction returns, which also makes everything before it durable.
Publish(m) ==
    /\ PrepareOk(records, m)
    /\ records' = Applied(records, m)
    /\ recoverable' = IF IsDurable(records'[m.task])
                        THEN {records'}
                        ELSE recoverable \cup {records'}

Submit == \E m \in SubmitMutation : Publish(m)
Assign == \E m \in AssignMutation : Publish(m)
MarkRunning == \E m \in RunningMutation : Publish(m)
StageOutput == \E m \in StageMutation : Publish(m)
QuarantineOutput == \E m \in ConflictMutation : Publish(m)
CommitOutput == \E m \in CommitMutation : Publish(m)
Fail == \E m \in FailureMutation : Publish(m)
Cancel == \E m \in CancelMutation : Publish(m)

\* A sync or a snapshot makes what was published so far durable.
Flush ==
    /\ recoverable' = {records}
    /\ UNCHANGED records

\* A crash: some recoverable state becomes the current one.  What it does not
\* sync remains at risk in a later crash.
Crash ==
    \E left \in SUBSET recoverable : \E r \in left :
        /\ records' = r
        /\ recoverable' = left

Next ==
    \/ Submit \/ Assign \/ MarkRunning \/ StageOutput \/ QuarantineOutput
    \/ CommitOutput \/ Fail \/ Cancel
    \/ Flush \/ Crash

Spec == Init /\ [][Next]_vars

-----------------------------------------------------------------------------
(* Safety of one record.                                                     *)

Newest(rec, n) == \A a \in rec.attempts : a.attempt <= n

\* Reassignment fences: at most one attempt is active, it is the newest one,
\* and there is one exactly while the task is assigned, running or staged.
FencedRecord(rec) ==
    /\ \A a \in rec.attempts :
          a.active => /\ Newest(rec, a.attempt)
                      /\ \A b \in rec.attempts : b.active => b = a
    /\ (\E a \in rec.attempts : a.active)
          <=> rec.state \in {"Assigned", "Running", "OutputStaged"}

\* A staged output was produced by the attempt that is still active.
StagedRecord(rec) ==
    rec.state = "OutputStaged" =>
        \E s \in rec.staged, a \in rec.attempts :
            /\ rec.staged = {s}
            /\ a.active /\ a.attempt = s.attempt /\ a.node = s.node

\* A formal output exists exactly in state Committed, is the staged one, and
\* was produced by the newest attempt on the node that attempt was assigned to.
CommittedRecord(rec) ==
    /\ rec.committed # {} <=> rec.state = "Committed"
    /\ rec.state = "Committed" =>
          \E s \in rec.staged, a \in rec.attempts :
              /\ rec.committed = {s.content}
              /\ Newest(rec, s.attempt)
              /\ a.attempt = s.attempt /\ a.node = s.node

\* Reassignment fences the previous attempts (prepare_existing_mutation, Assign):
\* in every state a crash can leave, no two attempts of a task are active.
FencedAttempts ==
    \A r \in recoverable \cup {records} : \A t \in Task : FencedRecord(r[t])

\* commit_output publishes only the output of the newest attempt: an output
\* staged by an attempt that was replaced never becomes the formal result.
OnlyNewestCommits ==
    \A r \in recoverable \cup {records} : \A t \in Task :
        StagedRecord(r[t]) /\ CommittedRecord(r[t])

\* What a crash can take away never includes a mutation of a task accepted as
\* Durable or Critical, whatever Fast mutations precede and follow it.
DurableAgrees ==
    \A r \in recoverable : \A t \in Task :
        IsDurable(r[t]) \/ IsDurable(records[t]) => r[t] = records[t]

-----------------------------------------------------------------------------
\* For a task accepted as Durable or Critical no step, a crash included,
\* replaces a formal output, leaves a terminal state, forgets an attempt or
\* makes a fenced attempt active again.
DurableStep(old, new) ==
    /\ new.acceptance = old.acceptance
    /\ old.state \in Terminal => new.state = old.state
    /\ old.committed \subseteq new.committed
    /\ \A a \in old.attempts :
          \/ a \in new.attempts
          \/ a.active /\ [a EXCEPT !.active = FALSE] \in new.attempts
    /\ old.conflicts \subseteq new.conflicts

DurableHistory ==
    [][\A t \in Task : IsDurable(records[t]) => DurableStep(records[t], records'[t])]_vars

=============================================================================
