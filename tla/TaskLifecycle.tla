--------------------------- MODULE TaskLifecycle ---------------------------
(***************************************************************************)
(* The record a registry keeps for a global task, and the mutations of it:   *)
(* `DurableTaskRecord` and `RegistryMutation` with the validation and the    *)
(* transformation that `prepare_mutation` performs.  Nothing here has state; *)
(* TaskLedger and PersistentRegistry are built from these operators.         *)
(*                                                                           *)
(* Abstractions.  An Option is a set of at most one element.  The vector of  *)
(* attempts is a set, because a new attempt's number must exceed every       *)
(* existing one, so the number is the position; the vector of conflicts is a *)
(* set, so repeating a conflict is not counted.  Handles, runner             *)
(* generations, failure texts and the portable task itself are left out: no  *)
(* transition reads them.  A task with no record has a record in state       *)
(* "Absent".                                                                 *)
(***************************************************************************)
EXTENDS Naturals, FiniteSets

CONSTANTS
    Task,              \* global task ids
    Node,              \* worker nodes
    Content,           \* content ids
    MaxAttempt,        \* bound: largest attempt number a caller uses
    MaxCopies,         \* bound: largest number of healthy copies of a content
    MaxTasks,          \* RegistryOptions::max_tasks
    CriticalReplicas   \* the minimum_replicas values Critical is requested with

ASSUME LifecycleConstants ==
    /\ MaxAttempt \in Nat
    /\ MaxCopies \in Nat
    /\ MaxTasks \in Nat \ {0}
    /\ CriticalReplicas \subseteq Nat

-----------------------------------------------------------------------------
(* Acceptance modes, each with its minimum_metadata_copies.                  *)

Fast == [mode |-> "Fast", copies |-> 1]
Durable == [mode |-> "Durable", copies |-> 2]
Critical(k) == [mode |-> "Critical", copies |-> k]

AcceptanceMode == {Fast, Durable} \cup {Critical(k) : k \in CriticalReplicas}

-----------------------------------------------------------------------------
(* Records.                                                                  *)

TaskState == {"Submitted", "Persisted", "Assigned", "Running", "OutputStaged",
              "Committed", "Failed", "Cancelled", "RecoveryRequired"}

Terminal == {"Committed", "Failed", "Cancelled"}

Attempt == [attempt : 1..MaxAttempt, node : Node, active : BOOLEAN]
StagedOutput == [attempt : 1..MaxAttempt, node : Node, content : Content,
                 copies : 0..MaxCopies]
ConflictOutput == [attempt : 1..MaxAttempt, node : Node, content : Content]

TaskRecord ==
    [state      : TaskState \cup {"Absent"},
     acceptance : AcceptanceMode,
     attempts   : SUBSET Attempt,
     staged     : SUBSET StagedOutput,
     committed  : SUBSET Content,
     conflicts  : SUBSET ConflictOutput]

EmptyRecord(s, a) ==
    [state |-> s, acceptance |-> a, attempts |-> {}, staged |-> {},
     committed |-> {}, conflicts |-> {}]

NoRecord == EmptyRecord("Absent", Fast)

Known(rec) == rec.state # "Absent"

\* DurableTaskRecord::active_attempt: the last attempt that is active, as an Option.
ActiveAttempt(rec) ==
    {a \in rec.attempts :
        /\ a.active
        /\ \A b \in rec.attempts : b.active => b.attempt <= a.attempt}

\* deactivate_attempts.
Deactivated(attempts) == {[a EXCEPT !.active = FALSE] : a \in attempts}

-----------------------------------------------------------------------------
(* Mutations.                                                                *)

SubmitMutation == [kind : {"Submit"}, task : Task, acceptance : AcceptanceMode]
AssignMutation ==
    [kind : {"Assign"}, task : Task, attempt : 1..MaxAttempt, node : Node]
RunningMutation == [kind : {"Running"}, task : Task, attempt : 1..MaxAttempt]
StageMutation ==
    [kind : {"StageOutput"}, task : Task, attempt : 1..MaxAttempt, node : Node,
     content : Content, copies : 0..MaxCopies]
ConflictMutation ==
    [kind : {"ConflictOutput"}, task : Task, attempt : 1..MaxAttempt,
     node : Node, content : Content]
CommitMutation == [kind : {"CommitOutput"}, task : Task, content : Content]
FailureMutation ==
    [kind : {"SetFailure"}, task : Task, state : {"Failed", "RecoveryRequired"}]
CancelMutation == [kind : {"Cancel"}, task : Task]

Mutation ==
    SubmitMutation \cup AssignMutation \cup RunningMutation \cup StageMutation
      \cup ConflictMutation \cup CommitMutation \cup FailureMutation
      \cup CancelMutation

-----------------------------------------------------------------------------
(* prepare_mutation: whether a mutation is a legal transition of the records *)
(* (`...Ok`) and the record it results in.                                   *)

SubmitOk(recs, m) ==
    /\ Cardinality({t \in Task : Known(recs[t])}) < MaxTasks
    /\ ~Known(recs[m.task])

Submitted(m) ==
    EmptyRecord(IF m.acceptance.mode = "Fast" THEN "Submitted" ELSE "Persisted",
                m.acceptance)

AssignOk(rec, m) ==
    /\ Known(rec)
    /\ rec.state \notin Terminal \cup {"OutputStaged"}
    /\ \A a \in rec.attempts : a.attempt < m.attempt

\* Defect: the previous attempts stay active.
AssignedUnfenced(rec, m) ==
    [rec EXCEPT !.state = "Assigned",
                !.attempts = @ \cup
                    {[attempt |-> m.attempt, node |-> m.node, active |-> TRUE]}]

\* Defect: an attempt beyond the requested one is recorded.
AssignedNextNumber(rec, m) ==
    [rec EXCEPT !.state = "Assigned",
                !.attempts = Deactivated(@) \cup
                    {[attempt |-> m.attempt + 1, node |-> m.node, active |-> TRUE]}]

Assigned(rec, m) ==
    [rec EXCEPT !.state = "Assigned",
                !.attempts = Deactivated(@) \cup
                    {[attempt |-> m.attempt, node |-> m.node, active |-> TRUE]}]

RunningOk(rec, m) ==
    /\ rec.state = "Assigned"
    /\ \E a \in ActiveAttempt(rec) : a.attempt = m.attempt

\* Defect: the attempt that stages is not compared with the active one.
StageOkAnyAttempt(rec, m) ==
    /\ rec.state \in {"Assigned", "Running"}
    /\ \E a \in ActiveAttempt(rec) : a.node = m.node

StageOk(rec, m) ==
    /\ rec.state \in {"Assigned", "Running"}
    /\ \E a \in ActiveAttempt(rec) : a.attempt = m.attempt /\ a.node = m.node

Staged(rec, m) ==
    [rec EXCEPT !.state = "OutputStaged",
                !.staged = {[attempt |-> m.attempt, node |-> m.node,
                             content |-> m.content, copies |-> m.copies]}]

Conflicted(rec, m) ==
    [rec EXCEPT !.conflicts = @ \cup
        {[attempt |-> m.attempt, node |-> m.node, content |-> m.content]}]

CommitOk(rec, m) ==
    /\ rec.state = "OutputStaged"
    /\ \E s \in rec.staged : s.content = m.content

Committed(rec, m) ==
    [rec EXCEPT !.state = "Committed", !.committed = {m.content},
                !.attempts = Deactivated(@)]

\* Defect: a terminal task can be failed or cancelled.
StopOkAnyState(rec) == Known(rec)

StopOk(rec) == Known(rec) /\ rec.state \notin Terminal

Stopped(rec, s) ==
    [rec EXCEPT !.state = s, !.attempts = Deactivated(@)]

PrepareOk(recs, m) ==
    LET rec == recs[m.task] IN
    \/ m.kind = "Submit" /\ SubmitOk(recs, m)
    \/ m.kind = "Assign" /\ AssignOk(rec, m)
    \/ m.kind = "Running" /\ RunningOk(rec, m)
    \/ m.kind = "StageOutput" /\ StageOk(rec, m)
    \/ m.kind = "ConflictOutput" /\ Known(rec)
    \/ m.kind = "CommitOutput" /\ CommitOk(rec, m)
    \/ m.kind \in {"SetFailure", "Cancel"} /\ StopOk(rec)

Resulting(rec, m) ==
    CASE m.kind = "Submit"         -> Submitted(m)
      [] m.kind = "Assign"         -> Assigned(rec, m)
      [] m.kind = "Running"        -> [rec EXCEPT !.state = "Running"]
      [] m.kind = "StageOutput"    -> Staged(rec, m)
      [] m.kind = "ConflictOutput" -> Conflicted(rec, m)
      [] m.kind = "CommitOutput"   -> Committed(rec, m)
      [] m.kind = "SetFailure"     -> Stopped(rec, m.state)
      [] m.kind = "Cancel"         -> Stopped(rec, "Cancelled")

\* The records once a mutation that PrepareOk admits has been published.
Applied(recs, m) == [recs EXCEPT ![m.task] = Resulting(@, m)]

=============================================================================
