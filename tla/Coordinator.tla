---------------------------- MODULE Coordinator ----------------------------
(***************************************************************************)
(* Coordinator: places global tasks on workers or on the origin's own host,  *)
(* restarts them after a disconnect and fences the results of old attempts.  *)
(*                                                                           *)
(* submit and restart_after_disconnect read the records, await the workers   *)
(* without a lock and write the records afterwards, so calls interleave at   *)
(* every await.  A request that timed out may still be on its way: the       *)
(* worker runs the task later, and its reply finds nobody waiting.           *)
(*                                                                           *)
(* Abstractions.  Envelopes, inputs and handles are left out; an execution   *)
(* is a task, an attempt and a node, and what a host does with it is not     *)
(* modelled.  A call that is refused before its first await changes nothing  *)
(* and has no action.  ControllerProcess puts the actions together.          *)
(***************************************************************************)
EXTENDS Naturals, Sequences, FiniteSets

CONSTANTS
    Task, Caller,      \* global tasks, concurrent calls of the coordinator
    Workers, Origin,   \* the workers in the order of their ids, the origin node
    LocalOnly,         \* tasks that may not leave the origin
    Restartable,       \* tasks that can_restart_from_input
    MaxTasks, MaxFallback,     \* max_tasks, max_fallback_workers
    MaxAttempt,        \* bound: last attempt of a task
    MaxPending         \* bound: requests on their way at a time

WorkerId == {Workers[i] : i \in DOMAIN Workers}
Node == WorkerId \cup {Origin}

ASSUME CoordinatorConstants ==
    /\ Workers \in Seq(WorkerId) /\ Cardinality(WorkerId) = Len(Workers)
    /\ Origin \notin WorkerId
    /\ LocalOnly \subseteq Task /\ Restartable \subseteq Task \ LocalOnly
    /\ MaxTasks \in Nat \ {0}
    /\ IF Workers = <<>> THEN MaxFallback = 0 ELSE MaxFallback \in 0..(Len(Workers) - 1)
    /\ MaxAttempt \in Nat /\ MaxPending \in Nat

VARIABLES
    attempts,    \* the attempts of every task; none: the task is not registered
    call,        \* what every caller is doing
    eligible,    \* the workers that are candidates now
    requests,    \* submit requests that a worker has or will get
    ran,         \* executions that a host was given
    accepted     \* the attempt whose result accept_result last let through; 0: none

vars == <<attempts, call, eligible, requests, ran, accepted>>

Execution == [task : Task, attempt : 1..MaxAttempt, node : Node]

Exec(t, a, n) == [task |-> t, attempt |-> a, node |-> n]

Idle == [at |-> "idle"]
Busy == {c \in Caller : call[c] # Idle}

Registered == {t \in Task : attempts[t] # <<>>}

\* GlobalTaskRecord::active_attempt, as an Option.
ActiveAttempt(t) ==
    {attempts[t][i] : i \in {j \in DOMAIN attempts[t] :
        attempts[t][j].active /\ \A k \in (j + 1)..Len(attempts[t]) : ~attempts[t][k].active}}

\* The workers that are in S, in the order of their ids.
Filtered(S) ==
    LET of[n \in 0..Len(Workers)] ==
            IF n = 0 THEN <<>>
            ELSE IF Workers[n] \in S THEN Append(of[n - 1], Workers[n]) ELSE of[n - 1]
    IN  of[Len(Workers)]

\* The workers try_remote will ask, in order.
Candidates(excluded) ==
    LET found == Filtered(eligible \ excluded)
    IN  SubSeq(found, 1, IF Len(found) <= MaxFallback THEN Len(found) ELSE MaxFallback + 1)

-----------------------------------------------------------------------------
Init ==
    /\ attempts = [t \in Task |-> <<>>]
    /\ call = [c \in Caller |-> Idle]
    /\ eligible = WorkerId
    /\ requests = {}
    /\ ran = {}
    /\ accepted = [t \in Task |-> 0]

\* A call goes on with a worker of its queue, or locally when none is left.
Dispatch(c, op, t, a, queue) ==
    call' = [call EXCEPT ![c] =
        [at |-> IF queue = <<>> THEN "local" ELSE "send", op |-> op, task |-> t,
         attempt |-> a, queue |-> queue]]

HasRoom == Cardinality(Registered) < MaxTasks

submit(c, t) ==
    /\ call[c] = Idle
    /\ t \notin Registered
    /\ HasRoom
    /\ Dispatch(c, "submit", t, 1, IF t \in LocalOnly THEN <<>> ELSE Candidates({}))
    /\ UNCHANGED <<attempts, eligible, requests, ran, accepted>>

NextAttempt(t) == attempts[t][Len(attempts[t])].attempt + 1

restart_after_disconnect(c, t) ==
    /\ call[c] = Idle
    /\ t \in Registered \cap Restartable
    /\ NextAttempt(t) <= MaxAttempt
    /\ Dispatch(c, "restart", t, NextAttempt(t),
                Candidates({attempts[t][i].node : i \in DOMAIN attempts[t]}))
    /\ UNCHANGED <<attempts, eligible, requests, ran, accepted>>

\* cancel and outcome ask the node of the active attempt, and do not look again at
\* the records when it has answered.
ask(c, t) ==
    /\ call[c] = Idle
    /\ \E a \in ActiveAttempt(t) :
          call' = [call EXCEPT ![c] =
              [at |-> "ask", op |-> "ask", task |-> t, attempt |-> a.attempt, queue |-> <<a.node>>]]
    /\ UNCHANGED <<attempts, eligible, requests, ran, accepted>>

Answered(c) ==
    /\ call[c].at = "ask"
    /\ call' = [call EXCEPT ![c] = Idle]
    /\ UNCHANGED <<attempts, eligible, requests, ran, accepted>>

-----------------------------------------------------------------------------
(* try_remote.                                                               *)

Request(c) == [caller |-> c, exec |-> Exec(call[c].task, call[c].attempt, Head(call[c].queue))]

Send(c) ==
    /\ call[c].at = "send"
    /\ call' = [call EXCEPT ![c].at = "await"]
    /\ \/ /\ Cardinality(requests) < MaxPending
          /\ requests' = requests \cup {Request(c)}
       \/ UNCHANGED requests             \* the connection fails before the request is out
    /\ UNCHANGED <<attempts, eligible, ran, accepted>>

\* Defect: the worker that failed is asked again.
GoesOnSame(c) == Dispatch(c, call[c].op, call[c].task, call[c].attempt, call[c].queue)

\* WorkerRejected, WorkerUnavailable and TransportClosed: the next worker is asked.
GoesOn(c) == Dispatch(c, call[c].op, call[c].task, call[c].attempt, Tail(call[c].queue))

\* Any other error ends the call; nothing is recorded.
ReturnsError(c) == call' = [call EXCEPT ![c] = Idle]

\* The transport is closed or the request times out, whether or not the worker
\* has it.
TransportFails(c) ==
    /\ call[c].at = "await"
    /\ GoesOn(c)
    /\ UNCHANGED <<attempts, eligible, requests, ran, accepted>>

Placed(c, n) == call' = [call EXCEPT ![c] = [@ EXCEPT !.at = "place", !.queue = <<n>>]]

\* The reply of a worker to a caller that may have given up.
Waiting(r) == call[r.caller].at = "await" /\ Request(r.caller) = r

\* WorkerEndpoint::submit hands the task to the worker's host.
WorkerRuns(r) ==
    /\ r \in requests
    /\ requests' = requests \ {r}
    /\ ran' = ran \cup {r.exec}
    /\ IF Waiting(r) THEN Placed(r.caller, r.exec.node) ELSE UNCHANGED call
    /\ UNCHANGED <<attempts, eligible, accepted>>

\* The worker refuses admission, or fails to localize or to submit.
WorkerRefuses(r) ==
    /\ r \in requests
    /\ requests' = requests \ {r}
    /\ IF Waiting(r) THEN GoesOn(r.caller) \/ ReturnsError(r.caller) ELSE UNCHANGED call
    /\ UNCHANGED <<attempts, eligible, ran, accepted>>

-----------------------------------------------------------------------------
\* submit_local.
SubmitLocal(c) ==
    /\ call[c].at = "local"
    /\ \/ /\ ran' = ran \cup {Exec(call[c].task, call[c].attempt, Origin)}
          /\ Placed(c, Origin)
       \/ ReturnsError(c) /\ UNCHANGED ran
    /\ UNCHANGED <<attempts, eligible, requests, accepted>>

NewAttempt(c) ==
    [attempt |-> call[c].attempt, node |-> Head(call[c].queue), active |-> TRUE]

Deactivated(s) == [i \in DOMAIN s |-> [s[i] EXCEPT !.active = FALSE]]

\* Defect: a restart keeps the attempts before it active.
RecordedUnfenced(c) == Append(attempts[call[c].task], NewAttempt(c))

\* submit writes a new record, a restart replaces the active attempt.
Recorded(c) ==
    IF call[c].op = "submit" THEN <<NewAttempt(c)>>
    ELSE Append(Deactivated(attempts[call[c].task]), NewAttempt(c))

\* The call returns its placement.
Record(c) ==
    /\ call[c].at = "place"
    /\ attempts' = [attempts EXCEPT ![call[c].task] = Recorded(c)]
    /\ call' = [call EXCEPT ![c] = Idle]
    /\ UNCHANGED <<eligible, requests, ran, accepted>>

-----------------------------------------------------------------------------
\* Defect: a result of an older attempt passes.
CurrentOrOlder(r) == \E a \in ActiveAttempt(r.task) : a.attempt >= r.attempt

CurrentResult(r) ==
    \E a \in ActiveAttempt(r.task) : a.attempt = r.attempt /\ a.node = r.node

\* A result of any execution arrives at any time; a stale one is refused.
accept_result(r) ==
    /\ r \in ran
    /\ CurrentResult(r)
    /\ accepted' = [accepted EXCEPT ![r.task] = r.attempt]
    /\ UNCHANGED <<attempts, call, eligible, requests, ran>>

-----------------------------------------------------------------------------
(* Properties.                                                               *)

\* The active attempt of a registered task is the newest one, there is exactly
\* one, and the host of its node was given it, whatever requests were lost, timed
\* out or were refused before.
ActiveIsNewestAndRan ==
    \A t \in Registered :
        \E a \in ActiveAttempt(t) :
            /\ Exec(t, a.attempt, a.node) \in ran
            /\ \A i \in DOMAIN attempts[t] :
                  /\ attempts[t][i].attempt <= a.attempt
                  /\ attempts[t][i].active => attempts[t][i] = a

\* Once a result of an attempt was accepted, no result of an older one is.
AcceptedInOrder == [][\A t \in Task : accepted'[t] >= accepted[t]]_vars

\* docs/phase3-architecture.md: Portable and Unsafe work is not retried
\* automatically when its state is uncertain.
UnsafeRunsOnce ==
    \A t \in Task \ Restartable : Cardinality({r \in ran : r.task = t}) <= 1

=============================================================================
