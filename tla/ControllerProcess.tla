------------------------- MODULE ControllerProcess -------------------------
(***************************************************************************)
(* The controller: the coordinator, the registry of its workers that pulses  *)
(* keep up to date, one transport per worker, the background task that       *)
(* pulses, and the management server that takes commands one at a time and   *)
(* shuts everything down.                                                    *)
(*                                                                           *)
(* worker_gate is held by a round of pulses and by a submit of the           *)
(* management server, not by cancel, outcome or a restart, which a program   *)
(* calls on the coordinator directly.  A transport carries one request at a  *)
(* time.                                                                     *)
(*                                                                           *)
(* Abstractions.  A pulse leaves its worker eligible or not: Busy,           *)
(* Unreachable and Incompatible are one.  Authentication succeeds or fails   *)
(* as a whole, as a part of the request or connection it belongs to.  One    *)
(* pulse, and one request to stop, is one step.                              *)
(***************************************************************************)
EXTENDS Coordinator

VARIABLES
    server,     \* serve_management
    pulser,     \* its background task: "on" or "done"
    round,      \* the requests to every worker that are going on: by whom, workers left
    carried,    \* requests on connections that are still in use
    stopped     \* workers that have done StopWorker

pvars == <<server, pulser, round, stopped>>
allvars == <<vars, pvars, carried>>

NoRound == [by |-> "none", left |-> <<>>]

\* ControllerProcess::connect has described and registered every worker.
ProcessInit ==
    /\ Init
    /\ server = "accepting"
    /\ pulser = "on"
    /\ round = NoRound
    /\ carried = {}
    /\ stopped = {}

\* A submit of the management server is going on.
Submitting == \E c \in Busy : call[c].op = "submit"

\* Defect: a submit does not hold the gate.
GateFreeOfPulses == round = NoRound

\* worker_gate.
GateFree == round = NoRound /\ ~Submitting

\* The lock of w's connection is taken by a call.
Locked(w) == \E c \in Busy : call[c].at \in {"await", "ask"} /\ Head(call[c].queue) = w

-----------------------------------------------------------------------------
(* LinkWorkerTransport::request, for a call of the coordinator.              *)

\* Defect: a request that failed leaves its connection for the next one.
DroppedNever(w) == carried

\* InFlightConnection: a connection is kept only after a whole exchange.
Dropped(w) == {r \in carried : r.exec.node # w}

CallSends(c) ==
    /\ Send(c)
    /\ ~Locked(Head(call[c].queue))
    /\ carried' = carried \cup (requests' \ requests)

CallFails(c) ==
    /\ TransportFails(c)
    /\ carried' = Dropped(Head(call[c].queue))

CallAnswered(c) ==
    /\ Answered(c)
    /\ carried' \in {carried, Dropped(Head(call[c].queue))}

CallGoesOn(c) ==
    /\ SubmitLocal(c) \/ Record(c)
    /\ UNCHANGED carried

CallStep(c) == CallSends(c) \/ CallFails(c) \/ CallAnswered(c) \/ CallGoesOn(c)

\* The future of a restart is dropped while it waits.
DropCall(c) ==
    /\ call[c].at = "await" /\ call[c].op = "restart"
    /\ ReturnsError(c)
    /\ carried' = Dropped(Head(call[c].queue))
    /\ UNCHANGED <<attempts, eligible, requests, ran, accepted>>

\* WorkerProcess::serve_connection dispatches to WorkerEndpoint::submit and replies.
WorkerServes(r) ==
    /\ r.exec.node \notin stopped
    /\ WorkerRuns(r) \/ WorkerRefuses(r)
    /\ carried' = carried \ {r}
    /\ UNCHANGED pvars

-----------------------------------------------------------------------------
(* pulse_once, for the background task and for the command Health.           *)

RoundBegins(by) == round' = [by |-> by, left |-> Workers]

NextOfRound == IF Tail(round.left) = <<>> THEN NoRound ELSE [round EXCEPT !.left = Tail(@)]

\* WorkerRegistry::pulse: a worker that answers is Ready or not; one that fails is
\* Unreachable, and its connection is dropped.
PulseOne ==
    /\ round.by \in {"task", "health"}
    /\ LET w == Head(round.left)
       IN  /\ ~Locked(w)
           /\ \/ w \notin stopped /\ eligible' = eligible \cup {w} /\ UNCHANGED carried
              \/ w \notin stopped /\ eligible' = eligible \ {w} /\ UNCHANGED carried
              \/ eligible' = eligible \ {w} /\ carried' = Dropped(w)
    /\ round' = NextOfRound
    /\ UNCHANGED <<attempts, call, requests, ran, accepted, server, pulser, stopped>>

\* Defect: the task does not look at the requests to stop.
PulseStopsNever == FALSE

\* stopping is set, or TaskStop was requested.
PulseStops == server \in {"closing", "joining", "stopping", "ended", "failed"}

\* The loop of the background task, after its sleep.
PulseTask ==
    /\ pulser = "on" /\ round.by # "task"
    /\ IF PulseStops THEN pulser' = "done" /\ UNCHANGED round
       ELSE GateFree /\ RoundBegins("task") /\ UNCHANGED pulser
    /\ UNCHANGED <<vars, carried, server, stopped>>

-----------------------------------------------------------------------------
(* serve_management and serve_management_connection.                         *)

ServerGoes(s) == server' = s /\ UNCHANGED <<vars, carried, pulser, round, stopped>>

accept == server = "accepting" /\ ServerGoes("serving")

\* The client closes its connection; silence for a day, or bytes that do not decode, end
\* serve_management.
Disconnect == server = "serving" /\ (ServerGoes("accepting") \/ ServerGoes("failed"))

Submit(c, t) ==
    /\ server = "serving" /\ GateFree
    /\ submit(c, t)
    /\ server' = "busy"
    /\ UNCHANGED <<carried, pulser, round, stopped>>

\* Cancel and Outcome do not wait for the gate, only for the transport.
CancelOrOutcome(c, t) ==
    /\ server = "serving"
    /\ ask(c, t)
    /\ \A a \in ActiveAttempt(t) : ~Locked(a.node)
    /\ server' = "busy"
    /\ UNCHANGED <<carried, pulser, round, stopped>>

Health ==
    /\ server = "serving" /\ GateFree
    /\ RoundBegins("health")
    /\ server' = "busy"
    /\ UNCHANGED <<vars, carried, pulser, stopped>>

Shutdown == server = "serving" /\ ServerGoes("closing")

CommandDone == round.by # "health" /\ \A c \in Busy : call[c].op = "restart"

\* A reply that cannot be sent ends serve_management.
Reply ==
    \/ server = "busy" /\ CommandDone /\ (ServerGoes("serving") \/ ServerGoes("failed"))
    \/ server = "closing" /\ (ServerGoes("joining") \/ ServerGoes("failed"))

\* Defect: the workers are stopped while the background task still runs.
JoinedAlready == TRUE

\* ScopedBackgroundTask::shutdown.
Joined == pulser = "done"

ShutdownWorkers ==
    /\ server = "joining" /\ Joined
    /\ RoundBegins("stop")
    /\ server' = "stopping"
    /\ UNCHANGED <<vars, carried, pulser, stopped>>

\* LinkWorkerTransport::stop: the worker drains, replies and ends; requests that it has
\* not taken by then are lost.  A call that fails may have stopped it all the same.
StopOne ==
    /\ round.by = "stop"
    /\ LET w == Head(round.left)
       IN  /\ ~Locked(w)
           /\ \/ /\ stopped' = stopped \cup {w}
                 /\ requests' = {r \in requests : r.exec.node # w}
              \/ UNCHANGED <<stopped, requests>>
           /\ carried' = Dropped(w)
    /\ round' = NextOfRound
    /\ server' = IF round' = NoRound THEN "ended" ELSE server
    /\ UNCHANGED <<attempts, call, eligible, ran, accepted, pulser>>

-----------------------------------------------------------------------------
ServerStep == Reply \/ ShutdownWorkers

\* The program ends when serve_management returns.
Running == server \notin {"ended", "failed"}

ProcessNext ==
    \/ accept \/ Disconnect \/ Health \/ Shutdown \/ ServerStep
    \/ PulseTask \/ PulseOne \/ StopOne
    \/ \E c \in Caller, t \in Task :
          \/ Submit(c, t) \/ CancelOrOutcome(c, t)
          \/ Running /\ restart_after_disconnect(c, t) /\ UNCHANGED <<pvars, carried>>
    \/ \E c \in Busy : Running /\ (CallStep(c) \/ DropCall(c)) /\ UNCHANGED pvars
    \/ \E r \in requests : Running /\ WorkerServes(r)
    \/ \E r \in ran : Running /\ accept_result(r) /\ UNCHANGED <<pvars, carried>>

\* Every request has a deadline and the origin's host answers; tasks of the runtime run;
\* the lock of a connection is given out in the order it is asked for.
Fairness ==
    /\ \A c \in Caller : WF_allvars(c \in Busy /\ Running /\ CallStep(c) /\ UNCHANGED pvars)
    /\ WF_allvars(ServerStep)
    /\ WF_allvars(PulseTask)
    /\ SF_allvars(PulseOne)
    /\ SF_allvars(StopOne)

ProcessSpec == ProcessInit /\ [][ProcessNext]_allvars /\ Fairness

-----------------------------------------------------------------------------
(* Properties.                                                               *)

\* pulse_once: "Keep pulse transport, registry updates, and placement decisions ordered."
\* While a submit goes through its candidates, each one it has still to ask is a worker
\* that the newest pulse found ready.
FreshCandidates ==
    \A c \in Busy : call[c].op = "submit" /\ call[c].at \in {"send", "await"} =>
        \A i \in DOMAIN call[c].queue : call[c].queue[i] \in eligible

\* InFlightConnection: "Only a complete request/reply exchange leaves the connection
\* reusable."  A connection that the next request will use has no reply on it, now or
\* later, that belongs to somebody who has gone.
ConnectionsClean == \A r \in carried : Waiting(r)

\* docs/acceptance/issue-20.md: a shutdown drains first and then stops the workers.  Once
\* a worker has been stopped, the controller neither pulses one nor works on a command.
QuietBeforeStop ==
    stopped # {} => /\ pulser = "done" /\ round.by \in {"none", "stop"}
                    /\ \A c \in Busy : call[c].op = "restart"

\* Every call returns while the program runs: the queue of workers is finite and each
\* request ends.
CallsReturn == \A c \in Caller : c \in Busy ~> c \notin Busy \/ ~Running

\* A shutdown ends: every worker is asked, whatever the pulses were doing, unless the
\* reply to the command cannot be sent.
ShutdownEnds == server = "closing" ~> server \in {"ended", "failed"}

=============================================================================
