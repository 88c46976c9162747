-------------------------- MODULE ControllerProofs --------------------------
(***************************************************************************)
(* What the controller guarantees for any number of callers, workers, tasks  *)
(* and attempts, however requests, timeouts, pulses and a shutdown           *)
(* interleave.                                                               *)
(***************************************************************************)
EXTENDS ControllerProcess, Sums, SequenceTheorems

-----------------------------------------------------------------------------
(* The candidates of a call.                                                 *)

\* One unfolding of the recursion of Filtered, by means of g.
FilterStep(S, g, n) ==
    IF n = 0 THEN <<>>
    ELSE IF Workers[n] \in S THEN Append(g[n - 1], Workers[n]) ELSE g[n - 1]

\* There is a function that satisfies the recursion up to n.
LEMMA FilterExists ==
    ASSUME NEW S, NEW m \in Nat
    PROVE  \E g : g = [k \in 0..m |-> FilterStep(S, g, k)]
  <1> DEFINE N == {n \in Nat : \E g : g = [k \in 0..n |-> FilterStep(S, g, k)]}
  <1>1. 0 \in N
    <2> DEFINE g == [k \in 0..0 |-> <<>>]
    <2>1. g = [k \in 0..0 |-> FilterStep(S, g, k)]
      BY DEF FilterStep
    <2> QED
      BY <2>1
  <1>2. ASSUME NEW n \in N PROVE n + 1 \in N
    <2>1. PICK g : g = [k \in 0..n |-> FilterStep(S, g, k)]
      OBVIOUS
    <2> DEFINE h == [k \in 0..(n + 1) |-> IF k \in 0..n THEN g[k] ELSE FilterStep(S, g, k)]
    <2>2. ASSUME NEW k \in 0..(n + 1) PROVE h[k] = FilterStep(S, h, k)
      <3>1. h[k] = FilterStep(S, g, k)
        BY <2>1
      <3>2. k # 0 => h[k - 1] = g[k - 1]
        OBVIOUS
      <3> HIDE DEF h
      <3> QED
        BY <3>1, <3>2 DEF FilterStep
    <2>3. h = [k \in 0..(n + 1) |-> FilterStep(S, h, k)]
      BY <2>2
    <2> HIDE DEF h
    <2> QED
      BY <2>3
  <1>3. N = Nat
    <2> HIDE DEF N
    <2>1. N \in SUBSET Nat
      BY DEF N
    <2> QED
      BY <1>1, <1>2, <2>1, InductiveSet
  <1> QED
    BY <1>3

\* Filtered has workers of S only.
LEMMA FilteredType ==
    ASSUME NEW S
    PROVE  Filtered(S) \in Seq(WorkerId \cap S)
  <1> DEFINE F == CHOOSE g : g = [k \in 0..Len(Workers) |-> FilterStep(S, g, k)]
             N == {n \in Nat : n <= Len(Workers) => F[n] \in Seq(WorkerId \cap S)}
  <1>0. Len(Workers) \in Nat /\ \A n \in 1..Len(Workers) : Workers[n] \in WorkerId
    BY CoordinatorConstants
  <1>1. Filtered(S) = F[Len(Workers)]
    BY DEF Filtered, FilterStep
  <1>2. F = [k \in 0..Len(Workers) |-> FilterStep(S, F, k)]
    BY <1>0, FilterExists
  <1> HIDE DEF F
  <1>3. 0 \in N
    BY <1>0, <1>2 DEF FilterStep
  <1>4. ASSUME NEW n \in N PROVE n + 1 \in N
    <2>1. CASE n + 1 <= Len(Workers)
      <3>1. F[n] \in Seq(WorkerId \cap S)
        BY <1>0, <2>1
      <3>2. F[n + 1] = FilterStep(S, F, n + 1)
        BY <1>0, <1>2, <2>1
      <3>3. F[n + 1] = IF Workers[n + 1] \in S THEN Append(F[n], Workers[n + 1]) ELSE F[n]
        BY <3>2 DEF FilterStep
      <3>4. Workers[n + 1] \in WorkerId
        BY <1>0, <2>1
      <3>5. F[n + 1] \in Seq(WorkerId \cap S)
        BY <3>1, <3>3, <3>4
      <3> QED
        BY <3>5
    <2>2. CASE ~(n + 1 <= Len(Workers))
      BY <2>2
    <2> QED
      BY <2>1, <2>2
  <1>5. N = Nat
    <2> HIDE DEF N
    <2>1. N \in SUBSET Nat
      BY DEF N
    <2> QED
      BY <1>3, <1>4, <2>1, InductiveSet
  <1> QED
    BY <1>0, <1>1, <1>5

\* A call asks eligible workers only.
LEMMA CandidatesType ==
    ASSUME NEW X
    PROVE  Candidates(X) \in Seq(WorkerId \cap eligible)
  <1> DEFINE found == Filtered(eligible \ X)
             k == IF Len(found) <= MaxFallback THEN Len(found) ELSE MaxFallback + 1
  <1>1. found \in Seq(WorkerId \cap (eligible \ X))
    BY FilteredType
  <1>2. found \in Seq(WorkerId \cap eligible)
    BY <1>1
  <1>3. MaxFallback \in Nat
    BY CoordinatorConstants
  <1>4. k \in 0..Len(found) /\ Len(found) \in Nat
    BY <1>2, <1>3
  <1>5. Candidates(X) = SubSeq(found, 1, k)
    BY DEF Candidates
  <1> HIDE DEF found, k
  <1>6. SubSeq(found, 1, k) \in Seq(WorkerId \cap eligible)
    BY <1>2, <1>4
  <1> QED
    BY <1>5, <1>6

-----------------------------------------------------------------------------
(* Types.  A call that has a worker to ask, or that was placed, has it in    *)
(* its queue.                                                                *)

CallRec ==
    {k \in [at : {"send", "await", "local", "place", "ask"}, op : {"submit", "restart", "ask"},
            task : Task, attempt : Nat, queue : Seq(Node)] : k.at # "local" => k.queue # <<>>}

ExecRec == [task : Task, attempt : Nat, node : Node]
RequestRec == [caller : Caller, exec : ExecRec]
AttemptRec == [attempt : Nat, node : Node, active : BOOLEAN]

CallsOK == call \in [Caller -> CallRec \cup {Idle}]
AttemptsOK == attempts \in [Task -> Seq(AttemptRec)]
RequestsOK == requests \subseteq RequestRec /\ carried \subseteq RequestRec
RanOK == ran \subseteq ExecRec
AcceptedOK == accepted \in [Task -> Nat]

TypeOK == CallsOK /\ AttemptsOK /\ RequestsOK /\ RanOK /\ AcceptedOK

\* What a busy caller has.
LEMMA BusyCall ==
    ASSUME CallsOK, NEW c \in Caller, call[c] # Idle
    PROVE  /\ call[c] \in CallRec
           /\ call[c].at \in {"send", "await", "local", "place", "ask"}
           /\ call[c].op \in {"submit", "restart", "ask"}
           /\ call[c].task \in Task /\ call[c].attempt \in Nat /\ call[c].queue \in Seq(Node)
           /\ call[c].at # "local" => call[c].queue # <<>> /\ Head(call[c].queue) \in Node
                                      /\ Tail(call[c].queue) \in Seq(Node)
  <1>1. call[c] \in CallRec
    BY DEF CallsOK
  <1>2. /\ call[c].queue \in Seq(Node)
        /\ call[c].at # "local" => call[c].queue # <<>>
    BY <1>1 DEF CallRec
  <1>3. call[c].queue # <<>> => Head(call[c].queue) \in Node /\ Tail(call[c].queue) \in Seq(Node)
    BY <1>2
  <1> QED
    BY <1>1, <1>2, <1>3 DEF CallRec

\* A caller at one of the five places is busy.
LEMMA AtIsBusy ==
    ASSUME NEW c \in Caller, call[c].at # "idle"
    PROVE  c \in Busy /\ call[c] # Idle
  BY DEF Busy, Idle

\* Changing one call keeps the others and the types.
LEMMA OneCall ==
    ASSUME CallsOK, NEW c \in Caller, NEW k \in CallRec \cup {Idle}, call' = [call EXCEPT ![c] = k]
    PROVE  /\ CallsOK' /\ call'[c] = k
           /\ \A d \in Caller \ {c} : call'[d] = call[d]
  BY DEF CallsOK

\* The record that Dispatch writes.
DispatchRec(op, t, a, queue) ==
    [at |-> IF queue = <<>> THEN "local" ELSE "send", op |-> op, task |-> t,
     attempt |-> a, queue |-> queue]

-----------------------------------------------------------------------------
(* What every kind of step does to the call of one caller.  A call begins,   *)
(* goes on with the same operation, task and attempt, or ends.               *)

Same(k, old) == k.op = old.op /\ k.task = old.task /\ k.attempt = old.attempt

\* GoesOn asks the rest of the queue.
LEMMA GoesOnEffect ==
    ASSUME CallsOK, NEW c \in Caller, call[c].at = "await", GoesOn(c)
    PROVE  \E k \in CallRec : /\ call' = [call EXCEPT ![c] = k] /\ Same(k, call[c])
                              /\ k.at \in {"local", "send"} /\ k.queue = Tail(call[c].queue)
  <1> DEFINE k == DispatchRec(call[c].op, call[c].task, call[c].attempt, Tail(call[c].queue))
  <1>1. call[c] # Idle /\ call[c].at # "local"
    BY DEF Idle
  <1>2. /\ call[c].op \in {"submit", "restart", "ask"} /\ call[c].task \in Task /\ call[c].attempt \in Nat
        /\ Tail(call[c].queue) \in Seq(Node)
    BY <1>1, BusyCall
  <1>3. call' = [call EXCEPT ![c] = k]
    BY DEF GoesOn, Dispatch, DispatchRec
  <1> HIDE DEF k
  <1>4. /\ k \in CallRec /\ k.at \in {"local", "send"} /\ k.op = call[c].op
        /\ k.task = call[c].task /\ k.attempt = call[c].attempt /\ k.queue = Tail(call[c].queue)
    BY <1>2 DEF k, DispatchRec, CallRec
  <1> QED
    BY <1>3, <1>4 DEF Same

\* Placed leaves the node that has the task in the queue.
LEMMA PlacedEffect ==
    ASSUME CallsOK, NEW c \in Caller, NEW n \in Node, call[c] # Idle, Placed(c, n)
    PROVE  \E k \in CallRec : /\ call' = [call EXCEPT ![c] = k] /\ Same(k, call[c])
                              /\ k.at = "place" /\ k.queue = <<n>> /\ Head(k.queue) = n
  <1> DEFINE k == [call[c] EXCEPT !.at = "place", !.queue = <<n>>]
  <1>1. call[c] \in CallRec
    BY BusyCall
  <1>2. k.at = "place" /\ k.queue = <<n>> /\ Same(k, call[c]) /\ <<n>> \in Seq(Node) /\ <<n>> # <<>>
        /\ Head(<<n>>) = n
    BY <1>1 DEF CallRec, Same
  <1>3. k \in CallRec
    BY <1>1, <1>2 DEF CallRec
  <1>4. call' = [call EXCEPT ![c] = k]
    BY <1>1 DEF Placed, CallsOK
  <1> HIDE DEF k
  <1> QED
    BY <1>2, <1>3, <1>4

\* A call begins: submit, restart_after_disconnect or ask.
Begins(c, k) == call[c] = Idle /\ call' = [call EXCEPT ![c] = k]

\* submit asks workers that are eligible.
LEMMA SubmitEffect ==
    ASSUME CallsOK, NEW c \in Caller, NEW t \in Task, submit(c, t)
    PROVE  \E k \in CallRec : /\ Begins(c, k) /\ k.op = "submit" /\ k.task = t /\ k.attempt = 1
                              /\ k.at \in {"local", "send"} /\ k.queue \in Seq(eligible)
  <1> DEFINE queue == IF t \in LocalOnly THEN <<>> ELSE Candidates({})
             k == DispatchRec("submit", t, 1, queue)
  <1>1. Candidates({}) \in Seq(WorkerId \cap eligible)
    BY CandidatesType
  <1>2. queue \in Seq(Node) /\ queue \in Seq(eligible)
    BY <1>1 DEF Node
  <1>3. Begins(c, k)
    BY DEF submit, Dispatch, DispatchRec, Begins
  <1> HIDE DEF queue
  <1>4. /\ k \in CallRec /\ k.at \in {"local", "send"} /\ k.op = "submit" /\ k.task = t /\ k.attempt = 1
        /\ k.queue = queue
    BY <1>2 DEF DispatchRec, CallRec
  <1> HIDE DEF k
  <1> QED
    BY <1>2, <1>3, <1>4

\* The next attempt of a registered task is a number.
LEMMA NextAttemptType ==
    ASSUME AttemptsOK, NEW t \in Registered
    PROVE  NextAttempt(t) \in Nat /\ attempts[t] \in Seq(AttemptRec) /\ Len(attempts[t]) \in Nat \ {0}
           /\ attempts[t][Len(attempts[t])] \in AttemptRec
  <1>1. attempts[t] \in Seq(AttemptRec) /\ attempts[t] # <<>>
    BY DEF AttemptsOK, Registered
  <1>2. Len(attempts[t]) \in Nat \ {0} /\ attempts[t][Len(attempts[t])] \in AttemptRec
    BY <1>1
  <1>3. attempts[t][Len(attempts[t])].attempt \in Nat
    BY <1>2 DEF AttemptRec
  <1> QED
    BY <1>1, <1>2, <1>3 DEF NextAttempt

\* A restart is for the next attempt of a registered task.
LEMMA RestartEffect ==
    ASSUME CallsOK, AttemptsOK, NEW c \in Caller, NEW t \in Task, restart_after_disconnect(c, t)
    PROVE  /\ t \in Registered
           /\ \E k \in CallRec : /\ Begins(c, k) /\ k.op = "restart" /\ k.task = t
                                 /\ k.attempt = NextAttempt(t) /\ k.at \in {"local", "send"}
  <1> DEFINE queue == Candidates({attempts[t][i].node : i \in DOMAIN attempts[t]})
             k == DispatchRec("restart", t, NextAttempt(t), queue)
  <1>0. t \in Registered
    BY DEF restart_after_disconnect
  <1>1. queue \in Seq(WorkerId \cap eligible)
    BY CandidatesType
  <1>2. queue \in Seq(Node)
    BY <1>1 DEF Node
  <1>3. Begins(c, k)
    BY DEF restart_after_disconnect, Dispatch, DispatchRec, Begins
  <1>4. NextAttempt(t) \in Nat
    BY <1>0, NextAttemptType
  <1> HIDE DEF queue
  <1>5. /\ k \in CallRec /\ k.at \in {"local", "send"} /\ k.op = "restart" /\ k.task = t
        /\ k.attempt = NextAttempt(t)
    BY <1>2, <1>4 DEF DispatchRec, CallRec
  <1> HIDE DEF k
  <1> QED
    BY <1>0, <1>3, <1>5

\* cancel and outcome ask the node of an attempt.
LEMMA AskEffect ==
    ASSUME CallsOK, AttemptsOK, NEW c \in Caller, NEW t \in Task, ask(c, t)
    PROVE  \E k \in CallRec : Begins(c, k) /\ k.op = "ask" /\ k.at = "ask"
  <1>1. PICK a \in ActiveAttempt(t) :
            call' = [call EXCEPT ![c] =
              [at |-> "ask", op |-> "ask", task |-> t, attempt |-> a.attempt, queue |-> <<a.node>>]]
    BY DEF ask
  <1>2. attempts[t] \in Seq(AttemptRec)
    BY DEF AttemptsOK
  <1>3. a \in AttemptRec
    BY <1>2 DEF ActiveAttempt
  <1>4. a.attempt \in Nat /\ a.node \in Node
    BY <1>3 DEF AttemptRec
  <1> DEFINE k == [at |-> "ask", op |-> "ask", task |-> t, attempt |-> a.attempt, queue |-> <<a.node>>]
  <1>7. <<a.node>> \in Seq(Node) /\ <<a.node>> # <<>>
    BY <1>4
  <1>5. k \in CallRec /\ k.op = "ask" /\ k.at = "ask"
    BY <1>4, <1>7 DEF CallRec
  <1>6. Begins(c, k)
    BY <1>1 DEF ask, Begins
  <1> HIDE DEF k
  <1> QED
    BY <1>5, <1>6

\* A request goes out.
LEMMA SendEffect ==
    ASSUME CallsOK, NEW c \in Caller, Send(c)
    PROVE  /\ \E k \in CallRec : /\ call' = [call EXCEPT ![c] = k] /\ Same(k, call[c])
                                 /\ k.at = "await" /\ k.queue = call[c].queue
           /\ call[c].at = "send" /\ Request(c) \in RequestRec
           /\ requests' \subseteq requests \cup {Request(c)}
  <1> DEFINE k == [call[c] EXCEPT !.at = "await"]
  <1>0. call[c].at = "send" /\ call[c] # Idle
    BY DEF Send, Idle
  <1>1. call[c] \in CallRec
    BY <1>0, BusyCall
  <1>2. k.at = "await" /\ Same(k, call[c]) /\ k.queue = call[c].queue
    BY <1>1 DEF CallRec, Same
  <1>3. k \in CallRec
    BY <1>0, <1>1 DEF CallRec
  <1>4. call' = [call EXCEPT ![c] = k]
    BY <1>1 DEF Send, CallsOK
  <1>5. call[c].task \in Task /\ call[c].attempt \in Nat /\ Head(call[c].queue) \in Node
    BY <1>0, BusyCall
  <1>6. Request(c) \in RequestRec
    BY <1>5 DEF Request, Exec, RequestRec, ExecRec
  <1>7. requests' \subseteq requests \cup {Request(c)}
    BY DEF Send
  <1> HIDE DEF k
  <1> QED
    BY <1>0, <1>2, <1>3, <1>4, <1>6, <1>7

\* A call goes on as it may: with the rest of its queue while it asks workers, with no
\* further worker, or not at all.
GoesOnAs(c, k) ==
    \/ k = Idle
    \/ /\ k \in CallRec /\ Same(k, call[c])
       /\ k.at \in {"send", "await"} =>
             /\ call[c].at \in {"send", "await"}
             /\ k.queue \in {call[c].queue, Tail(call[c].queue)}

\* A worker takes a request: the call that waits for it, and no other, goes on.
LEMMA ServesEffect ==
    ASSUME CallsOK, RequestsOK, RanOK, NEW r \in requests, WorkerRuns(r) \/ WorkerRefuses(r)
    PROVE  /\ requests' = requests \ {r} /\ ran' \subseteq ran \cup {r.exec} /\ ran \subseteq ran'
           /\ UNCHANGED <<attempts, eligible, accepted>>
           /\ \/ ~Waiting(r) /\ UNCHANGED call
              \/ /\ Waiting(r)
                 /\ \E k \in CallRec \cup {Idle} :
                       /\ call' = [call EXCEPT ![r.caller] = k] /\ GoesOnAs(r.caller, k)
                       /\ k.at = "place" => k.queue = <<r.exec.node>> /\ ran' = ran \cup {r.exec}
  <1> DEFINE c == r.caller
  <1>0. r \in RequestRec /\ c \in Caller /\ r.exec \in ExecRec /\ r.exec.node \in Node
    BY DEF RequestsOK, RequestRec, ExecRec
  <1>1. /\ requests' = requests \ {r} /\ ran' \subseteq ran \cup {r.exec} /\ ran \subseteq ran'
        /\ UNCHANGED <<attempts, eligible, accepted>>
    BY DEF WorkerRuns, WorkerRefuses
  <1>2. CASE ~Waiting(r)
    <2>1. UNCHANGED call
      BY <1>2 DEF WorkerRuns, WorkerRefuses
    <2> QED
      BY <1>1, <1>2, <2>1
  <1>3. CASE Waiting(r)
    <2>1. call[c].at = "await" /\ call[c] # Idle
      BY <1>3 DEF Waiting, Idle
    <2>2. \E k \in CallRec \cup {Idle} :
             /\ call' = [call EXCEPT ![c] = k] /\ GoesOnAs(c, k)
             /\ k.at = "place" => k.queue = <<r.exec.node>> /\ ran' = ran \cup {r.exec}
      <3>1. CASE WorkerRuns(r)
        <4>1. Placed(c, r.exec.node) /\ ran' = ran \cup {r.exec}
          BY <1>3, <3>1 DEF WorkerRuns
        <4>2. PICK k \in CallRec : /\ call' = [call EXCEPT ![c] = k] /\ Same(k, call[c])
                                   /\ k.at = "place" /\ k.queue = <<r.exec.node>> /\ Head(k.queue) = r.exec.node
          BY <1>0, <2>1, <4>1, PlacedEffect
        <4> QED
          BY <4>1, <4>2 DEF GoesOnAs
      <3>2. CASE WorkerRefuses(r) /\ GoesOn(c)
        <4>1. PICK k \in CallRec : /\ call' = [call EXCEPT ![c] = k] /\ Same(k, call[c])
                                   /\ k.at \in {"local", "send"} /\ k.queue = Tail(call[c].queue)
          BY <1>0, <2>1, <3>2, GoesOnEffect
        <4> QED
          BY <2>1, <4>1 DEF GoesOnAs
      <3>3. CASE WorkerRefuses(r) /\ ReturnsError(c)
        <4>1. call' = [call EXCEPT ![c] = Idle] /\ GoesOnAs(c, Idle)
          BY <3>3 DEF ReturnsError, GoesOnAs
        <4>2. Idle.at # "place"
          BY DEF Idle
        <4> QED
          BY <4>1, <4>2
      <3> QED
        BY <1>3, <3>1, <3>2, <3>3 DEF WorkerRefuses
    <2> QED
      BY <1>1, <1>3, <2>2
  <1> QED
    BY <1>2, <1>3

-----------------------------------------------------------------------------
(* The inductive invariant.                                                  *)

\* Pulses and submits exclude each other: both hold worker_gate.
GateHeld == round.by \in {"task", "health"} => ~Submitting

\* The management server, its background task and the round that is going on.
ServerOK ==
    /\ DOMAIN round = {"by", "left"}
    /\ round.by \in {"none", "task", "health", "stop"}
    /\ \A c \in Busy : call[c].op # "restart" => server = "busy"
    /\ round.by = "health" => server = "busy"
    /\ round.by = "stop" <=> server = "stopping"
    /\ server \in {"stopping", "ended"} => pulser = "done"
    /\ pulser = "done" => round.by # "task" /\ PulseStops
    /\ stopped # {} => server \in {"stopping", "ended"}

ProcessInv == TypeOK /\ ConnectionsClean /\ FreshCandidates /\ GateHeld /\ ServerOK

\* The initial states satisfy the invariant.
LEMMA ProcessInvInit == ProcessInit => ProcessInv
  <1> SUFFICES ASSUME ProcessInit PROVE ProcessInv
    OBVIOUS
  <1> USE DEF ProcessInit, Init
  <1>1. Busy = {}
    BY DEF Busy
  <1>2. TypeOK
    BY DEF TypeOK, CallsOK, AttemptsOK, RequestsOK, RanOK, AcceptedOK
  <1>3. ConnectionsClean /\ FreshCandidates
    BY <1>1 DEF ConnectionsClean, FreshCandidates
  <1>4. GateHeld /\ ServerOK
    BY <1>1 DEF GateHeld, ServerOK, NoRound
  <1> QED
    BY <1>2, <1>3, <1>4 DEF ProcessInv

\* Steps that change no call and no candidate keep what is said of calls.
LEMMA CallsUnchanged ==
    ASSUME ProcessInv, UNCHANGED call
    PROVE  /\ CallsOK' /\ Busy' = Busy /\ Submitting' = Submitting
           /\ \A r : Waiting(r)' = Waiting(r)
           /\ carried' \subseteq carried => ConnectionsClean'
           /\ UNCHANGED eligible => FreshCandidates'
  <1>1. CallsOK' /\ Busy' = Busy
    BY DEF ProcessInv, TypeOK, CallsOK, Busy
  <1>2. \A r : Waiting(r)' = Waiting(r)
    BY DEF Waiting, Request
  <1>3. Submitting' = Submitting
    BY <1>1 DEF Submitting
  <1>4. carried' \subseteq carried => ConnectionsClean'
    BY <1>2 DEF ProcessInv, ConnectionsClean
  <1>5. UNCHANGED eligible => FreshCandidates'
    BY <1>1 DEF ProcessInv, FreshCandidates
  <1> QED
    BY <1>1, <1>2, <1>3, <1>4, <1>5

\* A call that goes on, or ends, leaves the rest of the controller in order.
LEMMA OneGoesOn ==
    ASSUME ProcessInv, NEW c \in Caller, call[c] # Idle, NEW k \in CallRec \cup {Idle},
           call' = [call EXCEPT ![c] = k], GoesOnAs(c, k), UNCHANGED <<eligible, pvars>>
    PROVE  CallsOK' /\ FreshCandidates' /\ GateHeld' /\ ServerOK'
  <1> USE DEF ProcessInv, TypeOK
  <1>1. CallsOK' /\ call'[c] = k /\ \A d \in Caller \ {c} : call'[d] = call[d]
    BY OneCall
  <1>2. Busy' \subseteq Busy /\ \A d \in Busy' : d \in Caller /\ call'[d].op = call[d].op
    BY <1>1 DEF Busy, GoesOnAs, Same
  <1>3. FreshCandidates'
    <2> SUFFICES ASSUME NEW d \in Busy', call'[d].op = "submit", call'[d].at \in {"send", "await"},
                        NEW i \in DOMAIN call'[d].queue
                 PROVE  call'[d].queue[i] \in eligible
      BY DEF FreshCandidates, pvars
    <2>1. d \in Busy /\ d \in Caller /\ call[d].op = "submit"
      BY <1>2
    <2>2. CASE d # c
      BY <1>1, <2>1, <2>2 DEF FreshCandidates
    <2>3. CASE d = c
      <3>1. call[c].at \in {"send", "await"} /\ k.queue \in {call[c].queue, Tail(call[c].queue)} /\ i \in DOMAIN k.queue
        BY <1>1, <2>3 DEF GoesOnAs, Idle
      <3>2. call[c].queue \in Seq(Node) /\ call[c].queue # <<>>
        BY <3>1, BusyCall
      <3>3. \A j \in DOMAIN call[c].queue : call[c].queue[j] \in eligible
        BY <2>1, <2>3, <3>1 DEF FreshCandidates
      <3>4. CASE k.queue = call[c].queue
        BY <1>1, <2>3, <3>1, <3>3, <3>4
      <3>5. CASE k.queue = Tail(call[c].queue)
        <4>1. i + 1 \in DOMAIN call[c].queue /\ k.queue[i] = call[c].queue[i + 1]
          BY <3>1, <3>2, <3>5
        <4> QED
          BY <1>1, <2>3, <3>3, <4>1
      <3> QED
        BY <3>1, <3>4, <3>5
    <2> QED
      BY <2>2, <2>3
  <1>4. Submitting' => Submitting
    BY <1>2 DEF Submitting
  <1>5. GateHeld'
    BY <1>4 DEF GateHeld, pvars
  <1>6. ServerOK'
    BY <1>2 DEF ServerOK, pvars, PulseStops
  <1> QED
    BY <1>1, <1>3, <1>5, <1>6

\* Requests of others stay clean when one call changes.
LEMMA OthersClean ==
    ASSUME ProcessInv, NEW c \in Caller, NEW k, call' = [call EXCEPT ![c] = k],
           carried' \subseteq carried, \A r \in carried' : r.caller # c
    PROVE  ConnectionsClean'
  <1> SUFFICES ASSUME NEW r \in carried' PROVE Waiting(r)'
    BY DEF ConnectionsClean
  <1>1. r \in carried /\ r.caller # c /\ r.caller \in Caller
    BY DEF ProcessInv, TypeOK, RequestsOK, RequestRec
  <1>2. call'[r.caller] = call[r.caller]
    BY <1>1 DEF ProcessInv, TypeOK, CallsOK
  <1>3. Waiting(r)
    BY <1>1 DEF ProcessInv, ConnectionsClean
  <1> QED
    BY <1>2, <1>3 DEF Waiting, Request

\* A call that begins finds everything of its caller quiet.
LEMMA OneBegins ==
    ASSUME ProcessInv, NEW c \in Caller, NEW k \in CallRec, Begins(c, k),
           UNCHANGED <<eligible, carried, round, pulser, stopped>>,
           k.op = "submit" => GateFree /\ (k.at \in {"send", "await"} => k.queue \in Seq(eligible)),
           \/ k.op = "restart" /\ UNCHANGED server
           \/ server = "serving" /\ server' = "busy"
    PROVE  CallsOK' /\ ConnectionsClean' /\ FreshCandidates' /\ GateHeld' /\ ServerOK'
  <1> USE DEF ProcessInv, TypeOK
  <1>0. call[c] = Idle /\ call' = [call EXCEPT ![c] = k] /\ k # Idle
    BY DEF Begins, CallRec, Idle
  <1>1. CallsOK' /\ call'[c] = k /\ \A d \in Caller \ {c} : call'[d] = call[d]
    BY <1>0, OneCall
  <1>2. Busy' = Busy \cup {c} /\ c \notin Busy /\ Busy \subseteq Caller
    BY <1>0, <1>1 DEF Busy
  <1>3. ConnectionsClean'
    <2>1. \A r \in carried : r.caller # c
      BY <1>0 DEF ConnectionsClean, Waiting, Idle
    <2> QED
      BY <1>0, <2>1, OthersClean
  <1>4. FreshCandidates'
    <2> SUFFICES ASSUME NEW d \in Busy', call'[d].op = "submit", call'[d].at \in {"send", "await"},
                        NEW i \in DOMAIN call'[d].queue
                 PROVE  call'[d].queue[i] \in eligible
      BY DEF FreshCandidates
    <2>1. CASE d # c
      BY <1>1, <1>2, <2>1 DEF FreshCandidates
    <2>2. CASE d = c
      <3>1. k.queue \in Seq(eligible) /\ i \in DOMAIN k.queue
        BY <1>1, <2>2
      <3>2. k.queue[i] \in eligible
        BY <3>1
      <3> QED
        BY <1>1, <2>2, <3>2
    <2> QED
      BY <2>1, <2>2
  <1>5. GateHeld'
    <2>1. CASE k.op = "submit"
      <3>1. round.by = "none"
        BY <2>1 DEF GateFree, NoRound
      <3> QED
        BY <3>1 DEF GateHeld
    <2>2. CASE k.op # "submit"
      <3>1. Submitting' => Submitting
        BY <1>1, <1>2, <2>2 DEF Submitting
      <3> QED
        BY <3>1 DEF GateHeld
    <2> QED
      BY <2>1, <2>2
  <1>6. ServerOK'
    <2>1. CASE k.op = "restart" /\ UNCHANGED server
      <3>1. \A d \in Busy' : call'[d].op # "restart" => server = "busy"
        BY <1>1, <1>2, <2>1 DEF ServerOK
      <3> QED
        BY <2>1, <3>1 DEF ServerOK, PulseStops
    <2>2. CASE server = "serving" /\ server' = "busy"
      <3>1. pulser # "done" /\ round.by # "stop" /\ stopped = {}
        BY <2>2 DEF ServerOK, PulseStops
      <3> QED
        BY <2>2, <3>1 DEF ServerOK
    <2> QED
      BY <2>1, <2>2
  <1> QED
    BY <1>1, <1>3, <1>4, <1>5, <1>6

\* What the management server does by itself keeps the invariant.
LEMMA ServerKeeps ==
    ASSUME ProcessInv, accept \/ Disconnect \/ Health \/ Shutdown \/ ServerStep
    PROVE  ProcessInv'
  <1> USE DEF ProcessInv
  <1>0. UNCHANGED <<vars, carried, pulser, stopped>>
    BY DEF accept, Disconnect, Health, Shutdown, ServerStep, Reply, ShutdownWorkers, ServerGoes
  <1>1. CallsOK' /\ Busy' = Busy /\ Submitting' = Submitting /\ ConnectionsClean' /\ FreshCandidates'
    BY <1>0, CallsUnchanged DEF vars
  <1>2. TypeOK'
    BY <1>0, <1>1 DEF vars, TypeOK, AttemptsOK, RequestsOK, RanOK, AcceptedOK
  <1>3. CASE Health
    <2>1. round' = [by |-> "health", left |-> Workers] /\ ~Submitting /\ server' = "busy" /\ server = "serving"
      BY <1>3 DEF Health, RoundBegins, GateFree
    <2>2. GateHeld'
      BY <1>1, <2>1 DEF GateHeld
    <2>3. pulser # "done" /\ stopped = {}
      BY <2>1 DEF ServerOK, PulseStops
    <2>4. ServerOK'
      BY <1>0, <2>1, <2>3 DEF ServerOK
    <2> QED
      BY <1>1, <1>2, <2>2, <2>4
  <1>4. CASE ShutdownWorkers
    <2>1. round' = [by |-> "stop", left |-> Workers] /\ server = "joining" /\ pulser = "done" /\ server' = "stopping"
      BY <1>4 DEF ShutdownWorkers, RoundBegins, Joined
    <2>2. GateHeld'
      BY <2>1 DEF GateHeld
    <2>3. ServerOK'
      BY <1>0, <1>1, <2>1 DEF ServerOK, PulseStops, vars
    <2> QED
      BY <1>1, <1>2, <2>2, <2>3
  <1>5. CASE accept \/ Disconnect \/ Shutdown \/ Reply
    <2>1. UNCHANGED round
      BY <1>5 DEF accept, Disconnect, Shutdown, Reply, ServerGoes
    <2>2. GateHeld'
      BY <1>1, <2>1 DEF GateHeld
    <2>3. /\ server \notin {"stopping", "ended"} /\ server' \notin {"stopping", "ended"}
          /\ server = "busy" => server' \in {"serving", "failed"} /\ CommandDone
          /\ server \in {"closing", "joining"} => server' \in {"joining", "failed"}
          /\ server' # "busy"
          /\ server # "failed"
      BY <1>5 DEF accept, Disconnect, Shutdown, Reply, ServerGoes
    <2>4. stopped = {}
      BY <2>3 DEF ServerOK
    <2>5. \A c \in Busy : call[c].op = "restart"
      BY <2>3 DEF ServerOK, CommandDone
    <2>6. round.by \notin {"health", "stop"}
      BY <2>3 DEF ServerOK, CommandDone
    <2>7. pulser = "done" => server' \in {"joining", "failed"}
      BY <2>3 DEF ServerOK, PulseStops
    <2>8. ServerOK'
      BY <1>0, <1>1, <2>1, <2>3, <2>4, <2>5, <2>6, <2>7 DEF ServerOK, PulseStops, vars
    <2> QED
      BY <1>1, <1>2, <2>2, <2>8
  <1> QED
    BY <1>3, <1>4, <1>5 DEF ServerStep

\* Pulses and the requests to stop keep the invariant.
LEMMA RoundsKeep ==
    ASSUME ProcessInv, PulseTask \/ PulseOne \/ StopOne
    PROVE  ProcessInv'
  <1> USE DEF ProcessInv
  <1>0. UNCHANGED <<attempts, call, ran, accepted>>
    BY DEF PulseTask, PulseOne, StopOne, vars
  <1>1. /\ CallsOK' /\ Busy' = Busy /\ Submitting' = Submitting
        /\ carried' \subseteq carried => ConnectionsClean'
        /\ UNCHANGED eligible => FreshCandidates'
    BY <1>0, CallsUnchanged
  <1>2. carried' \subseteq carried /\ requests' \subseteq requests
    BY DEF PulseTask, PulseOne, StopOne, vars, Dropped
  <1>3. TypeOK' /\ ConnectionsClean'
    BY <1>0, <1>1, <1>2 DEF TypeOK, AttemptsOK, RequestsOK, RanOK, AcceptedOK
  <1>4. CASE PulseTask
    <2>1. FreshCandidates' /\ UNCHANGED <<server, stopped>>
      BY <1>1, <1>4 DEF PulseTask, vars
    <2>2. CASE PulseStops
      <3>1. pulser' = "done" /\ UNCHANGED round /\ round.by # "task"
        BY <1>4, <2>2 DEF PulseTask
      <3>2. GateHeld'
        BY <1>1, <3>1 DEF GateHeld
      <3>3. ServerOK'
        BY <1>0, <1>1, <2>1, <2>2, <3>1 DEF ServerOK, PulseStops
      <3> QED
        BY <1>3, <2>1, <3>2, <3>3
    <2>3. CASE ~PulseStops
      <3>1. round' = [by |-> "task", left |-> Workers] /\ round = NoRound /\ ~Submitting /\ UNCHANGED pulser
            /\ pulser = "on"
        BY <1>4, <2>3 DEF PulseTask, GateFree, RoundBegins
      <3>2. GateHeld'
        BY <1>1, <3>1 DEF GateHeld
      <3>3. ServerOK'
        BY <1>0, <1>1, <2>1, <2>3, <3>1 DEF ServerOK, PulseStops, NoRound
      <3> QED
        BY <1>3, <2>1, <3>2, <3>3
    <2> QED
      BY <2>2, <2>3
  <1>5. ASSUME PulseOne \/ StopOne
        PROVE  /\ DOMAIN round' = {"by", "left"}
               /\ \/ round' = NoRound /\ round'.by = "none"
                  \/ round' # NoRound /\ round'.by = round.by
    <2>1. round' = NextOfRound /\ round.by # "none"
      BY <1>5 DEF PulseOne, StopOne
    <2> QED
      BY <2>1 DEF NextOfRound, NoRound, ServerOK
  <1>6. CASE PulseOne
    <2>1. ~Submitting /\ UNCHANGED <<server, pulser, stopped>> /\ round.by \in {"task", "health"}
      BY <1>6 DEF PulseOne, GateHeld
    <2>2. FreshCandidates'
      BY <1>0, <1>1, <2>1 DEF FreshCandidates, Submitting
    <2>3. GateHeld'
      BY <1>1, <2>1 DEF GateHeld
    <2>4. ServerOK'
      BY <1>0, <1>1, <1>5, <1>6, <2>1 DEF ServerOK, PulseStops
    <2> QED
      BY <1>3, <2>2, <2>3, <2>4
  <1>7. CASE StopOne
    <2>1. /\ round.by = "stop" /\ UNCHANGED <<eligible, pulser>>
          /\ server' = IF round' = NoRound THEN "ended" ELSE server
      BY <1>7 DEF StopOne
    <2>2. server = "stopping" /\ pulser = "done"
      BY <2>1 DEF ServerOK
    <2>3. GateHeld'
      BY <1>5, <1>7, <2>1 DEF GateHeld
    <2>4. FreshCandidates'
      BY <1>1, <2>1
    <2>5. ServerOK'
      BY <1>0, <1>1, <1>5, <1>7, <2>1, <2>2 DEF ServerOK, PulseStops
    <2> QED
      BY <1>3, <2>3, <2>4, <2>5
  <1> QED
    BY <1>4, <1>6, <1>7

\* New calls keep the invariant.
LEMMA BeginningsKeep ==
    ASSUME ProcessInv, NEW c \in Caller, NEW t \in Task,
           \/ Submit(c, t) \/ CancelOrOutcome(c, t)
           \/ restart_after_disconnect(c, t) /\ UNCHANGED <<pvars, carried>>
    PROVE  ProcessInv'
  <1> USE DEF ProcessInv
  <1>0. UNCHANGED <<attempts, eligible, requests, ran, accepted, carried, round, pulser, stopped>>
    BY DEF Submit, CancelOrOutcome, submit, ask, restart_after_disconnect, pvars
  <1>1. CallsOK /\ AttemptsOK
    BY DEF TypeOK
  <1>2. \E k \in CallRec :
           /\ Begins(c, k)
           /\ k.op = "submit" => GateFree /\ (k.at \in {"send", "await"} => k.queue \in Seq(eligible))
           /\ \/ k.op = "restart" /\ UNCHANGED server
              \/ server = "serving" /\ server' = "busy"
    <2>1. CASE Submit(c, t)
      <3>1. submit(c, t) /\ GateFree /\ server = "serving" /\ server' = "busy"
        BY <2>1 DEF Submit
      <3> QED
        BY <1>1, <3>1, SubmitEffect
    <2>2. CASE CancelOrOutcome(c, t)
      <3>1. ask(c, t) /\ server = "serving" /\ server' = "busy"
        BY <2>2 DEF CancelOrOutcome
      <3>2. PICK k \in CallRec : Begins(c, k) /\ k.op = "ask" /\ k.at = "ask"
        BY <1>1, <3>1, AskEffect
      <3> QED
        BY <3>1, <3>2
    <2>3. CASE restart_after_disconnect(c, t) /\ UNCHANGED pvars
      <3>1. PICK k \in CallRec : /\ Begins(c, k) /\ k.op = "restart" /\ k.task = t
                                 /\ k.attempt = NextAttempt(t) /\ k.at \in {"local", "send"}
        BY <1>1, <2>3, RestartEffect
      <3>2. UNCHANGED server
        BY <2>3 DEF pvars
      <3> QED
        BY <3>1, <3>2
    <2> QED
      BY <2>1, <2>2, <2>3
  <1>3. CallsOK' /\ ConnectionsClean' /\ FreshCandidates' /\ GateHeld' /\ ServerOK'
    BY <1>0, <1>2, OneBegins
  <1>4. TypeOK'
    BY <1>0, <1>3 DEF TypeOK, AttemptsOK, RequestsOK, RanOK, AcceptedOK
  <1> QED
    BY <1>3, <1>4

\* The attempts that a call records are attempts.
LEMMA RecordedType ==
    ASSUME CallsOK, AttemptsOK, NEW c \in Caller, call[c].at = "place"
    PROVE  /\ Recorded(c) \in Seq(AttemptRec) /\ Recorded(c) # <<>> /\ call[c].task \in Task
           /\ NewAttempt(c) \in AttemptRec
  <1>1. call[c] # Idle /\ call[c].at # "local"
    BY DEF Idle
  <1>2. call[c].task \in Task /\ call[c].attempt \in Nat /\ Head(call[c].queue) \in Node
    BY <1>1, BusyCall
  <1>3. NewAttempt(c) \in AttemptRec
    BY <1>2 DEF NewAttempt, AttemptRec
  <1>4. attempts[call[c].task] \in Seq(AttemptRec)
    BY <1>2 DEF AttemptsOK
  <1>5. \A q \in Seq(AttemptRec) : Deactivated(q) \in Seq(AttemptRec)
    <2> SUFFICES ASSUME NEW q \in Seq(AttemptRec) PROVE Deactivated(q) \in Seq(AttemptRec)
      OBVIOUS
    <2>1. ASSUME NEW a \in AttemptRec PROVE [a EXCEPT !.active = FALSE] \in AttemptRec
      BY Zenon DEF AttemptRec
    <2> QED
      BY <2>1 DEF Deactivated
  <1>6. Deactivated(attempts[call[c].task]) \in Seq(AttemptRec)
    BY <1>4, <1>5
  <1>7. <<NewAttempt(c)>> \in Seq(AttemptRec) /\ <<NewAttempt(c)>> # <<>>
    BY <1>3
  <1>8. \A q \in Seq(AttemptRec) : Append(q, NewAttempt(c)) \in Seq(AttemptRec) /\ Append(q, NewAttempt(c)) # <<>>
    <2> SUFFICES ASSUME NEW q \in Seq(AttemptRec)
                 PROVE  Append(q, NewAttempt(c)) \in Seq(AttemptRec) /\ Append(q, NewAttempt(c)) # <<>>
      OBVIOUS
    <2>1. Append(q, NewAttempt(c)) \in Seq(AttemptRec) /\ Len(Append(q, NewAttempt(c))) = Len(q) + 1 /\ Len(q) \in Nat
      BY <1>3
    <2> QED
      BY <2>1
  <1> QED
    BY <1>2, <1>3, <1>6, <1>7, <1>8 DEF Recorded

\* A step of a call keeps the invariant: a request that ends without its reply takes its
\* connection with it.
LEMMA CallStepsKeep ==
    ASSUME ProcessInv, NEW c \in Busy, CallStep(c) \/ DropCall(c), UNCHANGED pvars
    PROVE  ProcessInv'
  <1> USE DEF ProcessInv
  <1>0. CallsOK /\ AttemptsOK /\ c \in Caller /\ call[c] # Idle
    BY DEF TypeOK, Busy
  <1>1. CASE CallSends(c)
    <2>1. Send(c) /\ carried' = carried \cup (requests' \ requests)
      BY <1>1 DEF CallSends
    <2>2. /\ call[c].at = "send" /\ Request(c) \in RequestRec
          /\ requests' \subseteq requests \cup {Request(c)}
      BY <1>0, <2>1, SendEffect
    <2>3. PICK k \in CallRec : /\ call' = [call EXCEPT ![c] = k] /\ Same(k, call[c])
                               /\ k.at = "await" /\ k.queue = call[c].queue
      BY <1>0, <2>1, SendEffect
    <2>4. UNCHANGED <<attempts, eligible, ran, accepted>>
      BY <2>1 DEF Send
    <2>5. GoesOnAs(c, k)
      BY <2>2, <2>3 DEF GoesOnAs
    <2>6. CallsOK' /\ FreshCandidates' /\ GateHeld' /\ ServerOK'
      BY <1>0, <2>3, <2>4, <2>5, OneGoesOn
    <2>7. TypeOK'
      BY <2>1, <2>2, <2>4, <2>6 DEF TypeOK, AttemptsOK, RequestsOK, RanOK, AcceptedOK
    <2>8. call'[c] = k /\ \A d \in Caller \ {c} : call'[d] = call[d]
      BY <1>0, <2>3, OneCall
    <2>9. ASSUME NEW r \in carried' PROVE Waiting(r)'
      <3>1. CASE r \in carried
        <4>1. Waiting(r) /\ r.caller \in Caller
          BY <3>1 DEF ConnectionsClean, TypeOK, RequestsOK, RequestRec
        <4>2. r.caller # c
          BY <2>2, <4>1 DEF Waiting
        <4>3. call'[r.caller] = call[r.caller]
          BY <2>8, <4>1, <4>2
        <4> QED
          BY <4>1, <4>3 DEF Waiting, Request
      <3>2. CASE r = Request(c)
        <4>1. r.caller = c
          BY <3>2 DEF Request
        <4>2. Request(c)' = Request(c)
          BY <2>3, <2>8 DEF Request, Same
        <4> QED
          BY <2>3, <2>8, <3>2, <4>1, <4>2 DEF Waiting
      <3> QED
        BY <2>1, <2>2, <3>1, <3>2
    <2> QED
      BY <2>6, <2>7, <2>9 DEF ConnectionsClean
  <1>2. \A r \in carried : r.caller = c => call[c].at = "await" /\ r.exec.node = Head(call[c].queue)
    BY DEF ConnectionsClean, Waiting, Request, Exec
  <1>3. ASSUME NEW k \in CallRec \cup {Idle}, call' = [call EXCEPT ![c] = k], GoesOnAs(c, k),
               UNCHANGED eligible, carried' \subseteq carried,
               call[c].at # "await" \/ carried' = Dropped(Head(call[c].queue)),
               AttemptsOK', requests' = requests, RanOK', UNCHANGED accepted
        PROVE  ProcessInv'
    <2>1. CallsOK' /\ FreshCandidates' /\ GateHeld' /\ ServerOK'
      BY <1>0, <1>3, OneGoesOn
    <2>2. TypeOK'
      BY <1>3, <2>1 DEF TypeOK, RequestsOK, AcceptedOK
    <2>3. \A r \in carried' : r.caller # c
      BY <1>2, <1>3 DEF Dropped
    <2>4. ConnectionsClean'
      BY <1>0, <1>3, <2>3, OthersClean
    <2> QED
      BY <2>1, <2>2, <2>4
  <1>4. CASE CallFails(c)
    <2>1. TransportFails(c) /\ carried' = Dropped(Head(call[c].queue))
      BY <1>4 DEF CallFails
    <2>2. call[c].at = "await" /\ GoesOn(c) /\ UNCHANGED <<attempts, eligible, requests, ran, accepted>>
      BY <2>1 DEF TransportFails
    <2>3. PICK k \in CallRec : /\ call' = [call EXCEPT ![c] = k] /\ Same(k, call[c])
                               /\ k.at \in {"local", "send"} /\ k.queue = Tail(call[c].queue)
      BY <1>0, <2>2, GoesOnEffect
    <2>4. GoesOnAs(c, k) /\ carried' \subseteq carried /\ AttemptsOK' /\ RanOK'
      BY <2>1, <2>2, <2>3 DEF GoesOnAs, Dropped, TypeOK, AttemptsOK, RanOK
    <2> QED
      BY <1>3, <2>1, <2>2, <2>3, <2>4
  <1>5. CASE CallAnswered(c) \/ DropCall(c)
    <2>1. /\ call' = [call EXCEPT ![c] = Idle] /\ UNCHANGED <<attempts, eligible, requests, ran, accepted>>
          /\ carried' \subseteq carried
          /\ call[c].at # "await" \/ carried' = Dropped(Head(call[c].queue))
      BY <1>5 DEF CallAnswered, Answered, DropCall, ReturnsError, Dropped
    <2>2. GoesOnAs(c, Idle) /\ AttemptsOK' /\ RanOK'
      BY <2>1 DEF GoesOnAs, TypeOK, AttemptsOK, RanOK
    <2> QED
      BY <1>3, <2>1, <2>2
  <1>6. CASE SubmitLocal(c) /\ UNCHANGED carried
    <2>1. call[c].at = "local" /\ UNCHANGED <<attempts, eligible, requests, accepted, carried>>
      BY <1>6 DEF SubmitLocal
    <2>2. Origin \in Node /\ Exec(call[c].task, call[c].attempt, Origin) \in ExecRec /\ AttemptsOK'
      BY <1>0, <2>1, BusyCall DEF Exec, ExecRec, Node, AttemptsOK
    <2>3. CASE /\ ran' = ran \cup {Exec(call[c].task, call[c].attempt, Origin)} /\ Placed(c, Origin)
      <3>1. PICK k \in CallRec : /\ call' = [call EXCEPT ![c] = k] /\ Same(k, call[c])
                                 /\ k.at = "place" /\ k.queue = <<Origin>> /\ Head(k.queue) = Origin
        BY <1>0, <2>2, <2>3, PlacedEffect
      <3>2. GoesOnAs(c, k)
        BY <3>1 DEF GoesOnAs
      <3>3. RanOK'
        BY <2>2, <2>3 DEF TypeOK, RanOK
      <3> QED
        BY <1>3, <2>1, <2>2, <3>1, <3>2, <3>3
    <2>4. CASE ReturnsError(c) /\ UNCHANGED ran
      <3>1. call' = [call EXCEPT ![c] = Idle] /\ GoesOnAs(c, Idle) /\ RanOK'
        BY <2>4 DEF ReturnsError, GoesOnAs, TypeOK, RanOK
      <3> QED
        BY <1>3, <2>1, <2>2, <3>1
    <2> QED
      BY <1>6, <2>3, <2>4 DEF SubmitLocal
  <1>7. CASE Record(c) /\ UNCHANGED carried
    <2>1. /\ call[c].at = "place" /\ call' = [call EXCEPT ![c] = Idle]
          /\ attempts' = [attempts EXCEPT ![call[c].task] = Recorded(c)]
          /\ UNCHANGED <<eligible, requests, ran, accepted, carried>>
      BY <1>7 DEF Record
    <2>2. Recorded(c) \in Seq(AttemptRec)
      BY <1>0, <2>1, RecordedType
    <2>3. AttemptsOK' /\ RanOK' /\ GoesOnAs(c, Idle)
      BY <1>0, <2>1, <2>2 DEF AttemptsOK, TypeOK, RanOK, GoesOnAs
    <2> QED
      BY <1>3, <2>1, <2>3
  <1> QED
    BY <1>1, <1>4, <1>5, <1>6, <1>7 DEF CallStep, CallGoesOn

\* A worker that takes a request keeps the invariant: the call it belongs to goes on and
\* the connection has nothing left on it.
LEMMA ServingKeeps ==
    ASSUME ProcessInv, NEW r \in requests, WorkerServes(r)
    PROVE  ProcessInv'
  <1> USE DEF ProcessInv
  <1>0. CallsOK /\ RequestsOK /\ RanOK /\ AttemptsOK /\ AcceptedOK
    BY DEF TypeOK
  <1>1. (WorkerRuns(r) \/ WorkerRefuses(r)) /\ carried' = carried \ {r} /\ UNCHANGED pvars
    BY DEF WorkerServes
  <1>2. /\ requests' = requests \ {r} /\ ran' \subseteq ran \cup {r.exec}
        /\ UNCHANGED <<attempts, eligible, accepted>>
    BY <1>0, <1>1, ServesEffect
  <1>3. AttemptsOK' /\ RequestsOK' /\ RanOK' /\ AcceptedOK'
    BY <1>0, <1>1, <1>2 DEF AttemptsOK, RequestsOK, RanOK, AcceptedOK, RequestRec
  <1>4. CASE ~Waiting(r) /\ UNCHANGED call
    <2>1. CallsOK' /\ ConnectionsClean' /\ FreshCandidates' /\ Busy' = Busy /\ Submitting' = Submitting
      BY <1>1, <1>2, <1>4, CallsUnchanged
    <2>2. GateHeld' /\ ServerOK'
      BY <1>1, <1>4, <2>1 DEF GateHeld, ServerOK, pvars, PulseStops
    <2> QED
      BY <1>3, <2>1, <2>2 DEF TypeOK
  <1>5. ASSUME Waiting(r), NEW k \in CallRec \cup {Idle}, call' = [call EXCEPT ![r.caller] = k],
               GoesOnAs(r.caller, k)
        PROVE  ProcessInv'
    <2>1. r.caller \in Caller /\ call[r.caller] # Idle /\ Request(r.caller) = r
      BY <1>0, <1>5 DEF RequestsOK, RequestRec, Waiting, Idle
    <2>2. CallsOK' /\ FreshCandidates' /\ GateHeld' /\ ServerOK'
      BY <1>1, <1>2, <1>5, <2>1, OneGoesOn
    <2>3. \A x \in carried' : x.caller # r.caller
      BY <1>1, <2>1 DEF ConnectionsClean, Waiting
    <2>4. carried' \subseteq carried
      BY <1>1
    <2>5. ConnectionsClean'
      BY <1>5, <2>1, <2>3, <2>4, OthersClean
    <2> QED
      BY <1>3, <2>2, <2>5 DEF TypeOK
  <1> QED
    BY <1>0, <1>1, <1>4, <1>5, ServesEffect

\* A result that is accepted changes nothing but accepted.
LEMMA AcceptingKeeps ==
    ASSUME ProcessInv, NEW r \in ran, accept_result(r), UNCHANGED <<pvars, carried>>
    PROVE  ProcessInv'
  <1>1. UNCHANGED <<attempts, call, eligible, requests, ran>> /\ accepted' = [accepted EXCEPT ![r.task] = r.attempt]
    BY DEF accept_result
  <1>2. r.attempt \in Nat /\ AcceptedOK
    BY DEF ProcessInv, TypeOK, RanOK, ExecRec
  <1>3. AcceptedOK'
    BY <1>1, <1>2 DEF AcceptedOK
  <1>4. CallsOK' /\ ConnectionsClean' /\ FreshCandidates' /\ Busy' = Busy /\ Submitting' = Submitting
    BY <1>1, CallsUnchanged
  <1> QED
    BY <1>1, <1>3, <1>4 DEF ProcessInv, TypeOK, AttemptsOK, RequestsOK, RanOK, GateHeld, ServerOK, pvars, PulseStops

\* Every step keeps the invariant.
LEMMA ProcessInvStep == ProcessInv /\ [ProcessNext]_allvars => ProcessInv'
  <1> SUFFICES ASSUME ProcessInv, [ProcessNext]_allvars PROVE ProcessInv'
    OBVIOUS
  <1>1. CASE UNCHANGED allvars
    <2>1. CallsOK' /\ ConnectionsClean' /\ FreshCandidates' /\ Busy' = Busy /\ Submitting' = Submitting
      BY <1>1, CallsUnchanged DEF allvars, vars
    <2> QED
      BY <1>1, <2>1 DEF ProcessInv, TypeOK, AttemptsOK, RequestsOK, RanOK, AcceptedOK, GateHeld, ServerOK,
                        allvars, vars, pvars, PulseStops
  <1>2. CASE accept \/ Disconnect \/ Health \/ Shutdown \/ ServerStep
    BY <1>2, ServerKeeps
  <1>3. CASE PulseTask \/ PulseOne \/ StopOne
    BY <1>3, RoundsKeep
  <1>4. CASE \E c \in Caller, t \in Task :
                 \/ Submit(c, t) \/ CancelOrOutcome(c, t)
                 \/ Running /\ restart_after_disconnect(c, t) /\ UNCHANGED <<pvars, carried>>
    BY <1>4, BeginningsKeep
  <1>5. CASE \E c \in Busy : Running /\ (CallStep(c) \/ DropCall(c)) /\ UNCHANGED pvars
    BY <1>5, CallStepsKeep
  <1>6. CASE \E r \in requests : Running /\ WorkerServes(r)
    BY <1>6, ServingKeeps
  <1>7. CASE \E r \in ran : Running /\ accept_result(r) /\ UNCHANGED <<pvars, carried>>
    BY <1>7, AcceptingKeeps
  <1> QED
    BY <1>1, <1>2, <1>3, <1>4, <1>5, <1>6, <1>7 DEF ProcessNext

\* The invariant holds in every reachable state.
LEMMA ProcessInvariant == ProcessSpec => []ProcessInv
  BY ProcessInvInit, ProcessInvStep, PTL DEF ProcessSpec

\* A connection that the next request of LinkWorkerTransport will use carries no reply
\* that belongs to a call that has gone.
THEOREM ConnectionsStayClean == ProcessSpec => []ConnectionsClean
  <1>1. ProcessInv => ConnectionsClean
    BY DEF ProcessInv
  <1> QED
    BY <1>1, ProcessInvariant, PTL

\* While a submit goes through its candidates, no pulse changes what the registry says
\* of those it has still to ask.
THEOREM CandidatesStayFresh == ProcessSpec => []FreshCandidates
  <1>1. ProcessInv => FreshCandidates
    BY DEF ProcessInv
  <1> QED
    BY <1>1, ProcessInvariant, PTL

\* Once a worker has been stopped, the background task has ended, no pulse goes on and
\* no command is worked on.
THEOREM StopIsQuiet == ProcessSpec => []QuietBeforeStop
  <1>1. ProcessInv => QuietBeforeStop
    BY DEF ProcessInv, ServerOK, QuietBeforeStop
  <1> QED
    BY <1>1, ProcessInvariant, PTL

-----------------------------------------------------------------------------
(* The records.  restart_after_disconnect reads the last attempt before its  *)
(* first await and appends the next one afterwards, so that two restarts of  *)
(* one task at a time append the same number: what follows is about callers  *)
(* that restart a task only when no other restart of it is going on.         *)

RestartsApart ==
    \A c, d \in Busy :
        c # d /\ call[c].op = "restart" /\ call[d].op = "restart" => call[c].task # call[d].task

Last(t) == attempts[t][Len(attempts[t])]

\* The last attempt of t is active and was run, and no attempt before it is active.
LastIsActive(t) ==
    /\ Last(t).active
    /\ Exec(t, Last(t).attempt, Last(t).node) \in ran
    /\ \A i \in 1..(Len(attempts[t]) - 1) :
          ~attempts[t][i].active /\ attempts[t][i].attempt <= Last(t).attempt

\* What the call of a caller has still in common with the records it has read.
CallAgrees(c) ==
    /\ call[c].op = "restart" => call[c].task \in Registered /\ call[c].attempt = NextAttempt(call[c].task)
    /\ call[c].op = "submit" => call[c].task \notin Registered
    /\ call[c].op = "ask" => call[c].at = "ask"
    /\ call[c].at = "place" => Exec(call[c].task, call[c].attempt, Head(call[c].queue)) \in ran

OneSubmit == \A c, d \in Busy : call[c].op = "submit" /\ call[d].op = "submit" => c = d

AcceptedBelow(t) == IF t \in Registered THEN accepted[t] <= Last(t).attempt ELSE accepted[t] = 0

RecordsInv ==
    /\ \A t \in Registered : LastIsActive(t)
    /\ \A c \in Busy : CallAgrees(c)
    /\ OneSubmit
    /\ \A t \in Task : AcceptedBelow(t)

\* The initial states satisfy the invariant.
LEMMA RecordsInvInit == ProcessInit => RecordsInv
  BY DEF ProcessInit, Init, RecordsInv, Registered, Busy, OneSubmit, AcceptedBelow

\* Nothing recorded is lost while hosts are given more to run.
LEMMA RecordsUnchanged ==
    ASSUME RecordsInv, UNCHANGED attempts, ran \subseteq ran'
    PROVE  /\ Registered' = Registered /\ \A t : NextAttempt(t)' = NextAttempt(t) /\ Last(t)' = Last(t)
           /\ \A t \in Registered : LastIsActive(t)'
           /\ UNCHANGED accepted => \A t \in Task : AcceptedBelow(t)'
  <1>1. Registered' = Registered /\ \A t : NextAttempt(t)' = NextAttempt(t) /\ Last(t)' = Last(t)
    BY DEF Registered, NextAttempt, Last
  <1>2. \A t \in Registered : LastIsActive(t)'
    <2> SUFFICES ASSUME NEW t \in Registered PROVE LastIsActive(t)'
      OBVIOUS
    <2>1. LastIsActive(t)
      BY DEF RecordsInv
    <2> QED
      BY <1>1, <2>1 DEF LastIsActive, Exec
  <1>3. UNCHANGED accepted => \A t \in Task : AcceptedBelow(t)'
    BY <1>1 DEF RecordsInv, AcceptedBelow
  <1> QED
    BY <1>1, <1>2, <1>3

\* Steps that change neither calls nor records.
LEMMA RecordsStutter ==
    ASSUME RecordsInv, UNCHANGED <<attempts, call, accepted>>, ran \subseteq ran'
    PROVE  RecordsInv'
  <1>1. /\ Registered' = Registered /\ \A t : NextAttempt(t)' = NextAttempt(t)
        /\ \A t \in Registered : LastIsActive(t)'
        /\ \A t \in Task : AcceptedBelow(t)'
    BY RecordsUnchanged
  <1>2. Busy' = Busy
    BY DEF Busy
  <1>3. ASSUME NEW c \in Busy PROVE CallAgrees(c)'
    <2>1. CallAgrees(c)
      BY DEF RecordsInv
    <2> QED
      BY <1>1, <2>1 DEF CallAgrees, Exec
  <1>4. OneSubmit'
    BY <1>2 DEF RecordsInv, OneSubmit
  <1> QED
    BY <1>1, <1>2, <1>3, <1>4 DEF RecordsInv

\* A call begins with what the records say.
LEMMA RecordsBegin ==
    ASSUME RecordsInv, CallsOK, NEW c \in Caller, NEW k \in CallRec, Begins(c, k),
           UNCHANGED <<attempts, ran, accepted>>, k.at # "place",
           k.op = "restart" => k.task \in Registered /\ k.attempt = NextAttempt(k.task),
           k.op = "submit" => k.task \notin Registered /\ ~Submitting,
           k.op = "ask" => k.at = "ask"
    PROVE  RecordsInv'
  <1>1. /\ Registered' = Registered /\ \A t : NextAttempt(t)' = NextAttempt(t)
        /\ \A t \in Registered : LastIsActive(t)'
        /\ \A t \in Task : AcceptedBelow(t)'
    BY RecordsUnchanged
  <1>2. call'[c] = k /\ \A d \in Caller \ {c} : call'[d] = call[d]
    BY OneCall DEF Begins
  <1>3. Busy' = Busy \cup {c} /\ Busy \subseteq Caller /\ c \notin Busy
    BY <1>2 DEF Busy, Begins, CallRec, Idle
  <1>4. ASSUME NEW d \in Busy' PROVE CallAgrees(d)'
    <2>1. CASE d = c
      BY <1>1, <1>2, <2>1 DEF CallAgrees
    <2>2. CASE d # c
      <3>1. CallAgrees(d) /\ call'[d] = call[d]
        BY <1>2, <1>3, <2>2 DEF RecordsInv
      <3> QED
        BY <1>1, <3>1 DEF CallAgrees, Exec
    <2> QED
      BY <2>1, <2>2
  <1>5. OneSubmit'
    BY <1>2, <1>3 DEF RecordsInv, OneSubmit, Submitting
  <1> QED
    BY <1>1, <1>4, <1>5 DEF RecordsInv

\* A call goes on, or ends without a record.
LEMMA RecordsGoOn ==
    ASSUME RecordsInv, CallsOK, NEW c \in Caller, call[c] # Idle, NEW k \in CallRec \cup {Idle},
           call' = [call EXCEPT ![c] = k], GoesOnAs(c, k), k = Idle \/ call[c].at # "ask",
           UNCHANGED <<attempts, accepted>>, ran \subseteq ran',
           k.at = "place" => Exec(k.task, k.attempt, Head(k.queue)) \in ran'
    PROVE  RecordsInv'
  <1>1. /\ Registered' = Registered /\ \A t : NextAttempt(t)' = NextAttempt(t)
        /\ \A t \in Registered : LastIsActive(t)'
        /\ \A t \in Task : AcceptedBelow(t)'
    BY RecordsUnchanged
  <1>2. call'[c] = k /\ \A d \in Caller \ {c} : call'[d] = call[d]
    BY OneCall
  <1>3. c \in Busy /\ Busy' \subseteq Busy /\ Busy \subseteq Caller /\ (c \in Busy' => k # Idle)
    BY <1>2 DEF Busy
  <1>4. k # Idle => Same(k, call[c])
    BY DEF GoesOnAs
  <1>5. ASSUME NEW d \in Busy' PROVE CallAgrees(d)'
    <2>1. CASE d = c
      <3>1. CallAgrees(c) /\ Same(k, call[c]) /\ call[c].at # "ask"
        BY <1>3, <1>4, <2>1 DEF RecordsInv
      <3> QED
        BY <1>1, <1>2, <2>1, <3>1 DEF CallAgrees, Same, Exec
    <2>2. CASE d # c
      <3>1. CallAgrees(d) /\ call'[d] = call[d]
        BY <1>2, <1>3, <2>2 DEF RecordsInv
      <3> QED
        BY <1>1, <3>1 DEF CallAgrees, Exec
    <2> QED
      BY <2>1, <2>2
  <1>6. OneSubmit'
    <2>1. \A d \in Busy' : call'[d].op = call[d].op
      BY <1>2, <1>3, <1>4 DEF Same
    <2> QED
      BY <1>3, <2>1 DEF RecordsInv, OneSubmit
  <1> QED
    BY <1>1, <1>5, <1>6 DEF RecordsInv

\* What a call records: its attempt is the last one, active, and no other is active.
LEMMA RecordedLast ==
    ASSUME CallsOK, AttemptsOK, RecordsInv, NEW c \in Caller, call[c].at = "place"
    PROVE  LET q == Recorded(c) IN
           /\ Len(q) \in Nat \ {0} /\ q[Len(q)] = NewAttempt(c)
           /\ \A i \in 1..(Len(q) - 1) : ~q[i].active /\ q[i].attempt <= call[c].attempt
  <1>0. call[c] # Idle /\ c \in Busy
    BY DEF Idle, Busy
  <1>1. CallAgrees(c) /\ call[c].op \in {"submit", "restart", "ask"} /\ call[c].attempt \in Nat
    BY <1>0, BusyCall DEF RecordsInv
  <1>2. CASE call[c].op = "submit"
    <2>1. Recorded(c) = <<NewAttempt(c)>>
      BY <1>2 DEF Recorded
    <2> QED
      BY <2>1
  <1>3. CASE call[c].op = "restart"
    <2> DEFINE t == call[c].task
               p == attempts[t]
               q == Deactivated(p)
    <2>1. t \in Registered /\ call[c].attempt = Last(t).attempt + 1
      BY <1>1, <1>3 DEF CallAgrees, NextAttempt, Last
    <2>2. p \in Seq(AttemptRec) /\ Len(p) \in Nat \ {0} /\ Last(t) \in AttemptRec
      BY <2>1, NextAttemptType DEF Last
    <2>3. Last(t).attempt \in Nat /\ \A j \in 1..Len(p) : p[j] \in AttemptRec /\ p[j].attempt \in Nat
      <3>1. \A a \in AttemptRec : a.attempt \in Nat
        BY DEF AttemptRec
      <3>2. \A j \in 1..Len(p) : p[j] \in AttemptRec
        BY <2>2
      <3> QED
        BY <2>2, <3>1, <3>2
    <2>4. \A j \in 1..Len(p) : p[j].attempt <= Last(t).attempt
      <3>1. LastIsActive(t)
        BY <2>1 DEF RecordsInv
      <3>2. \A j \in 1..(Len(p) - 1) : p[j].attempt <= Last(t).attempt
        BY <3>1 DEF LastIsActive
      <3>3. p[Len(p)].attempt <= Last(t).attempt
        BY <2>3 DEF Last
      <3> QED
        BY <2>2, <3>2, <3>3
    <2>5. DOMAIN q = 1..Len(p) /\ Len(q) = Len(p) /\ q \in Seq(AttemptRec)
      <3>1. \A a \in AttemptRec : [a EXCEPT !.active = FALSE] \in AttemptRec
        BY Zenon DEF AttemptRec
      <3> QED
        BY <2>2, <3>1 DEF Deactivated
    <2>6. \A j \in 1..Len(p) : ~q[j].active /\ q[j].attempt = p[j].attempt
      <3>1. \A a \in AttemptRec : ~[a EXCEPT !.active = FALSE].active /\ [a EXCEPT !.active = FALSE].attempt = a.attempt
        BY DEF AttemptRec
      <3>2. \A j \in 1..Len(p) : q[j] = [p[j] EXCEPT !.active = FALSE]
        BY <2>2 DEF Deactivated
      <3> QED
        BY <2>3, <3>1, <3>2
    <2>7. Recorded(c) = Append(q, NewAttempt(c))
      BY <1>3 DEF Recorded
    <2> HIDE DEF q, p, t
    <2>8. /\ Len(Append(q, NewAttempt(c))) = Len(p) + 1
          /\ Append(q, NewAttempt(c))[Len(p) + 1] = NewAttempt(c)
          /\ \A j \in 1..Len(p) : Append(q, NewAttempt(c))[j] = q[j]
      BY <2>2, <2>5
    <2>9. \A j \in 1..Len(p) : q[j].attempt <= call[c].attempt
      BY <2>1, <2>3, <2>4, <2>6
    <2> QED
      BY <2>2, <2>6, <2>7, <2>8, <2>9
  <1> QED
    BY <1>1, <1>2, <1>3 DEF CallAgrees

\* A call records its placement.
LEMMA RecordsRecord ==
    ASSUME RecordsInv, RestartsApart, CallsOK, AttemptsOK, AcceptedOK, NEW c \in Caller, Record(c)
    PROVE  RecordsInv'
  <1>t. PICK t : t = call[c].task
    OBVIOUS
  <1>0. /\ call[c].at = "place" /\ call' = [call EXCEPT ![c] = Idle]
        /\ attempts' = [attempts EXCEPT ![t] = Recorded(c)]
        /\ UNCHANGED <<eligible, requests, ran, accepted>>
    BY <1>t DEF Record
  <1>1. call[c] # Idle /\ c \in Busy
    BY <1>0 DEF Idle, Busy
  <1>2. CallAgrees(c) /\ t \in Task /\ call[c].op \in {"submit", "restart"} /\ call[c].attempt \in Nat
    <2>1. CallAgrees(c) /\ t \in Task /\ call[c].op \in {"submit", "restart", "ask"} /\ call[c].attempt \in Nat
      BY <1>t, <1>1, BusyCall DEF RecordsInv
    <2> QED
      BY <1>0, <2>1 DEF CallAgrees
  <1>3. attempts'[t] = Recorded(c) /\ \A x \in Task \ {t} : attempts'[x] = attempts[x]
    BY <1>0, <1>2 DEF AttemptsOK
  <1>4. Recorded(c) # <<>>
    BY <1>0, RecordedType
  <1>5. Registered' = Registered \cup {t}
    BY <1>2, <1>3, <1>4 DEF Registered
  <1>6. Last(t)' = NewAttempt(c) /\ LastIsActive(t)'
    <2> DEFINE q == Recorded(c)
    <2>1. /\ Len(q) \in Nat \ {0} /\ q[Len(q)] = NewAttempt(c)
          /\ \A j \in 1..(Len(q) - 1) : ~q[j].active /\ q[j].attempt <= call[c].attempt
      BY <1>0, RecordedLast
    <2>2. Last(t)' = NewAttempt(c)
      BY <1>3, <2>1 DEF Last
    <2>3. /\ NewAttempt(c).active /\ NewAttempt(c).attempt = call[c].attempt
          /\ NewAttempt(c).node = Head(call[c].queue)
      BY DEF NewAttempt
    <2>4. Exec(t, call[c].attempt, Head(call[c].queue)) \in ran'
      BY <1>t, <1>0, <1>2 DEF CallAgrees
    <2> HIDE DEF q
    <2>5. attempts'[t] = q
      BY <1>3 DEF q
    <2> QED
      BY <2>1, <2>2, <2>3, <2>4, <2>5 DEF LastIsActive, Exec
  <1>7. ASSUME NEW x \in Registered' PROVE LastIsActive(x)'
    <2>1. CASE x = t
      BY <1>6, <2>1
    <2>2. CASE x # t
      <3>1. x \in Registered /\ x \in Task /\ attempts'[x] = attempts[x] /\ LastIsActive(x)
        BY <1>3, <1>5, <2>2 DEF RecordsInv, Registered
      <3> QED
        BY <1>0, <3>1 DEF LastIsActive, Last, Exec
    <2> QED
      BY <2>1, <2>2
  <1>8. Busy' = Busy \ {c} /\ \A d \in Busy' : d \in Caller /\ call'[d] = call[d]
    BY <1>0 DEF Busy, CallsOK
  <1>9. ASSUME NEW d \in Busy' PROVE CallAgrees(d)'
    <2>1. d \in Busy /\ d # c /\ d \in Caller /\ call'[d] = call[d] /\ CallAgrees(d)
      BY <1>8 DEF RecordsInv
    <2>2. call[d].op \in {"restart", "submit"} => call[d].task # t
      BY <1>t, <1>1, <1>2, <2>1 DEF CallAgrees, RecordsInv, OneSubmit, RestartsApart
    <2>3. call[d].task \in Task
      BY <2>1, BusyCall DEF Busy
    <2>4. call[d].task # t => NextAttempt(call[d].task)' = NextAttempt(call[d].task)
      BY <1>3, <2>1, <2>3 DEF NextAttempt
    <2> QED
      BY <1>0, <1>5, <2>1, <2>2, <2>4 DEF CallAgrees, Exec
  <1>10. OneSubmit'
    BY <1>8 DEF RecordsInv, OneSubmit
  <1>11. ASSUME NEW x \in Task PROVE AcceptedBelow(x)'
    <2>0. AcceptedBelow(x) /\ accepted[x] \in Nat /\ accepted' = accepted
      BY <1>0 DEF RecordsInv, AcceptedOK
    <2>1. CASE x = t
      <3>1. Last(t)'.attempt = call[c].attempt /\ t \in Registered'
        BY <1>5, <1>6 DEF NewAttempt
      <3>2. accepted[t] <= call[c].attempt
        <4>1. CASE call[c].op = "submit"
          BY <1>t, <1>2, <2>0, <2>1, <4>1 DEF CallAgrees, AcceptedBelow
        <4>2. CASE call[c].op = "restart"
          <5>1. t \in Registered /\ call[c].attempt = Last(t).attempt + 1
            BY <1>t, <1>2, <4>2 DEF CallAgrees, NextAttempt, Last
          <5>2. Last(t).attempt \in Nat
            BY <5>1, NextAttemptType DEF Last, AttemptRec
          <5> QED
            BY <2>0, <2>1, <5>1, <5>2 DEF AcceptedBelow
        <4> QED
          BY <1>2, <4>1, <4>2
      <3> QED
        BY <2>0, <2>1, <3>1, <3>2 DEF AcceptedBelow
    <2>2. CASE x # t
      <3>1. attempts'[x] = attempts[x] /\ (x \in Registered' <=> x \in Registered)
        BY <1>3, <1>5, <2>2
      <3> QED
        BY <2>0, <3>1 DEF AcceptedBelow, Last
    <2> QED
      BY <2>1, <2>2
  <1> QED
    BY <1>7, <1>9, <1>10, <1>11 DEF RecordsInv

\* The active attempt is the last one.
LEMMA ActiveIsLast ==
    ASSUME AttemptsOK, RecordsInv, NEW t \in Registered
    PROVE  ActiveAttempt(t) = {Last(t)}
  <1> DEFINE p == attempts[t]
             L == Len(p)
  <1>1. p \in Seq(AttemptRec) /\ L \in Nat \ {0} /\ DOMAIN p = 1..L
    BY NextAttemptType
  <1>2. LastIsActive(t)
    BY DEF RecordsInv
  <1>3. p[L].active /\ \A j \in 1..(L - 1) : ~p[j].active
    BY <1>2 DEF LastIsActive, Last
  <1> HIDE DEF L, p
  <1>4. ASSUME NEW j \in DOMAIN p, p[j].active PROVE j = L
    BY <1>1, <1>3, <1>4
  <1>5. L \in DOMAIN p /\ \A k \in (L + 1)..L : ~p[k].active
    BY <1>1
  <1> QED
    BY <1>3, <1>4, <1>5 DEF ActiveAttempt, Last, p, L

\* A result that is accepted is one of the last attempt.
LEMMA AcceptedIsLast ==
    ASSUME AttemptsOK, RanOK, RecordsInv, NEW r \in ran, CurrentResult(r)
    PROVE  r.task \in Registered /\ r.attempt = Last(r.task).attempt
  <1>1. PICK a \in ActiveAttempt(r.task) : a.attempt = r.attempt /\ a.node = r.node
    BY DEF CurrentResult
  <1>2. r.task \in Task /\ attempts[r.task] \in Seq(AttemptRec)
    BY DEF RanOK, ExecRec, AttemptsOK
  <1>3. r.task \in Registered
    BY <1>1, <1>2 DEF ActiveAttempt, Registered
  <1> QED
    BY <1>1, <1>3, ActiveIsLast

\* accept_result keeps the invariant.
LEMMA RecordsAccept ==
    ASSUME TypeOK, RecordsInv, NEW r \in ran, accept_result(r)
    PROVE  RecordsInv' /\ \A t \in Task : accepted'[t] >= accepted[t]
  <1> USE DEF TypeOK
  <1>0. PICK x : x = r.task
    OBVIOUS
  <1>1. /\ CurrentResult(r) /\ UNCHANGED <<attempts, call, ran>>
        /\ accepted' = [accepted EXCEPT ![x] = r.attempt]
    BY <1>0 DEF accept_result
  <1>2. x \in Registered /\ r.attempt = Last(x).attempt /\ x \in Task
    BY <1>0, <1>1, AcceptedIsLast DEF Registered
  <1>3. Last(x).attempt \in Nat /\ accepted[x] \in Nat /\ accepted[x] <= Last(x).attempt
    <2>1. Last(x) \in AttemptRec
      BY <1>2, NextAttemptType DEF Last
    <2>2. accepted[x] \in Nat /\ AcceptedBelow(x)
      BY <1>2 DEF AcceptedOK, RecordsInv
    <2> QED
      BY <1>2, <2>1, <2>2 DEF AttemptRec, AcceptedBelow
  <1>4. accepted'[x] = Last(x).attempt /\ \A t \in Task \ {x} : accepted'[t] = accepted[t]
    BY <1>1, <1>2 DEF AcceptedOK
  <1>5. \A t \in Task : accepted'[t] >= accepted[t]
    <2> SUFFICES ASSUME NEW t \in Task PROVE accepted'[t] >= accepted[t]
      OBVIOUS
    <2>1. accepted[t] \in Nat
      BY DEF AcceptedOK
    <2> QED
      BY <1>3, <1>4, <2>1
  <1>6. /\ Registered' = Registered /\ \A t : NextAttempt(t)' = NextAttempt(t) /\ Last(t)' = Last(t)
        /\ \A t \in Registered : LastIsActive(t)'
    BY <1>1, RecordsUnchanged
  <1>7. ASSUME NEW t \in Task PROVE AcceptedBelow(t)'
    <2>1. CASE t = x
      BY <1>2, <1>3, <1>4, <1>6, <2>1 DEF AcceptedBelow
    <2>2. CASE t # x
      BY <1>4, <1>6, <2>2 DEF AcceptedBelow, RecordsInv
    <2> QED
      BY <2>1, <2>2
  <1>8. Busy' = Busy
    BY <1>1 DEF Busy
  <1>9. ASSUME NEW c \in Busy PROVE CallAgrees(c)'
    <2>1. CallAgrees(c)
      BY DEF RecordsInv
    <2> QED
      BY <1>1, <1>6, <2>1 DEF CallAgrees, Exec
  <1>10. OneSubmit'
    BY <1>1, <1>8 DEF RecordsInv, OneSubmit
  <1> QED
    BY <1>5, <1>6, <1>7, <1>8, <1>9, <1>10 DEF RecordsInv

\* A call that begins, one that goes on and one that records its placement.
LEMMA RecordsCalls ==
    ASSUME ProcessInv, RecordsInv, RestartsApart, NEW c \in Caller, NEW t \in Task,
           \/ Submit(c, t) \/ CancelOrOutcome(c, t) \/ restart_after_disconnect(c, t)
           \/ c \in Busy /\ (CallStep(c) \/ DropCall(c))
    PROVE  RecordsInv' /\ UNCHANGED accepted
  <1>0. CallsOK /\ AttemptsOK /\ AcceptedOK /\ RequestsOK /\ RanOK
    BY DEF ProcessInv, TypeOK
  <1>1. CASE Submit(c, t)
    <2>1. submit(c, t) /\ GateFree
      BY <1>1 DEF Submit
    <2>2. PICK k \in CallRec : /\ Begins(c, k) /\ k.op = "submit" /\ k.task = t /\ k.attempt = 1
                               /\ k.at \in {"local", "send"} /\ k.queue \in Seq(eligible)
      BY <1>0, <2>1, SubmitEffect
    <2>3. t \notin Registered /\ ~Submitting /\ UNCHANGED <<attempts, ran, accepted>>
      BY <2>1 DEF submit, GateFree
    <2> QED
      BY <1>0, <2>2, <2>3, RecordsBegin
  <1>2. CASE CancelOrOutcome(c, t)
    <2>1. ask(c, t) /\ UNCHANGED <<attempts, ran, accepted>>
      BY <1>2 DEF CancelOrOutcome, ask
    <2>2. PICK k \in CallRec : Begins(c, k) /\ k.op = "ask" /\ k.at = "ask"
      BY <1>0, <2>1, AskEffect
    <2> QED
      BY <1>0, <2>1, <2>2, RecordsBegin
  <1>3. CASE restart_after_disconnect(c, t)
    <2>1. t \in Registered /\ UNCHANGED <<attempts, ran, accepted>>
      BY <1>0, <1>3 DEF restart_after_disconnect
    <2>2. PICK k \in CallRec : /\ Begins(c, k) /\ k.op = "restart" /\ k.task = t
                               /\ k.attempt = NextAttempt(t) /\ k.at \in {"local", "send"}
      BY <1>0, <1>3, RestartEffect
    <2> QED
      BY <1>0, <2>1, <2>2, RecordsBegin
  <1>4. CASE c \in Busy /\ (CallStep(c) \/ DropCall(c))
    <2>0. call[c] # Idle
      BY <1>4 DEF Busy
    <2>1. CASE CallSends(c)
      <3>1. Send(c) /\ UNCHANGED <<attempts, ran, accepted>> /\ call[c].at = "send"
        BY <2>1 DEF CallSends, Send
      <3>2. PICK k \in CallRec : /\ call' = [call EXCEPT ![c] = k] /\ Same(k, call[c])
                                 /\ k.at = "await" /\ k.queue = call[c].queue
        BY <1>0, <3>1, SendEffect
      <3>3. GoesOnAs(c, k)
        BY <3>1, <3>2 DEF GoesOnAs
      <3> QED
        BY <1>0, <2>0, <3>1, <3>2, <3>3, RecordsGoOn
    <2>2. CASE CallFails(c)
      <3>1. call[c].at = "await" /\ GoesOn(c) /\ UNCHANGED <<attempts, ran, accepted>>
        BY <2>2 DEF CallFails, TransportFails
      <3>2. PICK k \in CallRec : /\ call' = [call EXCEPT ![c] = k] /\ Same(k, call[c])
                                 /\ k.at \in {"local", "send"} /\ k.queue = Tail(call[c].queue)
        BY <1>0, <3>1, GoesOnEffect
      <3>3. GoesOnAs(c, k)
        BY <3>1, <3>2 DEF GoesOnAs
      <3> QED
        BY <1>0, <2>0, <3>1, <3>2, <3>3, RecordsGoOn
    <2>3. CASE \/ CallAnswered(c) \/ DropCall(c)
               \/ SubmitLocal(c) /\ ReturnsError(c) /\ UNCHANGED ran
      <3>1. call' = [call EXCEPT ![c] = Idle] /\ UNCHANGED <<attempts, ran, accepted>>
        BY <2>3 DEF CallAnswered, Answered, DropCall, ReturnsError, SubmitLocal
      <3>2. GoesOnAs(c, Idle) /\ Idle.at # "place"
        BY DEF GoesOnAs, Idle
      <3> QED
        BY <1>0, <2>0, <3>1, <3>2, RecordsGoOn
    <2>4. CASE SubmitLocal(c) /\ Placed(c, Origin) /\ ran' = ran \cup {Exec(call[c].task, call[c].attempt, Origin)}
      <3>1. call[c].at = "local" /\ UNCHANGED <<attempts, accepted>> /\ Origin \in Node
        BY <2>4 DEF SubmitLocal, Node
      <3>2. PICK k \in CallRec : /\ call' = [call EXCEPT ![c] = k] /\ Same(k, call[c])
                                 /\ k.at = "place" /\ k.queue = <<Origin>> /\ Head(k.queue) = Origin
        BY <1>0, <2>0, <2>4, <3>1, PlacedEffect
      <3>3. GoesOnAs(c, k) /\ Exec(k.task, k.attempt, Head(k.queue)) \in ran' /\ ran \subseteq ran'
        BY <2>4, <3>2 DEF GoesOnAs, Same
      <3> QED
        BY <1>0, <2>0, <3>1, <3>2, <3>3, RecordsGoOn
    <2>5. CASE Record(c)
      <3>1. UNCHANGED accepted
        BY <2>5 DEF Record
      <3> QED
        BY <1>0, <2>5, <3>1, RecordsRecord
    <2> QED
      BY <1>4, <2>1, <2>2, <2>3, <2>4, <2>5 DEF CallStep, CallGoesOn, SubmitLocal
  <1> QED
    BY <1>1, <1>2, <1>3, <1>4

\* A worker takes a request.
LEMMA RecordsServe ==
    ASSUME ProcessInv, RecordsInv, NEW r \in requests, WorkerServes(r)
    PROVE  RecordsInv' /\ UNCHANGED accepted
  <1>0. CallsOK /\ AttemptsOK /\ AcceptedOK /\ RequestsOK /\ RanOK
    BY DEF ProcessInv, TypeOK
  <1>1. WorkerRuns(r) \/ WorkerRefuses(r)
    BY DEF WorkerServes
  <1>2. ran \subseteq ran' /\ UNCHANGED <<attempts, accepted>>
    BY <1>0, <1>1, ServesEffect
  <1>3. CASE UNCHANGED call
    BY <1>2, <1>3, RecordsStutter
  <1>4. ASSUME Waiting(r), NEW k \in CallRec \cup {Idle}, call' = [call EXCEPT ![r.caller] = k],
               GoesOnAs(r.caller, k), k.at = "place" => k.queue = <<r.exec.node>> /\ ran' = ran \cup {r.exec}
        PROVE  RecordsInv'
    <2>1. /\ r.caller \in Caller /\ call[r.caller] # Idle /\ call[r.caller].at = "await"
          /\ Request(r.caller) = r
      BY <1>0, <1>4 DEF RequestsOK, RequestRec, Waiting, Idle
    <2>2. ASSUME k.at = "place" PROVE Exec(k.task, k.attempt, Head(k.queue)) \in ran'
      <3>1. Same(k, call[r.caller])
        BY <1>4, <2>2 DEF GoesOnAs, Idle
      <3>2. r.exec = Exec(call[r.caller].task, call[r.caller].attempt, Head(call[r.caller].queue))
        BY <2>1 DEF Request
      <3>3. Head(k.queue) = r.exec.node /\ r.exec \in ran'
        BY <1>4, <2>2
      <3> QED
        BY <3>1, <3>2, <3>3 DEF Exec, Same
    <2> QED
      BY <1>0, <1>2, <1>4, <2>1, <2>2, RecordsGoOn
  <1> QED
    BY <1>0, <1>1, <1>2, <1>3, <1>4, ServesEffect

\* Every step keeps the records in order, and accepted never goes back.
LEMMA RecordsInvStep ==
    ProcessInv /\ RecordsInv /\ RestartsApart /\ [ProcessNext]_allvars
        => RecordsInv' /\ [\A t \in Task : accepted'[t] >= accepted[t]]_vars
  <1> SUFFICES ASSUME ProcessInv, RecordsInv, RestartsApart, [ProcessNext]_allvars
               PROVE  RecordsInv' /\ \A t \in Task : accepted'[t] >= accepted[t]
    OBVIOUS
  <1>0. \A t \in Task : accepted[t] \in Nat
    BY DEF ProcessInv, TypeOK, AcceptedOK
  <1>1. UNCHANGED accepted => \A t \in Task : accepted'[t] >= accepted[t]
    BY <1>0
  <1>2. ASSUME UNCHANGED <<attempts, call, ran, accepted>>
        PROVE  RecordsInv' /\ \A t \in Task : accepted'[t] >= accepted[t]
    BY <1>1, <1>2, RecordsStutter
  <1>3. CASE \/ UNCHANGED allvars \/ accept \/ Disconnect \/ Health \/ Shutdown \/ ServerStep
             \/ PulseTask \/ PulseOne \/ StopOne
    <2>1. UNCHANGED <<attempts, call, ran, accepted>>
      BY <1>3 DEF allvars, vars, accept, Disconnect, Health, Shutdown, ServerStep, Reply, ShutdownWorkers,
                  ServerGoes, PulseTask, PulseOne, StopOne
    <2> QED
      BY <1>2, <2>1
  <1>4. CASE \E c \in Caller, t \in Task :
                 \/ Submit(c, t) \/ CancelOrOutcome(c, t)
                 \/ Running /\ restart_after_disconnect(c, t) /\ UNCHANGED <<pvars, carried>>
    BY <1>1, <1>4, RecordsCalls
  <1>5. ASSUME NEW c \in Busy, CallStep(c) \/ DropCall(c)
        PROVE  RecordsInv' /\ \A t \in Task : accepted'[t] >= accepted[t]
    <2>1. c \in Caller /\ call[c].task \in Task
      BY BusyCall DEF Busy, ProcessInv, TypeOK
    <2> QED
      BY <1>1, <1>5, <2>1, RecordsCalls
  <1>6. ASSUME NEW r \in requests, WorkerServes(r)
        PROVE  RecordsInv' /\ \A t \in Task : accepted'[t] >= accepted[t]
    BY <1>1, <1>6, RecordsServe
  <1>7. ASSUME NEW r \in ran, accept_result(r)
        PROVE  RecordsInv' /\ \A t \in Task : accepted'[t] >= accepted[t]
    BY <1>7, RecordsAccept DEF ProcessInv
  <1> QED
    BY <1>3, <1>4, <1>5, <1>6, <1>7 DEF ProcessNext

\* As long as restarts of one task do not overlap, the active attempt of every registered
\* task is the newest, the only one, and was given to the host of its node, whatever
\* requests were lost, timed out, were refused or ran late.
THEOREM ActiveIsNewest == ProcessSpec /\ []RestartsApart => []ActiveIsNewestAndRan
  <1>1. ProcessInv /\ RecordsInv => ActiveIsNewestAndRan
    <2> SUFFICES ASSUME ProcessInv, RecordsInv, NEW t \in Registered
                 PROVE  \E a \in ActiveAttempt(t) :
                            /\ Exec(t, a.attempt, a.node) \in ran
                            /\ \A i \in DOMAIN attempts[t] :
                                  /\ attempts[t][i].attempt <= a.attempt
                                  /\ attempts[t][i].active => attempts[t][i] = a
      BY DEF ActiveIsNewestAndRan
    <2>0. AttemptsOK
      BY DEF ProcessInv, TypeOK
    <2>1. ActiveAttempt(t) = {Last(t)}
      BY <2>0, ActiveIsLast
    <2>2. LastIsActive(t)
      BY DEF RecordsInv
    <2> DEFINE p == attempts[t]
               L == Len(p)
    <2>3. p \in Seq(AttemptRec) /\ L \in Nat \ {0} /\ DOMAIN p = 1..L /\ Last(t) \in AttemptRec
      BY <2>0, NextAttemptType DEF Last
    <2>4. Last(t).attempt \in Nat
      BY <2>3 DEF AttemptRec
    <2>5. ASSUME NEW i \in DOMAIN attempts[t]
          PROVE  /\ attempts[t][i].attempt <= Last(t).attempt
                 /\ attempts[t][i].active => attempts[t][i] = Last(t)
      <3>1. CASE i = L
        BY <2>4, <3>1 DEF Last
      <3>2. CASE i # L
        <4>1. i \in 1..(L - 1)
          BY <2>3, <3>2
        <4> QED
          BY <2>2, <4>1 DEF LastIsActive
      <3> QED
        BY <3>1, <3>2
    <2>6. Exec(t, Last(t).attempt, Last(t).node) \in ran
      BY <2>2 DEF LastIsActive
    <2> QED
      BY <2>1, <2>5, <2>6
  <1> QED
    BY <1>1, ProcessInvariant, RecordsInvInit, RecordsInvStep, PTL DEF ProcessSpec

\* As long as restarts of one task do not overlap, accept_result lets no result of an
\* older attempt through after one of a newer attempt, in whatever order they arrive.
THEOREM ResultsAcceptedInOrder == ProcessSpec /\ []RestartsApart => AcceptedInOrder
  BY ProcessInvariant, RecordsInvInit, RecordsInvStep, PTL DEF ProcessSpec, AcceptedInOrder

-----------------------------------------------------------------------------
(* The records.  submit looks for room and for a record of the same id,      *)
(* awaits the workers, and then inserts its record without looking again.    *)
(* What keeps a second submit from doing so in between is worker_gate, which *)
(* the management server holds over the whole submit.  Nothing here needs    *)
(* restarts to be apart.                                                     *)

\* There are never more records than max_tasks.
TasksBounded == IsFiniteSet(Registered) /\ Cardinality(Registered) <= MaxTasks

\* q has the attempts of p, with their nodes, and perhaps more.
Extends(p, q) ==
    /\ Len(p) <= Len(q)
    /\ \A i \in 1..Len(p) : q[i].attempt = p[i].attempt /\ q[i].node = p[i].node

\* No record is replaced: its attempts stay, each with its node.
HistoryKept == [][\A t \in Task : Extends(attempts[t], attempts'[t])]_vars

\* What the call of a caller has found in the records still holds.
FoundHolds(c) ==
    /\ call[c].op = "submit" => call[c].task \notin Registered /\ HasRoom
    /\ call[c].op = "restart" => call[c].task \in Registered
    /\ call[c].op = "ask" => call[c].at = "ask"

RoomInv == TasksBounded /\ OneSubmit /\ \A c \in Busy : FoundHolds(c)

\* A call that begins has looked at the records just now.
Looked(k) ==
    /\ k.op = "submit" => k.task \notin Registered /\ HasRoom /\ ~Submitting
    /\ k.op = "restart" => k.task \in Registered
    /\ k.op = "ask" => k.at = "ask"

\* The kinds of steps, as far as calls and records go.
CallBegins(c) == \E k \in CallRec : Begins(c, k) /\ Looked(k)
CallGoesOnOrEnds(c) ==
    /\ call[c] # Idle
    /\ \E k \in CallRec \cup {Idle} :
          /\ call' = [call EXCEPT ![c] = k]
          /\ k = Idle \/ (Same(k, call[c]) /\ call[c].at # "ask")

\* A step of a caller is of one of the kinds.
LEMMA CallerSteps ==
    ASSUME ProcessInv, NEW c \in Caller, NEW t \in Task,
           \/ Submit(c, t) \/ CancelOrOutcome(c, t) \/ restart_after_disconnect(c, t)
           \/ c \in Busy /\ (CallStep(c) \/ DropCall(c))
    PROVE  \/ UNCHANGED attempts /\ (CallBegins(c) \/ CallGoesOnOrEnds(c))
           \/ Record(c)
  <1>0. CallsOK /\ AttemptsOK
    BY DEF ProcessInv, TypeOK
  <1>1. CASE Submit(c, t)
    <2>1. submit(c, t) /\ GateFree
      BY <1>1 DEF Submit
    <2>2. PICK k \in CallRec : Begins(c, k) /\ k.op = "submit" /\ k.task = t
      BY <1>0, <2>1, SubmitEffect
    <2>3. t \notin Registered /\ HasRoom /\ ~Submitting /\ UNCHANGED attempts
      BY <2>1 DEF submit, GateFree
    <2> QED
      BY <2>2, <2>3 DEF CallBegins, Looked
  <1>2. CASE CancelOrOutcome(c, t)
    <2>1. ask(c, t) /\ UNCHANGED attempts
      BY <1>2 DEF CancelOrOutcome, ask
    <2>2. PICK k \in CallRec : Begins(c, k) /\ k.op = "ask" /\ k.at = "ask"
      BY <1>0, <2>1, AskEffect
    <2> QED
      BY <2>1, <2>2 DEF CallBegins, Looked
  <1>3. CASE restart_after_disconnect(c, t)
    <2>1. PICK k \in CallRec : Begins(c, k) /\ k.op = "restart" /\ k.task = t
      BY <1>0, <1>3, RestartEffect
    <2>2. t \in Registered /\ UNCHANGED attempts
      BY <1>3 DEF restart_after_disconnect
    <2> QED
      BY <2>1, <2>2 DEF CallBegins, Looked
  <1>4. CASE c \in Busy /\ (CallStep(c) \/ DropCall(c))
    <2>0. call[c] # Idle
      BY <1>4 DEF Busy
    <2>1. CASE CallSends(c)
      <3>1. Send(c) /\ UNCHANGED attempts /\ call[c].at = "send"
        BY <2>1 DEF CallSends, Send
      <3>2. PICK k \in CallRec : call' = [call EXCEPT ![c] = k] /\ Same(k, call[c])
        BY <1>0, <3>1, SendEffect
      <3> QED
        BY <2>0, <3>1, <3>2 DEF CallGoesOnOrEnds
    <2>2. CASE CallFails(c)
      <3>1. call[c].at = "await" /\ GoesOn(c) /\ UNCHANGED attempts
        BY <2>2 DEF CallFails, TransportFails
      <3>2. PICK k \in CallRec : call' = [call EXCEPT ![c] = k] /\ Same(k, call[c])
        BY <1>0, <3>1, GoesOnEffect
      <3> QED
        BY <2>0, <3>1, <3>2 DEF CallGoesOnOrEnds
    <2>3. CASE \/ CallAnswered(c) \/ DropCall(c)
               \/ SubmitLocal(c) /\ ReturnsError(c)
      <3>1. call' = [call EXCEPT ![c] = Idle] /\ UNCHANGED attempts
        BY <2>3 DEF CallAnswered, Answered, DropCall, ReturnsError, SubmitLocal
      <3> QED
        BY <2>0, <3>1 DEF CallGoesOnOrEnds
    <2>4. CASE SubmitLocal(c) /\ Placed(c, Origin)
      <3>1. call[c].at = "local" /\ UNCHANGED attempts /\ Origin \in Node
        BY <2>4 DEF SubmitLocal, Node
      <3>2. PICK k \in CallRec : call' = [call EXCEPT ![c] = k] /\ Same(k, call[c])
        BY <1>0, <2>0, <2>4, <3>1, PlacedEffect
      <3> QED
        BY <2>0, <3>1, <3>2 DEF CallGoesOnOrEnds
    <2> QED
      BY <1>4, <2>1, <2>2, <2>3, <2>4 DEF CallStep, CallGoesOn, SubmitLocal
  <1> QED
    BY <1>1, <1>2, <1>3, <1>4

\* Every step is of one of the kinds.
LEMMA EveryStep ==
    ASSUME ProcessInv, [ProcessNext]_allvars
    PROVE  \/ UNCHANGED <<attempts, call>>
           \/ \E c \in Caller : \/ UNCHANGED attempts /\ (CallBegins(c) \/ CallGoesOnOrEnds(c))
                                \/ Record(c)
  <1>0. CallsOK /\ RequestsOK /\ RanOK
    BY DEF ProcessInv, TypeOK
  <1>1. CASE \/ UNCHANGED allvars \/ accept \/ Disconnect \/ Health \/ Shutdown \/ ServerStep
             \/ PulseTask \/ PulseOne \/ StopOne
    BY <1>1 DEF allvars, vars, accept, Disconnect, Health, Shutdown, ServerStep, Reply, ShutdownWorkers,
                ServerGoes, PulseTask, PulseOne, StopOne
  <1>2. CASE \E c \in Caller, t \in Task :
                 \/ Submit(c, t) \/ CancelOrOutcome(c, t)
                 \/ Running /\ restart_after_disconnect(c, t) /\ UNCHANGED <<pvars, carried>>
    BY <1>2, CallerSteps
  <1>3. ASSUME NEW c \in Busy, CallStep(c) \/ DropCall(c)
        PROVE  (UNCHANGED attempts /\ (CallBegins(c) \/ CallGoesOnOrEnds(c))) \/ Record(c)
    <2>1. c \in Caller /\ call[c].task \in Task
      BY <1>0, BusyCall DEF Busy
    <2> QED
      BY <1>3, <2>1, CallerSteps
  <1>4. ASSUME NEW r \in requests, WorkerServes(r), ~UNCHANGED call
        PROVE  r.caller \in Caller /\ UNCHANGED attempts /\ CallGoesOnOrEnds(r.caller)
    <2>1. WorkerRuns(r) \/ WorkerRefuses(r)
      BY <1>4 DEF WorkerServes
    <2>2. /\ Waiting(r) /\ UNCHANGED attempts
          /\ \E k \in CallRec \cup {Idle} : call' = [call EXCEPT ![r.caller] = k] /\ GoesOnAs(r.caller, k)
      BY <1>0, <1>4, <2>1, ServesEffect
    <2>3. r.caller \in Caller /\ call[r.caller].at = "await" /\ call[r.caller] # Idle
      BY <1>0, <2>2 DEF RequestsOK, RequestRec, Waiting, Idle
    <2> QED
      BY <2>2, <2>3 DEF CallGoesOnOrEnds, GoesOnAs
  <1>5. ASSUME NEW r \in requests, WorkerServes(r)
        PROVE  UNCHANGED attempts
    BY <1>5 DEF WorkerServes, WorkerRuns, WorkerRefuses
  <1>6. ASSUME NEW r \in ran, accept_result(r)
        PROVE  UNCHANGED <<attempts, call>>
    BY <1>6 DEF accept_result
  <1>7. Busy \subseteq Caller
    BY DEF Busy
  <1> QED
    BY <1>1, <1>2, <1>3, <1>4, <1>5, <1>6, <1>7 DEF ProcessNext

\* The initial states satisfy the invariant.
LEMMA RoomInvInit == ProcessInit => RoomInv
  <1> SUFFICES ASSUME ProcessInit PROVE RoomInv
    OBVIOUS
  <1>1. Registered = {} /\ Busy = {}
    BY DEF ProcessInit, Init, Registered, Busy
  <1>2. TasksBounded
    BY <1>1, FS_EmptySet, CoordinatorConstants DEF TasksBounded
  <1> QED
    BY <1>1, <1>2 DEF RoomInv, OneSubmit

\* A call begins: what it has found in the records is so now.
LEMMA RoomBegins ==
    ASSUME CallsOK, RoomInv, NEW c \in Caller, CallBegins(c), UNCHANGED attempts
    PROVE  RoomInv'
  <1>1. PICK k \in CallRec : Begins(c, k) /\ Looked(k)
    BY DEF CallBegins
  <1>2. call'[c] = k /\ \A d \in Caller \ {c} : call'[d] = call[d]
    BY <1>1, OneCall DEF Begins
  <1>3. Busy' \subseteq Busy \cup {c} /\ Busy \subseteq Caller
    BY <1>2 DEF Busy
  <1>4. Registered' = Registered
    BY DEF Registered
  <1>5. OneSubmit'
    BY <1>1, <1>2, <1>3 DEF RoomInv, OneSubmit, Looked, Submitting
  <1>6. ASSUME NEW d \in Busy' PROVE FoundHolds(d)'
    BY <1>1, <1>2, <1>3, <1>4 DEF RoomInv, FoundHolds, Looked, HasRoom
  <1> QED
    BY <1>4, <1>5, <1>6 DEF RoomInv, TasksBounded

\* A call goes on with the same task, or ends.
LEMMA RoomGoesOn ==
    ASSUME CallsOK, RoomInv, NEW c \in Caller, CallGoesOnOrEnds(c), UNCHANGED attempts
    PROVE  RoomInv'
  <1>1. PICK k \in CallRec \cup {Idle} : /\ call' = [call EXCEPT ![c] = k]
                                         /\ k = Idle \/ (Same(k, call[c]) /\ call[c].at # "ask")
    BY DEF CallGoesOnOrEnds
  <1>2. call'[c] = k /\ \A d \in Caller \ {c} : call'[d] = call[d]
    BY <1>1, OneCall
  <1>3. c \in Busy /\ Busy' \subseteq Busy /\ Busy \subseteq Caller /\ (c \in Busy' => k # Idle)
    BY <1>2 DEF Busy, CallGoesOnOrEnds
  <1>4. Registered' = Registered
    BY DEF Registered
  <1>5. OneSubmit'
    BY <1>1, <1>2, <1>3 DEF RoomInv, OneSubmit, Same
  <1>6. ASSUME NEW d \in Busy' PROVE FoundHolds(d)'
    <2>1. FoundHolds(d)
      BY <1>3 DEF RoomInv
    <2>2. CASE d = c
      BY <1>1, <1>2, <1>3, <1>4, <2>1, <2>2 DEF FoundHolds, HasRoom, Same
    <2>3. CASE d # c
      BY <1>2, <1>3, <1>4, <2>1, <2>3 DEF FoundHolds, HasRoom
    <2> QED
      BY <2>2, <2>3
  <1> QED
    BY <1>4, <1>5, <1>6 DEF RoomInv, TasksBounded

\* A record extends itself.
LEMMA ExtendsItself ==
    ASSUME AttemptsOK, NEW t \in Task
    PROVE  Extends(attempts[t], attempts[t])
  <1>1. Len(attempts[t]) \in Nat
    BY DEF AttemptsOK
  <1> QED
    BY <1>1 DEF Extends

\* What a call records has the attempts of the record before.
LEMMA RecordedExtends ==
    ASSUME CallsOK, AttemptsOK, NEW c \in Caller, FoundHolds(c), call[c].at = "place"
    PROVE  Extends(attempts[call[c].task], Recorded(c))
  <1> DEFINE p == attempts[call[c].task]
             q == Deactivated(p)
  <1>1. call[c] # Idle
    BY DEF Idle
  <1>2. call[c].task \in Task /\ call[c].op \in {"submit", "restart"}
    BY <1>1, BusyCall DEF FoundHolds
  <1>3. p \in Seq(AttemptRec) /\ Len(p) \in Nat
    BY <1>2 DEF AttemptsOK
  <1>4. CASE call[c].op = "submit"
    <2>1. p = <<>> /\ Len(p) = 0
      BY <1>2, <1>4 DEF FoundHolds, Registered
    <2>2. Len(Recorded(c)) = 1
      BY <1>4 DEF Recorded
    <2> QED
      BY <2>1, <2>2 DEF Extends
  <1>5. CASE call[c].op = "restart"
    <2>1. Recorded(c) = Append(q, NewAttempt(c))
      BY <1>5 DEF Recorded
    <2>2. DOMAIN q = 1..Len(p) /\ \A i \in 1..Len(p) : q[i] = [p[i] EXCEPT !.active = FALSE]
      BY <1>3 DEF Deactivated
    <2>3. \A a \in AttemptRec : [a EXCEPT !.active = FALSE] \in AttemptRec
      BY Zenon DEF AttemptRec
    <2>4. \A a \in AttemptRec : /\ [a EXCEPT !.active = FALSE].attempt = a.attempt
                                /\ [a EXCEPT !.active = FALSE].node = a.node
      BY DEF AttemptRec
    <2>5. \A i \in 1..Len(p) : p[i] \in AttemptRec
      BY <1>3
    <2>6. q \in Seq(AttemptRec) /\ Len(q) = Len(p)
      BY <1>3, <2>3 DEF Deactivated
    <2> HIDE DEF q, p
    <2>7. \A i \in 1..Len(p) : q[i].attempt = p[i].attempt /\ q[i].node = p[i].node
      BY <2>2, <2>4, <2>5
    <2>8. /\ Len(Append(q, NewAttempt(c))) = Len(p) + 1
          /\ \A i \in 1..Len(p) : Append(q, NewAttempt(c))[i] = q[i]
      BY <1>3, <2>6
    <2> QED
      BY <1>3, <2>1, <2>7, <2>8 DEF Extends, p
  <1> QED
    BY <1>2, <1>4, <1>5

\* A submit that records its placement fills one place; a restart fills none.
LEMMA RoomRecord ==
    ASSUME CallsOK, AttemptsOK, RoomInv, NEW c \in Caller, Record(c)
    PROVE  RoomInv' /\ \A t \in Task : Extends(attempts[t], attempts'[t])
  <1>t. PICK t : t = call[c].task
    OBVIOUS
  <1>0. /\ call[c].at = "place" /\ call' = [call EXCEPT ![c] = Idle]
        /\ attempts' = [attempts EXCEPT ![t] = Recorded(c)]
    BY <1>t DEF Record
  <1>1. call[c] # Idle /\ c \in Busy
    BY <1>0 DEF Idle, Busy
  <1>2. FoundHolds(c) /\ t \in Task /\ call[c].op \in {"submit", "restart"}
    BY <1>t, <1>0, <1>1, BusyCall DEF RoomInv, FoundHolds
  <1>3. attempts'[t] = Recorded(c) /\ \A x \in Task \ {t} : attempts'[x] = attempts[x]
    BY <1>0, <1>2 DEF AttemptsOK
  <1>4. Registered' = Registered \cup {t}
    BY <1>0, <1>2, <1>3, RecordedType DEF Registered
  <1>5. Busy' = Busy \ {c} /\ \A d \in Busy' : d \in Caller /\ call'[d] = call[d]
    BY <1>0 DEF Busy, CallsOK
  <1>6. OneSubmit'
    BY <1>5 DEF RoomInv, OneSubmit
  <1>7. TasksBounded'
    <2>1. CASE call[c].op = "submit"
      <3>1. t \notin Registered /\ Cardinality(Registered) < MaxTasks
        BY <1>t, <1>2, <2>1 DEF FoundHolds, HasRoom
      <3>2. IsFiniteSet(Registered) /\ Cardinality(Registered) \in Nat
        BY FS_CardinalityType DEF RoomInv, TasksBounded
      <3>3. /\ IsFiniteSet(Registered \cup {t})
            /\ Cardinality(Registered \cup {t}) = Cardinality(Registered) + 1
        BY <3>1, <3>2, FS_AddElement
      <3> QED
        BY <1>4, <3>1, <3>2, <3>3, CoordinatorConstants DEF TasksBounded
    <2>2. CASE call[c].op = "restart"
      BY <1>t, <1>2, <1>4, <2>2 DEF FoundHolds, RoomInv, TasksBounded
    <2> QED
      BY <1>2, <2>1, <2>2
  <1>8. ASSUME NEW d \in Busy' PROVE FoundHolds(d)'
    <2>1. d \in Busy /\ d # c /\ call'[d] = call[d] /\ FoundHolds(d)
      BY <1>5 DEF RoomInv
    <2>2. CASE call[c].op = "submit"
      <3>1. call[d].op # "submit"
        BY <1>1, <2>1, <2>2 DEF RoomInv, OneSubmit
      <3> QED
        BY <1>4, <2>1, <3>1 DEF FoundHolds
    <2>3. CASE call[c].op = "restart"
      <3>1. Registered' = Registered
        BY <1>t, <1>2, <1>4, <2>3 DEF FoundHolds
      <3> QED
        BY <2>1, <3>1 DEF FoundHolds, HasRoom
    <2> QED
      BY <1>2, <2>2, <2>3
  <1>9. ASSUME NEW x \in Task PROVE Extends(attempts[x], attempts'[x])
    <2>1. CASE x = t
      BY <1>t, <1>0, <1>2, <1>3, <2>1, RecordedExtends
    <2>2. CASE x # t
      BY <1>3, <2>2, ExtendsItself
    <2> QED
      BY <2>1, <2>2
  <1> QED
    BY <1>6, <1>7, <1>8, <1>9 DEF RoomInv

\* Every step keeps the invariant and the attempts.
LEMMA RoomInvStep ==
    ProcessInv /\ RoomInv /\ [ProcessNext]_allvars
        => RoomInv' /\ [\A t \in Task : Extends(attempts[t], attempts'[t])]_vars
  <1> SUFFICES ASSUME ProcessInv, RoomInv, [ProcessNext]_allvars
               PROVE  RoomInv' /\ \A t \in Task : Extends(attempts[t], attempts'[t])
    OBVIOUS
  <1>0. CallsOK /\ AttemptsOK
    BY DEF ProcessInv, TypeOK
  <1>1. UNCHANGED attempts => \A t \in Task : Extends(attempts[t], attempts'[t])
    BY <1>0, ExtendsItself
  <1>2. CASE UNCHANGED <<attempts, call>>
    <2>1. RoomInv'
      BY <1>2 DEF RoomInv, TasksBounded, Registered, OneSubmit, Busy, FoundHolds, HasRoom
    <2> QED
      BY <1>1, <1>2, <2>1
  <1>3. ASSUME NEW c \in Caller, UNCHANGED attempts, CallBegins(c) \/ CallGoesOnOrEnds(c)
        PROVE  RoomInv'
    BY <1>0, <1>3, RoomBegins, RoomGoesOn
  <1>4. ASSUME NEW c \in Caller, Record(c)
        PROVE  RoomInv' /\ \A t \in Task : Extends(attempts[t], attempts'[t])
    BY <1>0, <1>4, RoomRecord
  <1> QED
    BY <1>1, <1>2, <1>3, <1>4, EveryStep

\* submit looks for room before its await and inserts after it; as submits hold worker_gate,
\* there are never more records than max_tasks, whatever is restarted, cancelled or dropped
\* meanwhile.
THEOREM TasksStayBounded == ProcessSpec => []TasksBounded
  <1>1. RoomInv => TasksBounded
    BY DEF RoomInv
  <1> QED
    BY <1>1, ProcessInvariant, RoomInvInit, RoomInvStep, PTL DEF ProcessSpec

\* No insert replaces a record that somebody else has made, and no restart loses an
\* attempt, even if restarts of one task overlap.
THEOREM HistoryStays == ProcessSpec => HistoryKept
  BY ProcessInvariant, RoomInvInit, RoomInvStep, PTL DEF ProcessSpec, HistoryKept

=============================================================================
