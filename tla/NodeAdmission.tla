--------------------------- MODULE NodeAdmission ---------------------------
(***************************************************************************)
(* LocalAdmissionController: every node decides with its own, newest state   *)
(* which work it takes, and keeps a part of each resource for its own work.  *)
(*                                                                           *)
(* Abstractions.  CPU, memory, VRAM and threads are the members of Resource. *)
(* A reservation id is the work it is for; the origin of a request is Local  *)
(* on the work's home node and Remote elsewhere.  Budgets are far below the  *)
(* largest integer, where the saturating sums would stop growing.            *)
(***************************************************************************)
EXTENDS Integers, FiniteSets, FiniteSetsExt

CONSTANTS
    Node, Work, Resource,
    Home,                       \* the local_node of every work
    Need,                       \* what every work asks of every resource
    Total, ReservedLocal,       \* LocalResourceBudget, of every resource
    MaxRemotePressure,          \* max_remote_pressure_bucket
    PressureOf,                 \* the pressure of a node at every resource version
    MaxVersion, MaxTick,        \* bounds: versions of every node's state, the clock
    Validity                    \* ticks a reservation is asked for

Version(n) == 1..MaxVersion[n]

ASSUME AdmissionConstants ==
    /\ IsFiniteSet(Node)
    /\ Home \in [Work -> Node]
    /\ Need \in [Work -> [Resource -> Nat]]
    /\ Total \in [Resource -> Nat \ {0}]
    /\ \A s \in Resource : ReservedLocal[s] \in 0..Total[s]
    /\ MaxRemotePressure \in 0..100
    /\ \A n \in Node : PressureOf[n] \in [Version(n) -> 0..100]
    /\ MaxVersion \in [Node -> Nat \ {0}]
    /\ MaxTick \in Nat /\ Validity \in Nat \ {0}

VARIABLES
    now,            \* the clock the calls are given
    capability,     \* capability_version of every node
    resource,       \* resource_version of every node
    reserved        \* the reservations of every node

avars == <<now, capability, resource, reserved>>

Request(w, v, u) == [work |-> w, version |-> v, until |-> u]

AdmissionInit ==
    /\ now = 0
    /\ capability = [n \in Node |-> 1]
    /\ resource = [n \in Node |-> 1]
    /\ reserved = [n \in Node |-> {}]

-----------------------------------------------------------------------------
Unexpired(n) == {r \in reserved[n] : r.until > now}

IsRemote(n, w) == Home[w] # n

\* reserved_totals, of what is left after expire.
Used(n, s) == MapThenSumSet(LAMBDA r : Need[r.work][s], Unexpired(n))

\* Defect: work from elsewhere may use what is kept for the node itself.
LimitShared(n, w, s) == Total[s]

Limit(n, w, s) == Total[s] - (IF IsRemote(n, w) THEN ReservedLocal[s] ELSE 0)

\* Defect: a request for an older version of the node is let through.
VersionMatchesOlder(n, q) == q.version <= capability[n]

VersionMatches(n, q) == q.version = capability[n]

Overloaded(n, w) == IsRemote(n, w) /\ PressureOf[n][resource[n]] >= MaxRemotePressure

\* The outcome Accept; every other one is a refusal.
Accepts(n, q) ==
    /\ VersionMatches(n, q)
    /\ q.until > now
    /\ ~Overloaded(n, q.work)
    /\ \A s \in Resource : Used(n, s) + Need[q.work][s] <= Limit(n, q.work, s)

\* What the node remembers of a request, with its own version at that time.
Reservation(n, q) == [work |-> q.work, until |-> q.until, at |-> capability[n]]

\* A reservation with the same id is replaced.
admit(n, q) ==
    reserved' = [reserved EXCEPT ![n] =
        IF Accepts(n, q)
        THEN {r \in Unexpired(n) : r.work # q.work} \cup {Reservation(n, q)}
        ELSE Unexpired(n)]

release(n, w) ==
    /\ \E r \in reserved[n] : r.work = w
    /\ reserved' = [reserved EXCEPT ![n] = {r \in @ : r.work # w}]
    /\ UNCHANGED <<now, capability, resource>>

expire(n) ==
    /\ Unexpired(n) # reserved[n]
    /\ reserved' = [reserved EXCEPT ![n] = Unexpired(n)]
    /\ UNCHANGED <<now, capability, resource>>

\* update_local_state: capabilities change, or pressure, health and free memory.
update_local_state(n) ==
    /\ \/ capability[n] < MaxVersion[n] /\ capability' = [capability EXCEPT ![n] = @ + 1] /\ UNCHANGED resource
       \/ resource[n] < MaxVersion[n] /\ resource' = [resource EXCEPT ![n] = @ + 1] /\ UNCHANGED capability
    /\ UNCHANGED <<now, reserved>>

Tick ==
    /\ now < MaxTick
    /\ now' = now + 1
    /\ UNCHANGED <<capability, resource, reserved>>

-----------------------------------------------------------------------------
\* docs/phase7-scheduling.md: the hard local reserve is taken off what
\* remote work may use.  Whatever order requests, expiries, releases and pressure
\* changes come in, a node never promises more than it has, nor more than its
\* unreserved part to others.
LocalReserveKept ==
    \A n \in Node, s \in Resource :
        LET sum(R) == MapThenSumSet(LAMBDA r : Need[r.work][s], R)
        IN  /\ sum(reserved[n]) <= Total[s]
            /\ sum({r \in reserved[n] : IsRemote(n, r.work)}) <= Total[s] - ReservedLocal[s]

=============================================================================
