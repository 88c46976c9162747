---------------------------- MODULE NodeBudgets ----------------------------
(***************************************************************************)
(* What bounds the background work of one node: NetworkBudgetController,     *)
(* which queues data within the bytes of a tick that control messages leave, *)
(* and TelemetrySampler, which counts events between two pulses.             *)
(*                                                                           *)
(* Abstractions.  Data that a leader would forward is refused whatever the   *)
(* state and has no action; neither has any other refused call.  The         *)
(* smoothed pressure and the sampling interval of a pulse are left out.      *)
(***************************************************************************)
EXTENDS Naturals, FiniteSets, FiniteSetsExt

CONSTANTS
    Transfer, Bytes,                        \* data to send, and its size
    MaxBytesPerTick, ControlReserve,        \* bytes of a tick; those kept for control
    MaxTransfers, MaxQueuedBytes,           \* max_concurrent_transfers, max_queued_bytes
    Buckets,                                \* pressure buckets the node can be at
    MaxEvents,                              \* max_events_per_tick
    MaxRecorded                             \* bound: events of a class

ASSUME BudgetConstants ==
    /\ MaxBytesPerTick \in Nat /\ ControlReserve \in 1..(MaxBytesPerTick - 1)
    /\ Bytes \in [Transfer -> Nat]
    /\ {MaxTransfers, MaxQueuedBytes, MaxEvents} \subseteq Nat \ {0}
    /\ Buckets \subseteq 0..100 /\ MaxRecorded \in Nat

Class == {"Correctness", "SchedulingSummary", "Discardable"}

VARIABLES
    transfer,   \* where every transfer is
    link,       \* the fields of NetworkBudgetController
    sampler,    \* accepted_this_tick and events of TelemetrySampler
    recorded,   \* how many events of a class were reported to it
    delivered   \* how many its pulses have carried

bvars == <<transfer, link, sampler, recorded, delivered>>

None == [c \in Class |-> 0]

BudgetsInit ==
    /\ transfer = [d \in Transfer |-> "new"]
    /\ link = [data |-> 0, control |-> 0, active |-> 0, queued |-> 0,
               pressure |-> 0, reconnecting |-> FALSE]
    /\ sampler = [accepted |-> 0, events |-> None]
    /\ recorded = None
    /\ delivered = None

telemetry == <<sampler, recorded, delivered>>

-----------------------------------------------------------------------------
Degradation ==
    LET full == (link.queued * 100) \div MaxQueuedBytes
        pressure == IF full > link.pressure THEN full ELSE link.pressure
    IN  CASE pressure >= 90 /\ link.reconnecting -> "ControlOnly"
          [] pressure >= 90 /\ ~link.reconnecting -> "RejectLargeRemote"
          [] pressure \in 75..89 -> "PauseRemoteBatch"
          [] pressure \in 60..74 -> "ReduceCheckpointing"
          [] pressure \in 40..59 -> "StopPreReplication"
          [] pressure < 40 -> "Normal"

update_pressure(p, r) ==
    /\ <<p, r>> # <<link.pressure, link.reconnecting>>
    /\ link' = [link EXCEPT !.pressure = p, !.reconnecting = r]
    /\ UNCHANGED <<transfer, telemetry>>

admit_control ==
    /\ link.control + 1 <= ControlReserve
    /\ link' = [link EXCEPT !.control = @ + 1]
    /\ UNCHANGED <<transfer, telemetry>>

\* Nothing is said of the bytes of a tick: what exceeds them is queued all the same.
enqueue_data(d) ==
    /\ transfer[d] = "new"
    /\ Degradation # "ControlOnly"
    /\ link.queued + Bytes[d] <= MaxQueuedBytes
    /\ link' = [link EXCEPT !.queued = @ + Bytes[d]]
    /\ transfer' = [transfer EXCEPT ![d] = "queued"]
    /\ UNCHANGED telemetry

DataLimit == MaxBytesPerTick - ControlReserve

\* Defect: started data is still counted as queued.
DequeuedNone(d) == link.queued

Dequeued(d) == link.queued - Bytes[d]

start_data(d) ==
    /\ transfer[d] = "queued"
    /\ link.active < MaxTransfers
    /\ link.data + Bytes[d] <= DataLimit
    /\ link' = [link EXCEPT !.queued = Dequeued(d), !.data = @ + Bytes[d], !.active = @ + 1]
    /\ transfer' = [transfer EXCEPT ![d] = "active"]
    /\ UNCHANGED telemetry

complete_data(d) ==
    /\ transfer[d] = "active" /\ link.active > 0
    /\ link' = [link EXCEPT !.active = @ - 1]
    /\ transfer' = [transfer EXCEPT ![d] = "done"]
    /\ UNCHANGED telemetry

\* Defect: a new tick gives only control messages their bytes back.
NextTickControl == [link EXCEPT !.control = 0]

NextTick == [link EXCEPT !.data = 0, !.control = 0]

next_tick ==
    /\ link' = NextTick
    /\ link' # link
    /\ UNCHANGED <<transfer, telemetry>>

-----------------------------------------------------------------------------
\* Which events are counted: correctness always, the others within the budget
\* and only below a pressure.
Sampled(c) ==
    \/ c = "Correctness"
    \/ sampler.accepted < MaxEvents /\ link.pressure < (IF c = "SchedulingSummary" THEN 90 ELSE 60)

record(c) ==
    /\ recorded[c] < MaxRecorded
    /\ recorded' = [recorded EXCEPT ![c] = @ + 1]
    /\ sampler' = IF Sampled(c)
                  THEN [sampler EXCEPT !.accepted = @ + 1, !.events[c] = @ + 1]
                  ELSE sampler
    /\ UNCHANGED <<transfer, link, delivered>>

pulse ==
    /\ sampler.accepted > 0
    /\ delivered' = [c \in Class |-> delivered[c] + sampler.events[c]]
    /\ sampler' = [accepted |-> 0, events |-> None]
    /\ UNCHANGED <<transfer, link, recorded>>

BudgetsNext ==
    \/ \E p \in Buckets, r \in BOOLEAN : update_pressure(p, r)
    \/ admit_control
    \/ \E d \in Transfer : enqueue_data(d) \/ start_data(d) \/ complete_data(d)
    \/ next_tick
    \/ \E c \in Class : record(c)
    \/ pulse

\* The caller asks again for data that waits, and ticks go on.
BudgetsFairness ==
    /\ \A d \in Transfer : WF_bvars(start_data(d)) /\ WF_bvars(complete_data(d))
    /\ WF_bvars(next_tick)

BudgetsSpec == BudgetsInit /\ [][BudgetsNext]_bvars /\ BudgetsFairness

-----------------------------------------------------------------------------
\* The counters are the transfers': what is queued and active is what was queued
\* and not started, started and not completed, and in no tick does data use the
\* bytes that are kept for control messages.
\* docs/phase7-scheduling.md: correctness state is not dropped under overload; every
\* such event is carried by exactly one pulse, or will be by the next.
AccountsExact ==
    /\ link.queued = MapThenSumSet(LAMBDA d : Bytes[d], {d \in Transfer : transfer[d] = "queued"})
    /\ link.active = Cardinality({d \in Transfer : transfer[d] = "active"})
    /\ link.active <= MaxTransfers
    /\ link.data + ControlReserve <= MaxBytesPerTick
    /\ recorded["Correctness"] = delivered["Correctness"] + sampler.events["Correctness"]

\* Data that fits into a tick and was let into the queue is sent, whatever the
\* pressure does, and although data that never starts may keep its place there.
TransfersEnd ==
    \A d \in Transfer : transfer[d] = "queued" /\ Bytes[d] <= DataLimit ~> transfer[d] = "done"

=============================================================================
