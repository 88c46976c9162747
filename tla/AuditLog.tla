------------------------------ MODULE AuditLog ------------------------------
(***************************************************************************)
(* PersistentAuditLog: a chain of events, one line of a file each.  A failed *)
(* append may have left nothing, a piece of its line, all of it but the      *)
(* newline, or the whole line.                                               *)
(*                                                                           *)
(* Abstractions.  A hash is the data it is of, so different data has         *)
(* different hashes: the hash of an event stands for all events up to it.  A *)
(* line is one unit of the tick's byte budget.  Metadata and its limits are  *)
(* left out.                                                                 *)
(***************************************************************************)
EXTENDS Naturals, Sequences, SequencesExt

CONSTANTS
    Kind,                   \* kinds of events
    MaxAuditEvents,         \* bounded_event_capacity
    MaxLinesPerTick,        \* max_audit_bytes_per_tick
    MaxFailures             \* bound: appends that fail

ASSUME AuditConstants == {MaxAuditEvents, MaxLinesPerTick} \subseteq Nat \ {0} /\ MaxFailures \in Nat

VARIABLES
    running,        \* the process has the log open
    events,         \* the events in memory
    lines,          \* bytes_this_tick
    file,           \* the lines of the file
    failures,       \* how many appends failed
    acked           \* events whose append returned Ok, and those read at the open

lvars == <<running, events, lines, file, failures, acked>>

\* A piece of a line, and a line that holds more than one event.
Torn == [line |-> "torn", ended |-> FALSE]
Garbled == [line |-> "garbled", ended |-> TRUE]

HashOf(e) == Append(e.previous, e.kind)

Event(k) ==
    [line |-> "event", ended |-> TRUE, kind |-> k,
     sequence |-> IF events = <<>> THEN 1 ELSE Last(events).sequence + 1,
     previous |-> IF events = <<>> THEN <<>> ELSE HashOf(Last(events))]

AuditInit ==
    /\ running = TRUE
    /\ events = <<>>
    /\ lines = 0
    /\ file = <<>>
    /\ failures = 0
    /\ acked = <<>>

-----------------------------------------------------------------------------
\* An event whose newline is missing: the reader still accepts it as the last line.
Unended(e) == [e EXCEPT !.ended = FALSE]

\* What the file is after a line, or a piece of one, went to its end.
Written(l) ==
    IF file # <<>> /\ ~Last(file).ended
    THEN Append(Front(file), IF l.ended THEN Garbled ELSE Torn)
    ELSE Append(file, l)

CanAppend == running /\ Len(events) < MaxAuditEvents /\ lines < MaxLinesPerTick

append(k) ==
    /\ CanAppend
    /\ file' = Written(Event(k))
    /\ events' = Append(events, Event(k))
    /\ acked' = Append(acked, Event(k))
    /\ lines' = lines + 1
    /\ UNCHANGED <<running, failures>>

\* The file cannot be opened, write_all stops half way, or sync_data fails.
append_fails(k) ==
    /\ CanAppend
    /\ failures < MaxFailures
    /\ failures' = failures + 1
    /\ file' \in {file, Written(Torn), Written(Unended(Event(k))), Written(Event(k))}
    /\ UNCHANGED <<running, events, lines, acked>>

AuditTick ==
    /\ lines > 0
    /\ lines' = 0
    /\ UNCHANGED <<running, events, file, failures, acked>>

\* The process ends between two operations, or in one that then counts as failed.
AuditCrash ==
    /\ running
    /\ running' = FALSE
    /\ events' = <<>>
    /\ lines' = 0
    /\ UNCHANGED <<file, failures, acked>>

\* Defect: the place of an event in the chain is not looked at.
FollowsAny(i) == file[i].line = "event"

\* validate_next_event.
Follows(i) ==
    /\ file[i].line = "event"
    /\ file[i].sequence = i
    /\ i = 1 => file[i].previous = <<>>
    /\ i > 1 => file[i - 1].line = "event" /\ file[i].previous = HashOf(file[i - 1])

Opens == Len(file) <= MaxAuditEvents /\ \A i \in DOMAIN file : Follows(i)

open ==
    /\ ~running
    /\ Opens
    /\ running' = TRUE
    /\ events' = file
    /\ acked' = file
    /\ UNCHANGED <<lines, file, failures>>

AuditNext ==
    \/ \E k \in Kind : append(k) \/ append_fails(k)
    \/ AuditTick
    \/ AuditCrash
    \/ open

AuditSpec == AuditInit /\ [][AuditNext]_lvars

-----------------------------------------------------------------------------
(* Properties.                                                               *)

\* A log that opens has every event whose append was acknowledged, in order and
\* first, whatever appends failed half way before: damage is refused, never
\* skipped.
AckedKept ==
    Opens => /\ Len(acked) <= Len(file)
             /\ \A i \in DOMAIN acked : HashOf(acked[i]) = HashOf(file[i])

=============================================================================
