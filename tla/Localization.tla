---------------------------- MODULE Localization ----------------------------
(***************************************************************************)
(* LinkResourceLocalizer: a worker fetches the inputs of a task from the     *)
(* node that owns them, through bounded blocking jobs                        *)
(* (LocalizationIoRuntime).                                                  *)
(*                                                                           *)
(* Calls for the same content share one cell; the caller that runs it        *)
(* validates an existing file, prepares the partial file, and then receives  *)
(* chunks and writes them at the same time: the receiving half is part of    *)
(* the caller's future, the writer is a job on a blocking thread.  A caller  *)
(* that goes away takes its future along but not the job, which goes on with *)
(* its permits and its open file until it notices.  The key of a cell has    *)
(* the digest, the size and the format of a content, but the names of its    *)
(* files have the digest alone: contents of one digest share their files and *)
(* not their cell.                                                           *)
(*                                                                           *)
(* Abstractions.  A content is Size chunks, numbered; a file is the sequence *)
(* of the chunks in it, 0 being a chunk with the wrong bytes, and a digest   *)
(* is right exactly for 1..Size; contents of one digest are of one size and  *)
(* differ in the format.  A buffer holds one chunk, and the channel          *)
(* has room for every buffer.  The origin's server reads and sends one chunk *)
(* per step of the receiver; its own jobs have a runtime of their own.  The  *)
(* sizes that are refused up front (max_content_bytes) and the metrics are   *)
(* left out.                                                                 *)
(***************************************************************************)
EXTENDS Naturals, Sequences, FiniteSets, FiniteSetsExt

CONSTANTS
    Caller, Content,
    Digest, DigestOf,                   \* the digest of every content
    Corrupt,                            \* contents whose source file was changed
    Size,                               \* chunks of a content
    MaxReads, MaxWrites, MaxHashes,     \* active jobs
    MaxQueued, MaxBuffers,              \* queued jobs, chunks in memory
    MaxRuns                             \* bound: calls that localize_one_inner may serve

None == "none"

ASSUME LocalizationConstants ==
    /\ None \notin Caller \cup Content
    /\ DigestOf \in [Content -> Digest]
    /\ Corrupt \subseteq Content
    /\ Size \in Nat \ {0}
    /\ {MaxReads, MaxWrites, MaxHashes, MaxQueued, MaxBuffers} \subseteq Nat \ {0}
    /\ MaxRuns \in Nat

VARIABLES
    call,       \* the content that every caller waits for
    result,     \* the value of the cell of a content
    run,        \* the executions of localize_one_inner, oldest first
    disk,       \* the files, one for each run that created one
    partial, final,     \* the files under the two paths of a digest; 0: none
    shutdown    \* LocalizationIoRuntime::shutdown was called

vars == <<call, result, run, disk, partial, final, shutdown>>

Run == 1..Len(run)

\* A run that is over: it holds nothing and nobody waits for it.
Over == [phase |-> "over", owner |-> None]

NewRun(p, c) ==
    [content |-> c, owner |-> p, phase |-> "validate", job |-> "start", held |-> {},
     cancelled |-> FALSE, resume |-> 0, hash |-> <<>>, file |-> 0, written |-> 0,
     chan |-> <<>>, hand |-> <<>>, rx |-> None, got |-> 0]

Live == {i \in Run : run[i] # Over}
Owned == {i \in Live : run[i].owner # None}

Whole == [k \in 1..Size |-> k]

\* The k-th chunk of a content as the origin's server reads it.
Chunk(c, k) == IF c \in Corrupt THEN 0 ELSE k

-----------------------------------------------------------------------------
Init ==
    /\ call = [p \in Caller |-> None]
    /\ result = [c \in Content |-> None]
    /\ run = <<>>
    /\ disk = [i \in 1..MaxRuns |-> <<>>]
    /\ partial = [d \in Digest |-> 0]
    /\ final = [d \in Digest |-> 0]
    /\ shutdown = FALSE

files == <<disk, partial, final>>

-----------------------------------------------------------------------------
(* localize_one: the cell shared by the callers of a content.                *)

\* The callers that keep the cell of a content alive.
Holders(c) == {p \in Caller : call[p] = c}

Waiting == {p \in Caller : call[p] # None /\ \A i \in Owned : run[i].owner # p}

localize_one(p, c) ==
    /\ call[p] = None
    /\ Len(run) + Cardinality(Waiting) < MaxRuns
    /\ call' = [call EXCEPT ![p] = c]
    /\ result' = [result EXCEPT ![c] = IF Holders(c) = {} THEN None ELSE @]
    /\ UNCHANGED <<run, files, shutdown>>

\* get_or_init runs one initialisation at a time, and the next waiter's when the
\* caller of the first one has gone.
CellFree(c) == \A i \in Owned : run[i].content # c

Initialise(p) ==
    /\ p \in Waiting
    /\ result[call[p]] = None
    /\ CellFree(call[p])
    /\ run' = Append(run, NewRun(p, call[p]))
    /\ UNCHANGED <<call, result, files, shutdown>>

Return(p) ==
    /\ p \in Waiting
    /\ result[call[p]] # None
    /\ call' = [call EXCEPT ![p] = None]
    /\ UNCHANGED <<result, run, files, shutdown>>

\* localize_one_inner ends with a result, which all callers of the cell get.
Ends(i, r) ==
    /\ run' = [run EXCEPT ![i] = Over]
    /\ result' = [result EXCEPT ![run[i].content] = r]

-----------------------------------------------------------------------------
(* run_blocking: admission, permits in a fixed order, the job.               *)

Needs(phase) ==
    CASE phase = "validate" -> <<"read", "hash">>
      [] phase = "prepare"  -> <<"read", "write", "hash">>
      [] phase = "transfer" -> <<"write", "hash">>
      [] phase = "remove"   -> <<"write">>

Limit(permit) ==
    CASE permit = "read" -> MaxReads [] permit = "write" -> MaxWrites [] permit = "hash" -> MaxHashes

Held(permit) == {i \in Live : permit \in run[i].held}
Queued == {i \in Live : run[i].job = "queued"}

\* The positions of the permits that a job still waits for.
Missing(i) ==
    LET needs == Needs(run[i].phase) IN {k \in DOMAIN needs : needs[k] \notin run[i].held}

\* Defect: a caller that goes away releases the permits its job works with.
KeptPermitsNone(i) == {}

\* The permits move into the closure of the job.
KeptPermits(i) == run[i].held

\* cancellation_requested.
Cancelled(i) == shutdown \/ run[i].cancelled

\* The job is the last one of its run; nobody hears of it when the caller has gone.
Reports(i, r) ==
    IF run[i].owner # None THEN Ends(i, r)
    ELSE run' = [run EXCEPT ![i] = Over] /\ UNCHANGED result

\* A writer that failed waits for the receiving half; elsewhere the run is over.
JobFails(i) ==
    IF run[i].phase = "transfer" /\ run[i].owner # None
    THEN /\ run' = [run EXCEPT ![i].job = "failed", ![i].held = {}, ![i].chan = <<>>, ![i].hand = <<>>]
         /\ UNCHANGED result
    ELSE Reports(i, "error")

\* Defect: one job too many is queued.
QueueFullLater == Cardinality(Queued) > MaxQueued

\* The admission semaphore has no permit left.
QueueFull == Cardinality(Queued) >= MaxQueued

Enqueue(i) ==
    /\ run[i].job = "start"
    /\ IF Cancelled(i) \/ QueueFull THEN JobFails(i)
       ELSE run' = [run EXCEPT ![i].job = "queued"] /\ UNCHANGED result
    /\ UNCHANGED <<call, files, shutdown>>

Acquire(i) ==
    /\ run[i].job = "queued"
    /\ \E k \in Missing(i) :
        /\ \A l \in Missing(i) : k <= l
        /\ LET s == Needs(run[i].phase)[k]
           IN  IF shutdown THEN JobFails(i)
               ELSE /\ Cardinality(Held(s)) < Limit(s)
                    /\ run' = [run EXCEPT ![i].held = @ \cup {s}]
                    /\ UNCHANGED result
    /\ UNCHANGED <<call, files, shutdown>>

StartJob(i) ==
    /\ run[i].job = "queued"
    /\ Missing(i) = {}
    /\ IF Cancelled(i) THEN JobFails(i)
       ELSE run' = [run EXCEPT ![i].job = "working"] /\ UNCHANGED result
    /\ UNCHANGED <<call, files, shutdown>>

\* A storage error or a panic where the job uses a file; a writer that waits for
\* a chunk uses none.
JobFault(i) ==
    /\ \/ run[i].job \in {"measured", "commit"}
       \/ run[i].job = "working" /\ (run[i].phase = "transfer" => run[i].hand # <<>>)
    /\ JobFails(i)
    /\ UNCHANGED <<call, files, shutdown>>

\* The job is done and the run goes on with another one.
GoesOn(i, r) ==
    run' = [run EXCEPT ![i] = IF @.owner = None THEN Over ELSE [r EXCEPT !.held = {}]]

-----------------------------------------------------------------------------
(* The jobs before the transfer.                                             *)

Valid(f) == disk[f] = Whole

validate_existing(i) ==
    /\ run[i].phase = "validate" /\ run[i].job = "working"
    /\ LET f == final[DigestOf[run[i].content]]
       IN  IF f = 0
           THEN GoesOn(i, [run[i] EXCEPT !.phase = "prepare", !.job = "start"]) /\ UNCHANGED result
           ELSE Reports(i, IF Valid(f) THEN "ok" ELSE "error")
    /\ UNCHANGED <<call, files, shutdown>>

\* prepare_partial reads the length of the partial file; one that is too long is
\* removed.
PrepareStat(i) ==
    /\ run[i].phase = "prepare" /\ run[i].job = "working"
    /\ LET d == DigestOf[run[i].content]
           length == IF partial[d] = 0 THEN 0 ELSE Len(disk[partial[d]])
       IN  /\ run' = [run EXCEPT ![i].resume = IF length <= Size THEN length ELSE 0,
                                 ![i].job = "measured"]
           /\ partial' = [partial EXCEPT ![d] = IF length <= Size THEN @ ELSE 0]
    /\ UNCHANGED <<call, result, disk, final, shutdown>>

\* It hashes what is in the file by now and opens it for appending.
PrepareOpen(i) ==
    /\ run[i].phase = "prepare" /\ run[i].job = "measured"
    /\ LET d == DigestOf[run[i].content]
           f == IF partial[d] = 0 THEN i ELSE partial[d]
       IN  IF run[i].resume > 0 /\ partial[d] = 0
           THEN JobFails(i) /\ UNCHANGED partial
           ELSE /\ GoesOn(i, [run[i] EXCEPT !.phase = "transfer", !.job = "start", !.rx = "ready",
                                 !.hash = IF run[i].resume > 0 THEN disk[f] ELSE <<>>,
                                 !.file = f, !.written = run[i].resume])
                /\ partial' = [partial EXCEPT ![d] = f]
                /\ UNCHANGED result
    /\ UNCHANGED <<call, disk, final, shutdown>>

-----------------------------------------------------------------------------
(* The receiving half of the transfer and the server at the other end.       *)

WriterReady(i) == run[i].job = "working"

\* An error closes the channel; the flag that cancels the writer is set after that.
ReceiveFails(i, as) == run' = [run EXCEPT ![i].rx = as]

ReceiveFailed(i) == run[i].rx \in {"failed", "protocol"}

\* The flag is set, when the receiving half has failed or the future was dropped.
StoreCancelled(i) ==
    /\ run[i].phase # "remove" /\ ~run[i].cancelled
    /\ run[i].owner = None \/ ReceiveFailed(i)
    /\ run' = [run EXCEPT ![i].cancelled = TRUE]
    /\ UNCHANGED <<call, result, files, shutdown>>

\* connect_resource, the request with its offset, and the manifest in reply.
Connect(i) ==
    /\ run[i].rx = "ready"
    /\ \/ /\ WriterReady(i)
          /\ run' = [run EXCEPT ![i].rx = IF run[i].resume = Size THEN "done" ELSE "chunks"]
       \/ WriterReady(i) /\ (ReceiveFails(i, "failed") \/ ReceiveFails(i, "protocol"))
       \/ run[i].job = "failed" /\ ReceiveFails(i, "failed")
    /\ UNCHANGED <<call, result, files, shutdown>>

\* A chunk arrives; or the connection is closed, times out or breaks the rules.
Receive(i) ==
    /\ run[i].rx = "chunks"
    /\ \/ run' = [run EXCEPT ![i].rx = "chunk"]
       \/ ReceiveFails(i, "failed")
       \/ ReceiveFails(i, "protocol")
    /\ UNCHANGED <<call, result, files, shutdown>>

Buffered(i) == Len(run[i].chan) + Len(run[i].hand)
BufferedChunks == MapThenSumSet(Buffered, Live)

\* The chunk waits for a buffer and goes to the writer.
Forward(i) ==
    /\ run[i].rx = "chunk"
    /\ IF shutdown \/ run[i].job = "failed" THEN ReceiveFails(i, "failed")
       ELSE /\ BufferedChunks < MaxBuffers
            /\ run' = [run EXCEPT ![i].chan = Append(@, Chunk(run[i].content, run[i].resume + run[i].got + 1)),
                                  ![i].got = @ + 1,
                                  ![i].rx = IF run[i].resume + run[i].got + 1 = Size THEN "done" ELSE "chunks"]
    /\ UNCHANGED <<call, result, files, shutdown>>

-----------------------------------------------------------------------------
(* write_and_commit, on its blocking thread.                                 *)

Writing(i) == run[i].phase = "transfer" /\ run[i].job = "working"

WriterTakes(i) ==
    /\ Writing(i) /\ run[i].hand = <<>> /\ run[i].chan # <<>>
    /\ IF Cancelled(i) THEN JobFails(i)
       ELSE /\ run' = [run EXCEPT ![i].hand = <<Head(run[i].chan)>>, ![i].chan = Tail(@)]
            /\ UNCHANGED result
    /\ UNCHANGED <<call, files, shutdown>>

WriterWrites(i) ==
    /\ Writing(i) /\ run[i].hand # <<>>
    /\ disk' = [disk EXCEPT ![run[i].file] = @ \o run[i].hand]
    /\ run' = [run EXCEPT ![i].hash = @ \o run[i].hand, ![i].written = @ + 1, ![i].hand = <<>>]
    /\ UNCHANGED <<call, result, partial, final, shutdown>>

\* Defect: the channel stays open when the receiving half is dropped.
SenderDroppedAtEnd(i) == run[i].rx = "done" \/ ReceiveFailed(i)

SenderDropped(i) == run[i].owner = None \/ run[i].rx = "done" \/ ReceiveFailed(i)

WriterEnds(i) ==
    /\ Writing(i) /\ run[i].hand = <<>> /\ run[i].chan = <<>>
    /\ SenderDropped(i)
    /\ IF Cancelled(i) \/ run[i].written # Size THEN JobFails(i)
       ELSE run' = [run EXCEPT ![i].job = "commit"] /\ UNCHANGED result
    /\ UNCHANGED <<call, files, shutdown>>

\* The digest of what was hashed, not of what is in the file.
DigestOk(i) == run[i].hash = Whole

WriterCommits(i) ==
    /\ run[i].phase = "transfer" /\ run[i].job = "commit"
    /\ LET d == DigestOf[run[i].content]
       IN  IF ~DigestOk(i)
           THEN partial' = [partial EXCEPT ![d] = 0] /\ UNCHANGED final /\ JobFails(i)
           ELSE IF partial[d] = 0
           THEN UNCHANGED <<partial, final>> /\ JobFails(i)
           ELSE /\ final' = [final EXCEPT ![d] = partial[d]]
                /\ partial' = [partial EXCEPT ![d] = 0]
                /\ GoesOn(i, [run[i] EXCEPT !.job = "ok"])
                /\ UNCHANGED result
    /\ UNCHANGED <<call, disk, shutdown>>

-----------------------------------------------------------------------------
\* Both halves are joined.  After a protocol error the partial file is removed.
Join(i) ==
    /\ run[i].phase = "transfer" /\ run[i].owner # None
    /\ run[i].job \in {"ok", "failed"}
    /\ run[i].rx = "done" \/ (ReceiveFailed(i) /\ run[i].cancelled)
    /\ IF run[i].rx = "protocol"
       THEN /\ run' = [run EXCEPT ![i].phase = "remove", ![i].job = "start", ![i].cancelled = FALSE]
            /\ UNCHANGED result
       ELSE IF run[i].job = "failed" \/ run[i].rx = "failed" THEN Ends(i, "error")
       ELSE run' = [run EXCEPT ![i].phase = "ack", ![i].job = None] /\ UNCHANGED result
    /\ UNCHANGED <<call, files, shutdown>>

remove_partial(i) ==
    /\ run[i].phase = "remove" /\ run[i].job = "working"
    /\ partial' = [partial EXCEPT ![DigestOf[run[i].content]] = 0]
    /\ JobFails(i)
    /\ UNCHANGED <<call, disk, final, shutdown>>

\* The acknowledgement is sent and the server closes the connection, or not.
Acknowledge(i) ==
    /\ run[i].phase = "ack"
    /\ \E r \in {"ok", "error"} : Ends(i, r)
    /\ UNCHANGED <<call, files, shutdown>>

-----------------------------------------------------------------------------
\* The future of a call is dropped: what it waits for is given up, the channel
\* is closed, and a job that has started goes on without it; the flag follows.
Detached(i) ==
    IF run[i].job \in {"working", "measured", "commit"}
    THEN [run[i] EXCEPT !.owner = None, !.rx = None, !.held = KeptPermits(i)]
    ELSE Over

Drop(p) ==
    /\ call[p] # None
    /\ call' = [call EXCEPT ![p] = None]
    /\ run' = [i \in Run |-> IF run[i].owner = p THEN Detached(i) ELSE run[i]]
    /\ UNCHANGED <<result, files, shutdown>>

Shutdown ==
    /\ ~shutdown
    /\ shutdown' = TRUE
    /\ UNCHANGED <<call, result, run, files>>

\* The worker process ends and is started again; files stay.
Restart ==
    /\ Live # {} \/ shutdown
    /\ call' = [p \in Caller |-> None]
    /\ run' = [i \in Run |-> Over]
    /\ shutdown' = FALSE
    /\ UNCHANGED <<result, files>>

Job(i) ==
    \/ validate_existing(i) \/ PrepareStat(i) \/ PrepareOpen(i)
    \/ WriterTakes(i) \/ WriterWrites(i) \/ WriterEnds(i) \/ WriterCommits(i)
    \/ remove_partial(i)

\* What the future of the caller does.
Await(i) ==
    \/ Enqueue(i) \/ Acquire(i) \/ StartJob(i) \/ Connect(i) \/ Receive(i) \/ Forward(i)
    \/ Join(i) \/ Acknowledge(i)

Progress ==
    \/ \E p \in Caller : Initialise(p) \/ Return(p)
    \/ \E i \in Owned : Await(i)
    \/ \E i \in Live : Job(i) \/ StoreCancelled(i)

Next ==
    \/ \E p \in Caller, c \in Content : localize_one(p, c)
    \/ \E p \in Caller : Drop(p)
    \/ Progress
    \/ \E i \in Live : JobFault(i)
    \/ Shutdown
    \/ Restart

Spec == Init /\ [][Next]_vars

\* Jobs run, requests time out, and semaphores are served in order.  Every run
\* takes finitely many steps, so fairness of their union is enough.
FairSpec == Spec /\ WF_vars(Progress)

-----------------------------------------------------------------------------
(* Properties.                                                               *)

Phase == {"validate", "prepare", "transfer", "remove", "ack"}

\* Jobs in every state and phase stay within their limits.
TypeOK ==
    /\ call \in [Caller -> Content \cup {None}]
    /\ result \in [Content -> {None, "ok", "error"}]
    /\ \A i \in Live : /\ run[i].phase \in Phase
                       /\ run[i].resume \in 0..Size /\ run[i].got \in 0..Size
                       /\ run[i].file \in 0..MaxRuns
    /\ partial \in [Digest -> 0..MaxRuns] /\ final \in [Digest -> 0..MaxRuns]
    /\ \A s \in {"read", "write", "hash"} : Cardinality(Held(s)) <= Limit(s)
    /\ Cardinality(Queued) <= MaxQueued
    /\ BufferedChunks <= MaxBuffers

\* README.md: size and SHA-256 are verified before the atomic publication.  What
\* is under the final path is the whole content, whatever calls were dropped, jobs
\* failed or processes restarted while a partial file was written.  The code keeps
\* to it only under the two conditions of PublishedWhenApart and MaxWrites = 1.
PublishedIsWhole == \A d \in Digest : final[d] # 0 => Valid(final[d])

\* No two contents of one digest are being localized.  Nothing in the code sees to
\* it: the two runs would prepare one partial file (length 0 for both, both open
\* it to append); when one has published it, the other appends to the published
\* file, its own digest is right, and its rename fails too late.
CellsApart == \A i, j \in Owned : DigestOf[run[i].content] = DigestOf[run[j].content] => i = j

\* Where contents of one digest are localized one after the other, what is under
\* a final path is the whole content, also when a job whose caller has gone still
\* works with the file that the next call for the digest finds.
PublishedWhenApart == []CellsApart => []PublishedIsWhole

\* Every call returns, although jobs wait for permits, the receiving half for
\* buffers and the writer for chunks; and every job ends and gives its permits and
\* buffers back, also when its caller has gone, which is what
\* LinkResourceLocalizer::shutdown waits for.
EverythingEnds ==
    /\ \A p \in Caller : call[p] # None ~> call[p] = None
    /\ \A i \in 1..MaxRuns : i \in Live ~> i \notin Live

=============================================================================
