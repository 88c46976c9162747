---------------------------- MODULE WorkerProofs ----------------------------
(***************************************************************************)
(* What holds of a worker for every value of the constants: of the contents  *)
(* that its localizer fetches (Localization), of the identities it has in    *)
(* the trust plane (Trust), and of the audit log (AuditLog) with its proofs  *)
(* (AuditSegments).  The three share no state.                               *)
(***************************************************************************)
EXTENDS Localization, Trust, AuditSegments, Sums, SequenceTheorems

-----------------------------------------------------------------------------
(* Localization: the runs, each by itself.                                   *)

Permit == {"read", "write", "hash"}
Busy == {"working", "measured", "commit"}
JobState == Busy \cup {"start", "queued", "failed", "ok", None}
Receiver == {None, "ready", "chunks", "chunk", "done", "failed", "protocol"}

\* The phases in which a job uses the partial file; it needs a write permit.
FilePhase == {"prepare", "transfer", "remove"}

RunRecord ==
    [content : Content, owner : Caller \cup {None}, phase : Phase, job : JobState, held : SUBSET Permit,
     cancelled : BOOLEAN, resume : 0..Size, hash : Seq(Nat), file : 0..MaxRuns, written : Nat,
     chan : Seq(Nat), hand : Seq(Nat), rx : Receiver, got : 0..Size]

\* A run: a job that works has its permits, and only such a job goes on without a caller; the
\* receiving half never asks for more than is left.
RunOK(r) ==
    /\ r \in RunRecord
    /\ r.owner = None => r.job \in Busy
    /\ r.job \in Busy /\ r.phase \in FilePhase => "write" \in r.held
    /\ r.job = "measured" => r.phase = "prepare"
    /\ r.job = "commit" => r.phase = "transfer"
    /\ r.phase = "ack" => r.job = None
    /\ r.rx = "ready" => r.got = 0
    /\ r.rx \in {"chunks", "chunk"} => r.resume + r.got < Size
    /\ r.phase \in {"validate", "prepare"} => r.rx = None /\ r.got = 0 /\ r.chan = <<>> /\ r.hand = <<>>

\* A run that assembles the partial file, or has measured it.
Assembles(r) == r.phase = "transfer" /\ r.job \in {"start", "queued", "working", "commit"}
Measured(r) == r.phase = "prepare" /\ r.job = "measured"

\* The chunks that a run has in memory.
Load(r) == IF r = Over THEN 0 ELSE Len(r.chan) + Len(r.hand)

\* What a run may become in one step: it keeps its content, loses its caller or keeps it, and
\* takes up another phase only with a caller.
NextPhases ==
    {<<"validate", "prepare">>, <<"prepare", "transfer">>, <<"transfer", "remove">>, <<"transfer", "ack">>}

Succeeds(q, r) ==
    \/ r = Over
    \/ /\ RunOK(r) /\ r.content = q.content /\ r.owner \in {q.owner, None}
       /\ \/ r.phase = q.phase
          \/ r.owner # None /\ r.owner = q.owner /\ <<q.phase, r.phase>> \in NextPhases

\* The partial file is left alone.
KeepsFile(q, r) ==
    r # Over => /\ Assembles(r) => Assembles(q) /\ r.file = q.file /\ r.hash = q.hash
                /\ Measured(r) => Measured(q) /\ r.resume = q.resume
                /\ r.phase = "transfer" => q.phase = "transfer"

\* Nothing is taken: permits, a place in the queue, buffers.
Shrinks(q, r) ==
    /\ r # Over => r.held \subseteq q.held /\ (r.job = "queued" => q.job = "queued")
    /\ Load(r) <= Load(q)

\* Something is taken that there was enough of.
Takes(q, r) ==
    /\ r # Over => /\ \A s \in r.held : s \in q.held \/ Cardinality(Held(s)) < Limit(s)
                   /\ r.job = "queued" => q.job = "queued" \/ ~QueueFull
    /\ Load(r) <= Load(q) \/ (Load(r) <= Load(q) + 1 /\ BufferedChunks < MaxBuffers)

\* One run moves.  When it ends with its caller waiting, the callers get its result.
Moves(i, r) ==
    /\ i \in Live /\ run' = [run EXCEPT ![i] = r]
    /\ Succeeds(run[i], r) /\ Takes(run[i], r)
    /\ UNCHANGED call /\ (r # Over => r.owner = run[i].owner)
    /\ \/ UNCHANGED result /\ (r = Over => run[i].owner = None)
       \/ /\ r = Over
          /\ \E v \in {"ok", "error"} : result' = [result EXCEPT ![run[i].content] = v]

RunsOK == run \in Seq({r \in RunRecord : RunOK(r)} \cup {Over})

\* The runs that are not over are records of a run.
LEMMA LiveRuns ==
    ASSUME RunsOK
    PROVE  /\ Len(run) \in Nat /\ Live \subseteq 1..Len(run) /\ IsFiniteSet(Live)
           /\ \A i \in Live : RunOK(run[i]) /\ run[i] \in RunRecord /\ run[i].phase \in Phase
           /\ \A i \in 1..Len(run) : run[i] = Over \/ RunOK(run[i])
  <1>1. Len(run) \in Nat /\ \A i \in 1..Len(run) : run[i] = Over \/ (run[i] \in RunRecord /\ RunOK(run[i]))
    BY DEF RunsOK
  <1>2. Live \subseteq 1..Len(run)
    BY DEF Live, Run
  <1>3. IsFiniteSet(1..Len(run))
    BY <1>1, FS_Interval
  <1>4. IsFiniteSet(Live)
    BY <1>2, <1>3, FS_Subset
  <1>5. \A i \in Live : run[i] # Over
    BY DEF Live
  <1>6. \A r : RunOK(r) => r \in RunRecord /\ r.phase \in Phase
    BY DEF RunOK, RunRecord
  <1> QED
    BY <1>1, <1>2, <1>4, <1>5, <1>6

\* A record of a run is not the mark of a run that is over.
LEMMA RecordIsLive ==
    ASSUME NEW r, RunOK(r)
    PROVE  r # Over
  <1>1. r.phase \in Phase
    BY DEF RunOK, RunRecord
  <1>2. Over.phase \notin Phase
    BY DEF Over, Phase
  <1> QED
    BY <1>1, <1>2

-----------------------------------------------------------------------------
(* The steps of a run.                                                       *)

\* A run has a number of chunks in memory.
LEMMA LoadType ==
    ASSUME NEW r, RunOK(r) \/ r = Over
    PROVE  Load(r) \in Nat
  <1>1. CASE r = Over
    BY <1>1 DEF Load
  <1>2. CASE RunOK(r)
    <2>1. r # Over
      BY <1>2, RecordIsLive
    <2>2. r.chan \in Seq(Nat) /\ r.hand \in Seq(Nat)
      BY <1>2 DEF RunOK, RunRecord
    <2>3. Len(r.chan) \in Nat /\ Len(r.hand) \in Nat
      BY <2>2
    <2>4. Load(r) = Len(r.chan) + Len(r.hand)
      BY <2>1 DEF Load
    <2>5. \A a, b \in Nat : a + b \in Nat
      OBVIOUS
    <2> QED
      BY <2>3, <2>4, <2>5
  <1> QED
    BY <1>1, <1>2

\* A run that moves and takes nothing.
LEMMA QuietMove ==
    ASSUME RunsOK, NEW i \in Live, NEW r, run' = [run EXCEPT ![i] = r], UNCHANGED <<call, result>>,
           Succeeds(run[i], r), Shrinks(run[i], r),
           IF r = Over THEN run[i].owner = None ELSE r.owner = run[i].owner
    PROVE  Moves(i, r)
  BY DEF Moves, Takes, Shrinks

\* A run ends.
LEMMA EndMove ==
    ASSUME RunsOK, NEW i \in Live, run' = [run EXCEPT ![i] = Over], UNCHANGED call,
           \/ UNCHANGED result /\ run[i].owner = None
           \/ \E v \in {"ok", "error"} : result' = [result EXCEPT ![run[i].content] = v]
    PROVE  Moves(i, Over) /\ KeepsFile(run[i], Over)
  <1>1. Load(run[i]) \in Nat /\ Load(Over) = 0
    BY LiveRuns, LoadType DEF Load
  <1>2. Takes(run[i], Over)
    BY <1>1 DEF Takes
  <1> QED
    BY <1>2 DEF Moves, Succeeds, KeepsFile

\* A run ends with a result.
LEMMA EndsMove ==
    ASSUME RunsOK, NEW i \in Live, NEW v \in {"ok", "error"}, Ends(i, v), UNCHANGED call
    PROVE  Moves(i, Over) /\ KeepsFile(run[i], Over)
  BY EndMove DEF Ends

\* A run reports a result if it has a caller.
LEMMA ReportsMove ==
    ASSUME RunsOK, NEW i \in Live, NEW v \in {"ok", "error"}, Reports(i, v), UNCHANGED call
    PROVE  Moves(i, Over) /\ KeepsFile(run[i], Over)
  BY EndMove DEF Reports, Ends

\* A job fails.
LEMMA JobFailsMove ==
    ASSUME RunsOK, NEW i \in Live, JobFails(i), UNCHANGED call
    PROVE  \E r : Moves(i, r) /\ KeepsFile(run[i], r) /\ ~Assembles(r)
  <1>1. CASE run[i].phase = "transfer" /\ run[i].owner # None
    <2>1. PICK q : q = run[i]
      OBVIOUS
    <2>2. PICK r : r = [q EXCEPT !.job = "failed", !.held = {}, !.chan = <<>>, !.hand = <<>>]
      OBVIOUS
    <2>3. run' = [run EXCEPT ![i] = r] /\ UNCHANGED result
      BY <1>1, <2>1, <2>2 DEF JobFails
    <2>4. RunOK(q) /\ q \in RunRecord /\ q.phase = "transfer" /\ q.owner # None
      BY <1>1, <2>1, LiveRuns
    <2>5. r \in RunRecord /\ r.job = "failed" /\ r.held = {} /\ r.chan = <<>> /\ r.hand = <<>>
      <3>1. <<>> \in Seq(Nat) /\ {} \in SUBSET Permit /\ "failed" \in JobState
        BY DEF JobState
      <3> QED
        BY <2>2, <2>4, <3>1 DEF RunRecord
    <2>6. /\ r.phase = q.phase /\ r.owner = q.owner /\ r.content = q.content
          /\ r.rx = q.rx /\ r.got = q.got /\ r.resume = q.resume
      BY <2>2, <2>4 DEF RunRecord
    <2>7. RunOK(r)
      BY <2>4, <2>5, <2>6 DEF RunOK, Busy, None
    <2>8. r # Over /\ Load(r) = 0 /\ Load(q) \in Nat /\ 0 <= Load(q)
      <3>1. r # Over /\ Load(q) \in Nat
        BY <2>4, <2>7, RecordIsLive, LoadType
      <3>2. Load(r) = Len(r.chan) + Len(r.hand)
        BY <3>1 DEF Load
      <3>3. Len(r.chan) = 0 /\ Len(r.hand) = 0
        BY <2>5
      <3> QED
        BY <3>1, <3>2, <3>3
    <2>9. Succeeds(q, r) /\ Shrinks(q, r) /\ KeepsFile(q, r) /\ ~Assembles(r)
      BY <2>5, <2>6, <2>7, <2>8 DEF Succeeds, Shrinks, KeepsFile, Assembles, Measured
    <2> QED
      BY <2>1, <2>3, <2>6, <2>8, <2>9, QuietMove
  <1>2. CASE ~(run[i].phase = "transfer" /\ run[i].owner # None)
    BY <1>2, ReportsMove DEF JobFails, Assembles, Over
  <1> QED
    BY <1>1, <1>2

\* A run is enqueued.
LEMMA EnqueueMove ==
    ASSUME RunsOK, NEW i \in Owned, Enqueue(i)
    PROVE  \E r : Moves(i, r) /\ KeepsFile(run[i], r)
  <1>0. i \in Live /\ run[i].owner # None /\ UNCHANGED call
    BY DEF Owned, Enqueue
  <1>1. CASE JobFails(i)
    BY <1>0, <1>1, JobFailsMove
  <1>2. CASE ~QueueFull /\ run' = [run EXCEPT ![i].job = "queued"] /\ UNCHANGED result
    <2>1. PICK q : q = run[i]
      OBVIOUS
    <2>2. PICK r : r = [q EXCEPT !.job = "queued"]
      OBVIOUS
    <2>3. run' = [run EXCEPT ![i] = r] /\ q.job = "start"
      BY <1>2, <2>1, <2>2 DEF Enqueue
    <2>4. RunOK(q) /\ q \in RunRecord /\ q.owner # None /\ q # Over
      BY <1>0, <2>1, LiveRuns, RecordIsLive
    <2>5. r \in RunRecord /\ r.job = "queued"
      BY <2>2, <2>4 DEF RunRecord, JobState, Busy
    <2>6. /\ r.phase = q.phase /\ r.owner = q.owner /\ r.content = q.content /\ r.held = q.held
          /\ r.rx = q.rx /\ r.got = q.got /\ r.resume = q.resume /\ r.chan = q.chan /\ r.hand = q.hand
          /\ r.file = q.file /\ r.hash = q.hash
      BY <2>2, <2>4 DEF RunRecord
    <2>7. RunOK(r)
      BY <2>3, <2>4, <2>5, <2>6 DEF RunOK, Busy, None
    <2>8. r # Over /\ Load(r) = Load(q) /\ Load(q) \in Nat
      BY <2>4, <2>6, <2>7, RecordIsLive, LoadType DEF Load
    <2>9. Succeeds(q, r) /\ Takes(q, r) /\ KeepsFile(q, r)
      BY <1>2, <2>3, <2>5, <2>6, <2>7, <2>8 DEF Succeeds, Takes, KeepsFile, Assembles, Measured
    <2> QED
      BY <1>0, <1>2, <2>1, <2>3, <2>6, <2>8, <2>9 DEF Moves
  <1> QED
    BY <1>1, <1>2 DEF Enqueue

\* The permits of a phase; a phase that uses the partial file needs the one to write.
LEMMA PhasePermits ==
    ASSUME NEW p \in Phase, p # "ack"
    PROVE  /\ \A k \in DOMAIN Needs(p) : Needs(p)[k] \in Permit
           /\ p \in FilePhase => \E k \in DOMAIN Needs(p) : Needs(p)[k] = "write"
  <1>1. CASE p = "validate"
    BY <1>1 DEF Needs, Permit, FilePhase
  <1>2. CASE p = "prepare"
    BY <1>2 DEF Needs, Permit, FilePhase
  <1>3. CASE p = "transfer"
    BY <1>3 DEF Needs, Permit, FilePhase
  <1>4. CASE p = "remove"
    BY <1>4 DEF Needs, Permit, FilePhase
  <1> QED
    BY <1>1, <1>2, <1>3, <1>4 DEF Phase

\* A job gets its next permit.
LEMMA AcquireMove ==
    ASSUME RunsOK, NEW i \in Owned, Acquire(i)
    PROVE  \E r : Moves(i, r) /\ KeepsFile(run[i], r)
  <1>0. i \in Live /\ run[i].owner # None /\ UNCHANGED call
    BY DEF Owned, Acquire
  <1>1. CASE JobFails(i)
    BY <1>0, <1>1, JobFailsMove
  <1>2. ASSUME NEW s \in Permit, Cardinality(Held(s)) < Limit(s),
               run' = [run EXCEPT ![i].held = @ \cup {s}], UNCHANGED result
        PROVE  \E r : Moves(i, r) /\ KeepsFile(run[i], r)
    <2>1. PICK q : q = run[i]
      OBVIOUS
    <2>2. PICK r : r = [q EXCEPT !.held = q.held \cup {s}]
      OBVIOUS
    <2>3. run' = [run EXCEPT ![i] = r] /\ q.job = "queued"
      BY <1>2, <2>1, <2>2 DEF Acquire
    <2>4. RunOK(q) /\ q \in RunRecord /\ q.owner # None /\ q # Over
      BY <1>0, <2>1, LiveRuns, RecordIsLive
    <2>5. r \in RunRecord /\ r.held = q.held \cup {s}
      BY <2>2, <2>4 DEF RunRecord
    <2>6. /\ r.phase = q.phase /\ r.owner = q.owner /\ r.content = q.content /\ r.job = q.job
          /\ r.rx = q.rx /\ r.got = q.got /\ r.resume = q.resume /\ r.chan = q.chan /\ r.hand = q.hand
          /\ r.file = q.file /\ r.hash = q.hash
      BY <2>2, <2>4 DEF RunRecord
    <2>7. RunOK(r)
      BY <2>4, <2>5, <2>6 DEF RunOK, Busy, None
    <2>8. r # Over /\ Load(r) = Load(q) /\ Load(q) \in Nat
      BY <2>4, <2>6, <2>7, RecordIsLive, LoadType DEF Load
    <2>9. Succeeds(q, r) /\ Takes(q, r) /\ KeepsFile(q, r)
      BY <1>2, <2>3, <2>5, <2>6, <2>7, <2>8 DEF Succeeds, Takes, KeepsFile, Assembles, Measured
    <2> QED
      BY <1>0, <1>2, <2>1, <2>3, <2>6, <2>8, <2>9 DEF Moves
  <1>3. run[i].phase \in Phase /\ run[i].phase # "ack"
    BY <1>0, LiveRuns DEF Acquire, RunOK, None
  <1>4. \A k \in Missing(i) : Needs(run[i].phase)[k] \in Permit
    BY <1>3, PhasePermits DEF Missing
  <1> QED
    BY <1>1, <1>2, <1>4 DEF Acquire

\* A job with all its permits starts to work.
LEMMA StartJobMove ==
    ASSUME RunsOK, NEW i \in Owned, StartJob(i)
    PROVE  \E r : Moves(i, r) /\ KeepsFile(run[i], r)
  <1>0. i \in Live /\ run[i].owner # None /\ UNCHANGED call
    BY DEF Owned, StartJob
  <1>1. CASE JobFails(i)
    BY <1>0, <1>1, JobFailsMove
  <1>2. CASE run' = [run EXCEPT ![i].job = "working"] /\ UNCHANGED result
    <2>1. PICK q : q = run[i]
      OBVIOUS
    <2>2. PICK r : r = [q EXCEPT !.job = "working"]
      OBVIOUS
    <2>3. run' = [run EXCEPT ![i] = r] /\ q.job = "queued" /\ Missing(i) = {}
      BY <1>2, <2>1, <2>2 DEF StartJob
    <2>4. RunOK(q) /\ q \in RunRecord /\ q.owner # None /\ q # Over
      BY <1>0, <2>1, LiveRuns, RecordIsLive
    <2>5. r \in RunRecord /\ r.job = "working"
      BY <2>2, <2>4 DEF RunRecord, JobState, Busy
    <2>6. /\ r.phase = q.phase /\ r.owner = q.owner /\ r.content = q.content /\ r.held = q.held
          /\ r.rx = q.rx /\ r.got = q.got /\ r.resume = q.resume /\ r.chan = q.chan /\ r.hand = q.hand
          /\ r.file = q.file /\ r.hash = q.hash
      BY <2>2, <2>4 DEF RunRecord
    <2>7. q.phase \in FilePhase => "write" \in q.held
      <3>1. q.phase \in Phase /\ q.phase # "ack"
        BY <2>3, <2>4 DEF RunOK, RunRecord, None
      <3> QED
        BY <2>1, <2>3, <3>1, PhasePermits DEF Missing
    <2>8. RunOK(r)
      BY <2>3, <2>4, <2>5, <2>6, <2>7 DEF RunOK, Busy, None
    <2>9. r # Over /\ Load(r) = Load(q) /\ Load(q) \in Nat
      BY <2>4, <2>6, <2>8, RecordIsLive, LoadType DEF Load
    <2>10. Succeeds(q, r) /\ Shrinks(q, r) /\ KeepsFile(q, r)
      BY <2>3, <2>5, <2>6, <2>8, <2>9 DEF Succeeds, Shrinks, KeepsFile, Assembles, Measured
    <2> QED
      BY <1>0, <1>2, <2>1, <2>3, <2>6, <2>9, <2>10, QuietMove
  <1> QED
    BY <1>1, <1>2 DEF StartJob

\* A run takes up its next job, or is over if it has no caller.
LEMMA GoesOnMove ==
    ASSUME RunsOK, NEW i \in Live, NEW s, NEW r, r = [s EXCEPT !.held = {}], GoesOn(i, s),
           UNCHANGED <<call, result>>,
           run[i].owner # None => /\ Succeeds(run[i], r) /\ Shrinks(run[i], r)
                                  /\ r # Over /\ r.owner = run[i].owner
    PROVE  /\ run[i].owner = None => Moves(i, Over) /\ run' = [run EXCEPT ![i] = Over]
           /\ run[i].owner # None => Moves(i, r) /\ run' = [run EXCEPT ![i] = r]
  <1>1. CASE run[i].owner = None
    <2>1. run' = [run EXCEPT ![i] = Over]
      BY <1>1 DEF GoesOn
    <2> QED
      BY <1>1, <2>1, EndMove
  <1>2. CASE run[i].owner # None
    <2>1. run' = [run EXCEPT ![i] = r]
      BY <1>2 DEF GoesOn
    <2> QED
      BY <1>2, <2>1, QuietMove
  <1> QED
    BY <1>1, <1>2

\* An existing file is checked.
LEMMA ValidateMove ==
    ASSUME RunsOK, NEW i \in Live, validate_existing(i)
    PROVE  \E r : Moves(i, r) /\ KeepsFile(run[i], r)
  <1>0. UNCHANGED call /\ \A v : v \in {"ok", "error"} /\ Reports(i, v) => Moves(i, Over) /\ KeepsFile(run[i], Over)
    BY ReportsMove DEF validate_existing
  <1>1. CASE Reports(i, IF Valid(final[DigestOf[run[i].content]]) THEN "ok" ELSE "error")
    BY <1>0, <1>1
  <1>2. ASSUME NEW s, s = [run[i] EXCEPT !.phase = "prepare", !.job = "start"],
               GoesOn(i, s), UNCHANGED result
        PROVE  \E r : Moves(i, r) /\ KeepsFile(run[i], r)
    <2>1. PICK q : q = run[i]
      OBVIOUS
    <2>2. PICK r : r = [s EXCEPT !.held = {}]
      OBVIOUS
    <2>3. RunOK(q) /\ q \in RunRecord /\ q # Over /\ q.phase = "validate"
      BY <2>1, LiveRuns, RecordIsLive DEF validate_existing
    <2>4. s \in RunRecord /\ s.phase = "prepare" /\ s.job = "start"
      BY <1>2, <2>1, <2>3 DEF RunRecord, JobState, Phase
    <2>5. /\ s.owner = q.owner /\ s.content = q.content /\ s.rx = q.rx /\ s.got = q.got
          /\ s.chan = q.chan /\ s.hand = q.hand /\ s.resume = q.resume
      BY <1>2, <2>1, <2>3 DEF RunRecord
    <2>6. r \in RunRecord /\ r.held = {}
      BY <2>2, <2>4 DEF RunRecord
    <2>7. /\ r.owner = q.owner /\ r.content = q.content /\ r.phase = "prepare" /\ r.job = "start"
          /\ r.rx = q.rx /\ r.got = q.got /\ r.chan = q.chan /\ r.hand = q.hand /\ r.resume = q.resume
      BY <2>2, <2>4, <2>5 DEF RunRecord
    <2>8. q.owner # None => RunOK(r)
      BY <2>3, <2>6, <2>7 DEF RunOK, Busy, None
    <2>9. q.owner # None => r # Over /\ Load(r) = Load(q) /\ Load(q) \in Nat
      BY <2>3, <2>7, <2>8, RecordIsLive, LoadType DEF Load
    <2>10. q.owner # None => Succeeds(q, r) /\ Shrinks(q, r)
      BY <2>3, <2>6, <2>7, <2>8, <2>9 DEF Succeeds, Shrinks, NextPhases
    <2>11. KeepsFile(q, r) /\ KeepsFile(q, Over)
      BY <2>7 DEF KeepsFile, Assembles, Measured
    <2> QED
      BY <1>0, <1>2, <2>1, <2>2, <2>7, <2>9, <2>10, <2>11, GoesOnMove
  <1> QED
    BY <1>1, <1>2 DEF validate_existing

\* Only the receiving half moves.
Receives(q, r) ==
    /\ r \in RunRecord /\ r.rx # "ready" /\ (r.rx \in {"chunks", "chunk"} => q.resume + q.got < Size)
    /\ r.phase = q.phase /\ r.owner = q.owner /\ r.content = q.content /\ r.job = q.job
    /\ r.held = q.held /\ r.got = q.got /\ r.resume = q.resume /\ r.chan = q.chan
    /\ r.hand = q.hand /\ r.file = q.file /\ r.hash = q.hash

\* A step of the receiving half of a transfer moves its run and leaves the file's state alone.
LEMMA ReceiverMove ==
    ASSUME RunsOK, NEW i \in Live, UNCHANGED <<call, result>>, run[i].rx # None,
           NEW r, Receives(run[i], r), run' = [run EXCEPT ![i] = r]
    PROVE  Moves(i, r) /\ KeepsFile(run[i], r)
  <1>1. PICK q : q = run[i]
    OBVIOUS
  <1>2. RunOK(q) /\ q \in RunRecord /\ q # Over /\ q.rx # None
    BY <1>1, LiveRuns, RecordIsLive
  <1>3. RunOK(r)
    BY <1>1, <1>2 DEF RunOK, Receives
  <1>4. r # Over /\ Load(r) = Load(q) /\ Load(q) \in Nat
    BY <1>1, <1>2, <1>3, RecordIsLive, LoadType DEF Load, Receives
  <1>5. Succeeds(q, r) /\ Shrinks(q, r) /\ KeepsFile(q, r) /\ r.owner = q.owner
    BY <1>1, <1>3, <1>4 DEF Succeeds, Shrinks, KeepsFile, Assembles, Measured, Receives
  <1> QED
    BY <1>1, <1>4, <1>5, QuietMove

\* The receiving half enters another state.
LEMMA ReceiverEnters ==
    ASSUME RunsOK, NEW i \in Live, UNCHANGED <<call, result>>, run[i].rx # None, NEW x \in Receiver,
           x # "ready", x \in {"chunks", "chunk"} => run[i].resume + run[i].got < Size,
           run' = [run EXCEPT ![i].rx = x]
    PROVE  \E r : Moves(i, r) /\ KeepsFile(run[i], r)
  <1>1. PICK q : q = run[i]
    OBVIOUS
  <1>2. RunOK(q) /\ q \in RunRecord
    BY <1>1, LiveRuns
  <1>3. PICK r : r = [q EXCEPT !.rx = x]
    OBVIOUS
  <1>4. run' = [run EXCEPT ![i] = r]
    BY <1>1, <1>3
  <1>5. r \in RunRecord /\ r.rx = x
    BY <1>2, <1>3 DEF RunRecord
  <1>6. /\ r.phase = q.phase /\ r.owner = q.owner /\ r.content = q.content /\ r.job = q.job
        /\ r.held = q.held /\ r.got = q.got /\ r.resume = q.resume /\ r.chan = q.chan
        /\ r.hand = q.hand /\ r.file = q.file /\ r.hash = q.hash
    BY <1>2, <1>3 DEF RunRecord
  <1>7. Receives(run[i], r)
    BY <1>1, <1>5, <1>6 DEF Receives
  <1> QED
    BY <1>4, <1>7, ReceiverMove

\* The writer of a run is cancelled.
LEMMA StoreCancelledMove ==
    ASSUME RunsOK, NEW i \in Live, StoreCancelled(i)
    PROVE  \E r : Moves(i, r) /\ KeepsFile(run[i], r)
  <1>1. PICK q : q = run[i]
    OBVIOUS
  <1>2. RunOK(q) /\ q \in RunRecord
    BY <1>1, LiveRuns
  <1>3. PICK r : r = [q EXCEPT !.cancelled = TRUE]
    OBVIOUS
  <1>4. run' = [run EXCEPT ![i] = r] /\ UNCHANGED <<call, result>>
    BY <1>1, <1>3 DEF StoreCancelled
  <1>5. r \in RunRecord
    BY <1>2, <1>3 DEF RunRecord
  <1>6. /\ r.phase = q.phase /\ r.owner = q.owner /\ r.content = q.content /\ r.job = q.job
        /\ r.held = q.held /\ r.got = q.got /\ r.resume = q.resume /\ r.chan = q.chan
        /\ r.hand = q.hand /\ r.file = q.file /\ r.hash = q.hash /\ r.rx = q.rx
    BY <1>2, <1>3 DEF RunRecord
  <1>7. RunOK(r)
    BY <1>2, <1>5, <1>6 DEF RunOK
  <1>8. q # Over /\ r # Over /\ Load(r) = Load(q) /\ Load(q) \in Nat
    BY <1>2, <1>6, <1>7, RecordIsLive, LoadType DEF Load
  <1>9. Succeeds(q, r) /\ Shrinks(q, r) /\ KeepsFile(q, r)
    BY <1>6, <1>7, <1>8 DEF Succeeds, Shrinks, KeepsFile, Assembles, Measured
  <1> QED
    BY <1>1, <1>4, <1>6, <1>8, <1>9, QuietMove

\* The receiving half fails.
LEMMA ReceiveFailsMove ==
    ASSUME RunsOK, NEW i \in Live, UNCHANGED <<call, result>>, run[i].rx # None,
           NEW x \in {"failed", "protocol"}, ReceiveFails(i, x)
    PROVE  \E r : Moves(i, r) /\ KeepsFile(run[i], r)
  BY ReceiverEnters DEF ReceiveFails, Receiver

\* The request is answered, or the connection fails.
LEMMA ConnectMove ==
    ASSUME RunsOK, NEW i \in Live, Connect(i)
    PROVE  \E r : Moves(i, r) /\ KeepsFile(run[i], r)
  <1>0. run[i].rx = "ready" /\ run[i].rx # None /\ UNCHANGED <<call, result>>
    BY DEF Connect, None
  <1>1. CASE run' = [run EXCEPT ![i].rx = IF run[i].resume = Size THEN "done" ELSE "chunks"]
    <2>1. PICK x : x = IF run[i].resume = Size THEN "done" ELSE "chunks"
      OBVIOUS
    <2>2. x \in Receiver /\ x # "ready"
      BY <2>1 DEF Receiver
    <2>3. x \in {"chunks", "chunk"} => run[i].resume + run[i].got < Size
      <3>1. run[i].got = 0 /\ run[i].resume \in 0..Size /\ Size \in Nat
        BY <1>0, LiveRuns, LocalizationConstants DEF RunOK, RunRecord
      <3> QED
        BY <2>1, <3>1
    <2> QED
      BY <1>0, <1>1, <2>1, <2>2, <2>3, ReceiverEnters
  <1>2. CASE ReceiveFails(i, "failed") \/ ReceiveFails(i, "protocol")
    BY <1>0, <1>2, ReceiveFailsMove
  <1> QED
    BY <1>1, <1>2 DEF Connect

\* A chunk arrives, or the connection fails.
LEMMA ReceiveMove ==
    ASSUME RunsOK, NEW i \in Live, Receive(i)
    PROVE  \E r : Moves(i, r) /\ KeepsFile(run[i], r)
  <1>0. run[i].rx = "chunks" /\ run[i].rx # None /\ UNCHANGED <<call, result>>
    BY DEF Receive, None
  <1>1. run[i].resume + run[i].got < Size
    BY <1>0, LiveRuns DEF RunOK
  <1>2. CASE run' = [run EXCEPT ![i].rx = "chunk"]
    BY <1>0, <1>1, <1>2, ReceiverEnters DEF Receiver
  <1>3. CASE ReceiveFails(i, "failed") \/ ReceiveFails(i, "protocol")
    BY <1>0, <1>3, ReceiveFailsMove
  <1> QED
    BY <1>2, <1>3 DEF Receive

\* A chunk goes to the writer.
LEMMA ForwardMove ==
    ASSUME RunsOK, NEW i \in Live, Forward(i)
    PROVE  \E r : Moves(i, r) /\ KeepsFile(run[i], r)
  <1>0. run[i].rx = "chunk" /\ run[i].rx # None /\ UNCHANGED <<call, result>>
    BY DEF Forward, None
  <1>1. CASE ReceiveFails(i, "failed")
    BY <1>0, <1>1, ReceiveFailsMove
  <1>2. ASSUME BufferedChunks < MaxBuffers,
               NEW x, x = (IF run[i].resume + run[i].got + 1 = Size THEN "done" ELSE "chunks"),
               run' = [run EXCEPT ![i].chan = Append(@, Chunk(run[i].content, run[i].resume + run[i].got + 1)),
                                  ![i].got = @ + 1, ![i].rx = x]
        PROVE  \E r : Moves(i, r) /\ KeepsFile(run[i], r)
    <2>1. PICK q : q = run[i]
      OBVIOUS
    <2>2. PICK k : k = Chunk(q.content, q.resume + q.got + 1)
      OBVIOUS
    <2>3. PICK r : r = [q EXCEPT !.chan = Append(q.chan, k), !.got = q.got + 1, !.rx = x]
      OBVIOUS
    <2>4. run' = [run EXCEPT ![i] = r]
      BY <1>2, <2>1, <2>2, <2>3
    <2>5. RunOK(q) /\ q \in RunRecord /\ q # Over /\ q.rx = "chunk"
      BY <1>0, <2>1, LiveRuns, RecordIsLive
    <2>6. /\ q.resume \in 0..Size /\ q.got \in 0..Size /\ Size \in Nat /\ q.resume + q.got < Size
          /\ q.chan \in Seq(Nat) /\ q.hand \in Seq(Nat)
      BY <2>5, LocalizationConstants DEF RunOK, RunRecord
    <2>7. k \in Nat /\ q.got + 1 \in 0..Size
      BY <2>2, <2>6 DEF Chunk
    <2>8. x \in Receiver /\ x # "ready" /\ (x \in {"chunks", "chunk"} => q.resume + (q.got + 1) < Size)
      BY <1>2, <2>1, <2>6 DEF Receiver
    <2>9. Append(q.chan, k) \in Seq(Nat) /\ Len(Append(q.chan, k)) = Len(q.chan) + 1
      BY <2>6, <2>7
    <2>10. r \in RunRecord /\ r.chan = Append(q.chan, k) /\ r.got = q.got + 1 /\ r.rx = x
      BY <2>3, <2>5, <2>7, <2>8, <2>9 DEF RunRecord
    <2>11. /\ r.phase = q.phase /\ r.owner = q.owner /\ r.content = q.content /\ r.job = q.job
           /\ r.held = q.held /\ r.resume = q.resume /\ r.hand = q.hand /\ r.file = q.file /\ r.hash = q.hash
      BY <2>3, <2>5 DEF RunRecord
    <2>12. q.phase \notin {"validate", "prepare"}
      BY <2>5 DEF RunOK, None
    <2>13. RunOK(r)
      BY <2>5, <2>8, <2>10, <2>11, <2>12 DEF RunOK
    <2>14. r # Over /\ Load(r) = Load(q) + 1 /\ Load(q) \in Nat
      <3>1. r # Over /\ Load(q) \in Nat
        BY <2>5, <2>13, RecordIsLive, LoadType
      <3>2. Load(r) = Len(Append(q.chan, k)) + Len(q.hand) /\ Load(q) = Len(q.chan) + Len(q.hand)
        BY <2>5, <2>10, <2>11, <3>1 DEF Load
      <3>3. Len(q.chan) \in Nat /\ Len(q.hand) \in Nat
        BY <2>6
      <3>4. \A a, b \in Nat : (a + 1) + b = (a + b) + 1
        OBVIOUS
      <3> QED
        BY <2>9, <3>1, <3>2, <3>3, <3>4
    <2>15. Succeeds(q, r) /\ KeepsFile(q, r)
      BY <2>11, <2>13 DEF Succeeds, KeepsFile, Assembles, Measured
    <2>16. Takes(q, r)
      BY <1>2, <2>11, <2>14 DEF Takes
    <2> QED
      BY <1>0, <2>1, <2>4, <2>11, <2>14, <2>15, <2>16 DEF Moves
  <1> QED
    BY <1>1, <1>2 DEF Forward

\* The writer takes a chunk.
LEMMA WriterTakesMove ==
    ASSUME RunsOK, NEW i \in Live, WriterTakes(i)
    PROVE  \E r : Moves(i, r) /\ KeepsFile(run[i], r)
  <1>1. CASE JobFails(i)
    BY <1>1, JobFailsMove DEF WriterTakes
  <1>2. CASE run' = [run EXCEPT ![i].hand = <<Head(run[i].chan)>>, ![i].chan = Tail(@)] /\ UNCHANGED <<call, result>>
    <2>1. PICK q : q = run[i]
      OBVIOUS
    <2>2. PICK r : r = [q EXCEPT !.hand = <<Head(q.chan)>>, !.chan = Tail(q.chan)]
      OBVIOUS
    <2>3. run' = [run EXCEPT ![i] = r] /\ q.phase = "transfer" /\ q.hand = <<>> /\ q.chan # <<>>
      BY <1>2, <2>1, <2>2 DEF WriterTakes, Writing
    <2>4. RunOK(q) /\ q \in RunRecord /\ q # Over /\ q.chan \in Seq(Nat)
      BY <2>1, LiveRuns, RecordIsLive DEF RunRecord
    <2>5. Head(q.chan) \in Nat /\ Tail(q.chan) \in Seq(Nat) /\ Len(Tail(q.chan)) + 1 = Len(q.chan)
      BY <2>3, <2>4
    <2>6. <<Head(q.chan)>> \in Seq(Nat) /\ Len(<<Head(q.chan)>>) = 1 /\ Len(q.hand) = 0
      BY <2>3, <2>5
    <2>7. r \in RunRecord /\ r.hand = <<Head(q.chan)>> /\ r.chan = Tail(q.chan)
      BY <2>2, <2>4, <2>5, <2>6 DEF RunRecord
    <2>8. /\ r.phase = q.phase /\ r.owner = q.owner /\ r.content = q.content /\ r.job = q.job
          /\ r.held = q.held /\ r.resume = q.resume /\ r.got = q.got /\ r.rx = q.rx
          /\ r.file = q.file /\ r.hash = q.hash
      BY <2>2, <2>4 DEF RunRecord
    <2>9. RunOK(r)
      BY <2>3, <2>4, <2>7, <2>8 DEF RunOK
    <2>10. r # Over /\ Load(r) = Load(q) /\ Load(q) \in Nat
      <3>1. r # Over /\ Load(q) \in Nat
        BY <2>4, <2>9, RecordIsLive, LoadType
      <3>2. Load(r) = Len(Tail(q.chan)) + 1 /\ Load(q) = Len(q.chan) + 0
        BY <2>4, <2>6, <2>7, <3>1 DEF Load
      <3>3. Len(q.chan) + 0 = Len(q.chan)
        BY <2>4
      <3> QED
        BY <2>5, <3>1, <3>2, <3>3
    <2>11. Succeeds(q, r) /\ Shrinks(q, r) /\ KeepsFile(q, r)
      BY <2>8, <2>9, <2>10 DEF Succeeds, Shrinks, KeepsFile, Assembles, Measured
    <2> QED
      BY <1>2, <2>1, <2>3, <2>8, <2>10, <2>11, QuietMove
  <1> QED
    BY <1>1, <1>2 DEF WriterTakes

\* The writer has got everything.
LEMMA WriterEndsMove ==
    ASSUME RunsOK, NEW i \in Live, WriterEnds(i)
    PROVE  \E r : Moves(i, r) /\ KeepsFile(run[i], r)
  <1>1. CASE JobFails(i)
    BY <1>1, JobFailsMove DEF WriterEnds
  <1>2. CASE run' = [run EXCEPT ![i].job = "commit"] /\ UNCHANGED <<call, result>>
    <2>1. PICK q : q = run[i]
      OBVIOUS
    <2>2. PICK r : r = [q EXCEPT !.job = "commit"]
      OBVIOUS
    <2>3. run' = [run EXCEPT ![i] = r] /\ q.phase = "transfer" /\ q.job = "working"
      BY <1>2, <2>1, <2>2 DEF WriterEnds, Writing
    <2>4. RunOK(q) /\ q \in RunRecord /\ q # Over
      BY <2>1, LiveRuns, RecordIsLive
    <2>5. r \in RunRecord /\ r.job = "commit"
      BY <2>2, <2>4 DEF RunRecord, JobState, Busy
    <2>6. /\ r.phase = q.phase /\ r.owner = q.owner /\ r.content = q.content /\ r.held = q.held
          /\ r.rx = q.rx /\ r.got = q.got /\ r.resume = q.resume /\ r.chan = q.chan /\ r.hand = q.hand
          /\ r.file = q.file /\ r.hash = q.hash
      BY <2>2, <2>4 DEF RunRecord
    <2>7. RunOK(r)
      BY <2>3, <2>4, <2>5, <2>6 DEF RunOK, Busy
    <2>8. r # Over /\ Load(r) = Load(q) /\ Load(q) \in Nat
      BY <2>4, <2>6, <2>7, RecordIsLive, LoadType DEF Load
    <2>9. Succeeds(q, r) /\ Shrinks(q, r) /\ KeepsFile(q, r)
      BY <2>3, <2>5, <2>6, <2>7, <2>8 DEF Succeeds, Shrinks, KeepsFile, Assembles, Measured
    <2> QED
      BY <1>2, <2>1, <2>3, <2>6, <2>8, <2>9, QuietMove
  <1> QED
    BY <1>1, <1>2 DEF WriterEnds

\* Both halves are joined.
LEMMA JoinMove ==
    ASSUME RunsOK, NEW i \in Live, Join(i)
    PROVE  \E r : Moves(i, r) /\ KeepsFile(run[i], r)
  <1>0. run[i].owner # None /\ UNCHANGED call /\ run[i].phase = "transfer"
    BY DEF Join
  <1>1. CASE Ends(i, "error")
    BY <1>0, <1>1, EndsMove
  <1>2. ASSUME NEW ph \in {"remove", "ack"}, NEW j, j = (IF ph = "remove" THEN "start" ELSE None),
               NEW b \in BOOLEAN, b = (IF ph = "remove" THEN FALSE ELSE run[i].cancelled),
               run' = [run EXCEPT ![i] = [run[i] EXCEPT !.phase = ph, !.job = j, !.cancelled = b]],
               UNCHANGED result
        PROVE  \E r : Moves(i, r) /\ KeepsFile(run[i], r)
    <2>1. PICK q : q = run[i]
      OBVIOUS
    <2>2. PICK r : r = [q EXCEPT !.phase = ph, !.job = j, !.cancelled = b]
      OBVIOUS
    <2>3. run' = [run EXCEPT ![i] = r] /\ q.phase = "transfer"
      BY <1>0, <1>2, <2>1, <2>2
    <2>4. RunOK(q) /\ q \in RunRecord /\ q # Over
      BY <2>1, LiveRuns, RecordIsLive
    <2>5. r \in RunRecord /\ r.job = j /\ r.phase = ph
      BY <1>2, <2>2, <2>4 DEF RunRecord, JobState, Phase
    <2>6. /\ r.owner = q.owner /\ r.content = q.content /\ r.held = q.held
          /\ r.rx = q.rx /\ r.got = q.got /\ r.resume = q.resume /\ r.chan = q.chan /\ r.hand = q.hand
      BY <2>2, <2>4 DEF RunRecord
    <2>7. RunOK(r)
      BY <1>0, <1>2, <2>1, <2>4, <2>5, <2>6 DEF RunOK, Busy, None
    <2>8. r # Over /\ Load(r) = Load(q) /\ Load(q) \in Nat
      BY <2>4, <2>6, <2>7, RecordIsLive, LoadType DEF Load
    <2>9. r.job # "queued"
      BY <1>2, <2>5 DEF None
    <2>10. Succeeds(q, r) /\ Shrinks(q, r) /\ KeepsFile(q, r)
      BY <1>0, <1>2, <2>1, <2>3, <2>5, <2>6, <2>7, <2>8, <2>9
         DEF Succeeds, Shrinks, KeepsFile, Assembles, Measured, NextPhases
    <2> QED
      BY <1>0, <1>2, <2>1, <2>3, <2>6, <2>8, <2>10, QuietMove
  <1>3. run[i].cancelled \in BOOLEAN /\ run[i] \in RunRecord
    BY LiveRuns DEF RunRecord
  <1>4. CASE run' = [run EXCEPT ![i].phase = "remove", ![i].job = "start", ![i].cancelled = FALSE] /\ UNCHANGED result
    BY <1>2, <1>4
  <1>5. CASE run' = [run EXCEPT ![i].phase = "ack", ![i].job = None] /\ UNCHANGED result
    <2>1. [run[i] EXCEPT !.phase = "ack", !.job = None]
            = [run[i] EXCEPT !.phase = "ack", !.job = None, !.cancelled = run[i].cancelled]
      BY <1>3 DEF RunRecord
    <2>2. run' = [run EXCEPT ![i] = [run[i] EXCEPT !.phase = "ack", !.job = None, !.cancelled = run[i].cancelled]]
      BY <1>5, <2>1
    <2> QED
      BY <1>2, <1>3, <1>5, <2>2
  <1> QED
    BY <1>1, <1>4, <1>5 DEF Join

\* The acknowledgement is sent, or not.
LEMMA AcknowledgeMove ==
    ASSUME RunsOK, NEW i \in Live, Acknowledge(i)
    PROVE  \E r : Moves(i, r) /\ KeepsFile(run[i], r)
  BY EndsMove DEF Acknowledge

-----------------------------------------------------------------------------
(* The steps that touch files.                                               *)

FilesTyped ==
    /\ disk \in [1..MaxRuns -> Seq(Nat)]
    /\ partial \in [Digest -> 0..MaxRuns] /\ final \in [Digest -> 0..MaxRuns]

\* The length of the partial file of a digest.
PartialLength(c) == IF partial[c] = 0 THEN 0 ELSE Len(disk[partial[c]])

\* The partial file is measured; it is removed if it is too long.
LEMMA PrepareStatMove ==
    ASSUME RunsOK, FilesTyped, NEW i \in Live, PrepareStat(i)
    PROVE  \E r : /\ Moves(i, r) /\ Measured(r) /\ ~Assembles(r) /\ r.resume = PartialLength(DigestOf[r.content])'
                  /\ \/ UNCHANGED partial
                     \/ partial' = [partial EXCEPT ![DigestOf[run[i].content]] = 0]
  <1>1. PICK q : q = run[i]
    OBVIOUS
  <1>2. PICK c : c = DigestOf[q.content]
    OBVIOUS
  <1>3. PICK n : n = IF PartialLength(c) <= Size THEN PartialLength(c) ELSE 0
    OBVIOUS
  <1>4. PICK r : r = [q EXCEPT !.resume = n, !.job = "measured"]
    OBVIOUS
  <1>5. /\ run' = [run EXCEPT ![i] = r] /\ q.phase = "prepare" /\ q.job = "working"
        /\ UNCHANGED <<call, result, disk, final>>
        /\ partial' = [partial EXCEPT ![c] = IF PartialLength(c) <= Size THEN @ ELSE 0]
    BY <1>1, <1>2, <1>3, <1>4 DEF PrepareStat, PartialLength
  <1>6. RunOK(q) /\ q \in RunRecord /\ q # Over /\ c \in Digest
    BY <1>1, <1>2, LiveRuns, RecordIsLive, LocalizationConstants DEF RunRecord
  <1>7. PartialLength(c) \in Nat
    <2>1. partial[c] \in 0..MaxRuns /\ (partial[c] # 0 => disk[partial[c]] \in Seq(Nat))
      BY <1>6, LocalizationConstants DEF FilesTyped
    <2> QED
      BY <2>1 DEF PartialLength
  <1>8. n \in 0..Size /\ Size \in Nat
    BY <1>3, <1>7, LocalizationConstants
  <1>9. r \in RunRecord /\ r.resume = n /\ r.job = "measured"
    BY <1>4, <1>6, <1>8 DEF RunRecord, JobState, Busy
  <1>10. /\ r.phase = q.phase /\ r.owner = q.owner /\ r.content = q.content /\ r.held = q.held
         /\ r.rx = q.rx /\ r.got = q.got /\ r.chan = q.chan /\ r.hand = q.hand
    BY <1>4, <1>6 DEF RunRecord
  <1>11. RunOK(r)
    BY <1>5, <1>6, <1>9, <1>10 DEF RunOK, Busy, None
  <1>12. r # Over /\ Load(r) = Load(q) /\ Load(q) \in Nat
    BY <1>6, <1>10, <1>11, RecordIsLive, LoadType DEF Load
  <1>13. Succeeds(q, r) /\ Shrinks(q, r) /\ Measured(r) /\ ~Assembles(r)
    BY <1>5, <1>9, <1>10, <1>11, <1>12 DEF Succeeds, Shrinks, Measured, Assembles
  <1>14. Moves(i, r)
    BY <1>1, <1>5, <1>10, <1>12, <1>13, QuietMove
  <1>15. r.resume = PartialLength(c)' /\ (UNCHANGED partial \/ partial' = [partial EXCEPT ![c] = 0])
    <2>1. CASE PartialLength(c) <= Size
      <3>1. UNCHANGED partial
        BY <1>5, <2>1 DEF FilesTyped
      <3> QED
        BY <1>3, <1>5, <1>9, <2>1, <3>1 DEF PartialLength
    <2>2. CASE ~(PartialLength(c) <= Size)
      <3>1. partial' = [partial EXCEPT ![c] = 0] /\ partial'[c] = 0
        BY <1>5, <1>6, <2>2 DEF FilesTyped
      <3> QED
        BY <1>3, <1>9, <2>2, <3>1 DEF PartialLength
    <2> QED
      BY <2>1, <2>2
  <1> QED
    BY <1>1, <1>2, <1>10, <1>13, <1>14, <1>15

\* The partial file that a run opens: its own one if there is none.
Opened(i) == IF partial[DigestOf[run[i].content]] = 0 THEN i ELSE partial[DigestOf[run[i].content]]

\* The file is opened for appending, and what is in it is hashed.
LEMMA PrepareOpenMove ==
    ASSUME RunsOK, FilesTyped, NEW i \in Live, i \in 1..MaxRuns, PrepareOpen(i)
    PROVE  \E r :
              /\ Moves(i, r) /\ ~Measured(r)
              /\ \/ UNCHANGED partial /\ KeepsFile(run[i], r) /\ ~Assembles(r)
                 \/ /\ partial' = [partial EXCEPT ![DigestOf[run[i].content]] = Opened(i)]
                    /\ r # Over => /\ r.phase = "transfer" /\ r.file = Opened(i)
                                   /\ r.hash = IF run[i].resume > 0 THEN disk[Opened(i)] ELSE <<>>
  <1>1. PICK q : q = run[i]
    OBVIOUS
  <1>2. PICK c : c = DigestOf[q.content]
    OBVIOUS
  <1>3. PICK f : f = Opened(i)
    OBVIOUS
  <1>4. UNCHANGED <<call, disk, final>> /\ q.phase = "prepare" /\ q.job = "measured"
    BY <1>1 DEF PrepareOpen
  <1>5. CASE JobFails(i) /\ UNCHANGED partial
    <2>1. PICK r : Moves(i, r) /\ KeepsFile(run[i], r) /\ ~Assembles(r)
      BY <1>4, <1>5, JobFailsMove
    <2>2. r = Over
      BY <1>1, <1>4, <1>5, <2>1, LiveRuns DEF JobFails, Reports, Ends, Moves
    <2>3. ~Measured(r)
      BY <2>2 DEF Measured, Over
    <2> QED
      BY <1>5, <2>1, <2>3
  <1>6. ASSUME NEW s, s = [q EXCEPT !.phase = "transfer", !.job = "start", !.rx = "ready",
                                   !.hash = IF q.resume > 0 THEN disk[f] ELSE <<>>,
                                   !.file = f, !.written = q.resume],
               GoesOn(i, s), partial' = [partial EXCEPT ![c] = f], UNCHANGED result
        PROVE  \E r : /\ Moves(i, r) /\ ~Measured(r)
                      /\ partial' = [partial EXCEPT ![c] = f]
                      /\ r # Over => /\ r.phase = "transfer" /\ r.file = f
                                     /\ r.hash = IF q.resume > 0 THEN disk[f] ELSE <<>>
    <2>1. RunOK(q) /\ q \in RunRecord /\ q # Over /\ c \in Digest
      BY <1>1, <1>2, LiveRuns, RecordIsLive, LocalizationConstants DEF RunRecord
    <2>2. f \in 1..MaxRuns /\ f \in 0..MaxRuns /\ disk[f] \in Seq(Nat)
      <3>1. partial[c] \in 0..MaxRuns
        BY <2>1 DEF FilesTyped
      <3>2. f \in 1..MaxRuns
        BY <1>1, <1>2, <1>3, <3>1, LocalizationConstants DEF Opened
      <3> QED
        BY <3>2, LocalizationConstants DEF FilesTyped
    <2>3. PICK h : h = (IF q.resume > 0 THEN disk[f] ELSE <<>>)
      OBVIOUS
    <2>4. h \in Seq(Nat) /\ q.resume \in Nat
      <3>1. <<>> \in Seq(Nat)
        OBVIOUS
      <3> QED
        BY <2>1, <2>2, <2>3, <3>1, LocalizationConstants DEF RunRecord
    <2>5. s \in RunRecord /\ s.phase = "transfer" /\ s.job = "start" /\ s.rx = "ready" /\ s.hash = h /\ s.file = f
      BY <1>6, <2>1, <2>2, <2>3, <2>4 DEF RunRecord, JobState, Phase, Receiver
    <2>6. /\ s.owner = q.owner /\ s.content = q.content /\ s.got = q.got
          /\ s.chan = q.chan /\ s.hand = q.hand /\ s.resume = q.resume
      BY <1>6, <2>1 DEF RunRecord
    <2>7. PICK r : r = [s EXCEPT !.held = {}]
      OBVIOUS
    <2>8. r \in RunRecord /\ r.held = {}
      BY <2>5, <2>7 DEF RunRecord
    <2>9. /\ r.phase = "transfer" /\ r.job = "start" /\ r.rx = "ready" /\ r.hash = h /\ r.file = f
          /\ r.owner = q.owner /\ r.content = q.content /\ r.got = q.got
          /\ r.chan = q.chan /\ r.hand = q.hand /\ r.resume = q.resume
      BY <2>5, <2>6, <2>7 DEF RunRecord
    <2>10. q.owner # None => RunOK(r)
      BY <1>4, <2>1, <2>8, <2>9 DEF RunOK, Busy, None
    <2>11. q.owner # None => r # Over /\ Load(r) = Load(q) /\ Load(q) \in Nat
      BY <2>1, <2>9, <2>10, RecordIsLive, LoadType DEF Load
    <2>12. q.owner # None => Succeeds(q, r) /\ Shrinks(q, r)
      BY <1>4, <2>8, <2>9, <2>10, <2>11 DEF Succeeds, Shrinks, NextPhases
    <2>13. ~Measured(r) /\ ~Measured(Over)
      BY <2>9 DEF Measured, Over
    <2>14. /\ q.owner = None => Moves(i, Over)
           /\ q.owner # None => Moves(i, r)
      <3>1. run[i].owner # None => /\ Succeeds(run[i], r) /\ Shrinks(run[i], r)
                                   /\ r # Over /\ r.owner = run[i].owner
        BY <1>1, <2>9, <2>11, <2>12
      <3>2. GoesOn(i, s) /\ UNCHANGED <<call, result>>
        BY <1>4, <1>6
      <3> QED
        BY <1>1, <2>7, <3>1, <3>2, GoesOnMove
    <2> QED
      BY <1>6, <2>3, <2>9, <2>13, <2>14
  <1> QED
    BY <1>1, <1>2, <1>3, <1>5, <1>6 DEF PrepareOpen, Opened

\* The writer appends a chunk to the file and to what it hashes.
LEMMA WriterWritesMove ==
    ASSUME RunsOK, NEW i \in Live, WriterWrites(i)
    PROVE  \E r : /\ Moves(i, r) /\ Assembles(run[i]) /\ Assembles(r) /\ ~Measured(r)
                  /\ r.file = run[i].file /\ r.hash = run[i].hash \o run[i].hand
                  /\ "write" \in run[i].held /\ run[i].hand \in Seq(Nat) /\ r.content = run[i].content
  <1>1. PICK q : q = run[i]
    OBVIOUS
  <1>2. PICK r : r = [q EXCEPT !.hash = q.hash \o q.hand, !.written = q.written + 1, !.hand = <<>>]
    OBVIOUS
  <1>3. /\ run' = [run EXCEPT ![i] = r] /\ UNCHANGED <<call, result>>
        /\ q.phase = "transfer" /\ q.job = "working"
    BY <1>1, <1>2 DEF WriterWrites, Writing
  <1>4. RunOK(q) /\ q \in RunRecord /\ q # Over
    BY <1>1, LiveRuns, RecordIsLive
  <1>5. q.hash \o q.hand \in Seq(Nat) /\ q.written + 1 \in Nat /\ <<>> \in Seq(Nat) /\ q.hand \in Seq(Nat)
    BY <1>4 DEF RunRecord
  <1>6. r \in RunRecord /\ r.hash = q.hash \o q.hand /\ r.hand = <<>>
    BY <1>2, <1>4, <1>5 DEF RunRecord
  <1>7. /\ r.phase = q.phase /\ r.owner = q.owner /\ r.content = q.content /\ r.held = q.held /\ r.job = q.job
        /\ r.rx = q.rx /\ r.got = q.got /\ r.resume = q.resume /\ r.chan = q.chan /\ r.file = q.file
    BY <1>2, <1>4 DEF RunRecord
  <1>8. RunOK(r)
    BY <1>3, <1>4, <1>6, <1>7 DEF RunOK
  <1>9. r # Over /\ Load(r) <= Load(q)
    <2>1. r # Over /\ Load(q) \in Nat
      BY <1>4, <1>8, RecordIsLive, LoadType
    <2>2. Load(r) = Len(q.chan) + 0 /\ Load(q) = Len(q.chan) + Len(q.hand)
      BY <1>4, <1>6, <1>7, <2>1 DEF Load
    <2>3. Len(q.chan) \in Nat /\ Len(q.hand) \in Nat
      BY <1>4 DEF RunRecord
    <2>4. \A a, b \in Nat : a + 0 <= a + b
      OBVIOUS
    <2> QED
      BY <2>1, <2>2, <2>3, <2>4
  <1>10. Succeeds(q, r) /\ Shrinks(q, r)
    BY <1>7, <1>8, <1>9 DEF Succeeds, Shrinks
  <1>11. Moves(i, r)
    BY <1>1, <1>3, <1>7, <1>9, <1>10, QuietMove
  <1>12. Assembles(q) /\ Assembles(r) /\ ~Measured(r) /\ "write" \in q.held
    BY <1>3, <1>4, <1>7 DEF Assembles, Measured, RunOK, FilePhase, Busy
  <1> QED
    BY <1>1, <1>5, <1>6, <1>7, <1>11, <1>12

\* What was hashed is checked and the partial file is published or removed.
LEMMA WriterCommitsMove ==
    ASSUME RunsOK, FilesTyped, NEW i \in Live, WriterCommits(i)
    PROVE  \E r :
              /\ Moves(i, r) /\ KeepsFile(run[i], r) /\ ~Assembles(r)
              /\ Assembles(run[i]) /\ "write" \in run[i].held
              /\ \/ UNCHANGED <<partial, final>>
                 \/ partial' = [partial EXCEPT ![DigestOf[run[i].content]] = 0] /\ UNCHANGED final
                 \/ /\ DigestOk(i)
                    /\ partial' = [partial EXCEPT ![DigestOf[run[i].content]] = 0]
                    /\ final' = [final EXCEPT ![DigestOf[run[i].content]] = partial[DigestOf[run[i].content]]]
  <1>1. PICK q : q = run[i]
    OBVIOUS
  <1>2. UNCHANGED call /\ q.phase = "transfer" /\ q.job = "commit"
    BY <1>1 DEF WriterCommits
  <1>3. RunOK(q) /\ q \in RunRecord /\ q # Over
    BY <1>1, LiveRuns, RecordIsLive
  <1>4. Assembles(q) /\ "write" \in q.held
    BY <1>2, <1>3 DEF Assembles, RunOK, FilePhase, Busy
  <1>5. ASSUME JobFails(i),
               \/ partial' = [partial EXCEPT ![DigestOf[q.content]] = 0] /\ UNCHANGED final
               \/ UNCHANGED <<partial, final>>
        PROVE  \E r : Moves(i, r) /\ KeepsFile(run[i], r) /\ ~Assembles(r)
    BY <1>2, <1>5, JobFailsMove
  <1>6. ASSUME NEW s, s = [q EXCEPT !.job = "ok"], GoesOn(i, s), UNCHANGED result
        PROVE  \E r : Moves(i, r) /\ KeepsFile(run[i], r) /\ ~Assembles(r)
    <2>1. s \in RunRecord /\ s.job = "ok"
      BY <1>3, <1>6 DEF RunRecord, JobState
    <2>2. /\ s.phase = q.phase /\ s.owner = q.owner /\ s.content = q.content /\ s.rx = q.rx /\ s.got = q.got
          /\ s.resume = q.resume /\ s.chan = q.chan /\ s.hand = q.hand
      BY <1>3, <1>6 DEF RunRecord
    <2>3. PICK r : r = [s EXCEPT !.held = {}]
      OBVIOUS
    <2>4. r \in RunRecord /\ r.held = {}
      BY <2>1, <2>3 DEF RunRecord
    <2>5. /\ r.phase = q.phase /\ r.owner = q.owner /\ r.content = q.content /\ r.rx = q.rx /\ r.got = q.got
          /\ r.resume = q.resume /\ r.chan = q.chan /\ r.hand = q.hand /\ r.job = "ok"
      BY <2>1, <2>2, <2>3 DEF RunRecord
    <2>6. q.owner # None => RunOK(r)
      BY <1>2, <1>3, <2>4, <2>5 DEF RunOK, Busy, None
    <2>7. q.owner # None => r # Over /\ Load(r) = Load(q) /\ Load(q) \in Nat
      BY <1>3, <2>5, <2>6, RecordIsLive, LoadType DEF Load
    <2>8. q.owner # None => Succeeds(q, r) /\ Shrinks(q, r)
      BY <2>4, <2>5, <2>6, <2>7 DEF Succeeds, Shrinks
    <2>9. KeepsFile(q, r) /\ KeepsFile(q, Over) /\ ~Assembles(r) /\ ~Assembles(Over)
      BY <1>2, <2>5 DEF KeepsFile, Assembles, Measured, Over
    <2>10. run[i].owner # None => /\ Succeeds(run[i], r) /\ Shrinks(run[i], r)
                                  /\ r # Over /\ r.owner = run[i].owner
      BY <1>1, <2>5, <2>7, <2>8
    <2>11. GoesOn(i, s) /\ UNCHANGED <<call, result>>
      BY <1>2, <1>6
    <2> QED
      BY <1>1, <2>3, <2>9, <2>10, <2>11, GoesOnMove
  <1>7. CASE /\ DigestOk(i) /\ partial' = [partial EXCEPT ![DigestOf[q.content]] = 0]
             /\ final' = [final EXCEPT ![DigestOf[q.content]] = partial[DigestOf[q.content]]]
             /\ GoesOn(i, [q EXCEPT !.job = "ok"]) /\ UNCHANGED result
    BY <1>1, <1>4, <1>6, <1>7
  <1>8. CASE JobFails(i) /\ partial' = [partial EXCEPT ![DigestOf[q.content]] = 0] /\ UNCHANGED final
    BY <1>1, <1>4, <1>5, <1>8
  <1>9. CASE JobFails(i) /\ UNCHANGED <<partial, final>>
    BY <1>1, <1>4, <1>5, <1>9
  <1> QED
    BY <1>1, <1>7, <1>8, <1>9 DEF WriterCommits

\* The partial file is removed.
LEMMA RemoveMove ==
    ASSUME RunsOK, NEW i \in Live, remove_partial(i)
    PROVE  \E r : /\ Moves(i, r) /\ KeepsFile(run[i], r) /\ ~Assembles(r)
                  /\ run[i].phase = "remove" /\ run[i].job = "working" /\ "write" \in run[i].held
  <1>1. run[i].phase = "remove" /\ run[i].job = "working" /\ "write" \in run[i].held
    BY LiveRuns DEF remove_partial, RunOK, FilePhase, Busy
  <1> QED
    BY <1>1, JobFailsMove DEF remove_partial

-----------------------------------------------------------------------------
(* The runs together.                                                        *)

\* What holds of all runs after one has moved.
LEMMA MoveFacts ==
    ASSUME RunsOK, NEW i \in Live, NEW r, Moves(i, r)
    PROVE  /\ Len(run') = Len(run) /\ run'[i] = r /\ i \in 1..Len(run)
           /\ \A j \in 1..Len(run) : j # i => run'[j] = run[j]
           /\ RunsOK' /\ Live' \subseteq Live
           /\ \A j \in Owned' : /\ j \in Owned
                                /\ run'[j].owner = run[j].owner /\ run'[j].content = run[j].content
  <1>1. i \in 1..Len(run) /\ Len(run) \in Nat
    BY LiveRuns
  <1>2. r = Over \/ RunOK(r)
    BY DEF Moves, Succeeds
  <1>3. r \in {x \in RunRecord : RunOK(x)} \cup {Over}
    BY <1>2 DEF RunOK
  <1>4. RunsOK' /\ Len(run') = Len(run) /\ run'[i] = r /\ \A j \in 1..Len(run) : j # i => run'[j] = run[j]
    BY <1>1, <1>3 DEF RunsOK, Moves
  <1>5. Live' \subseteq Live
    BY <1>1, <1>4 DEF Live, Run
  <1>6. ASSUME NEW j \in Owned'
        PROVE  j \in Owned /\ run'[j].owner = run[j].owner /\ run'[j].content = run[j].content
    <2>1. j \in Live /\ run'[j] # Over /\ run'[j].owner # None /\ j \in 1..Len(run)
      BY <1>5, LiveRuns DEF Owned, Live
    <2>2. CASE j # i
      BY <1>4, <2>1, <2>2 DEF Owned
    <2>3. CASE j = i
      BY <1>4, <2>1, <2>3 DEF Owned, Moves, Succeeds
    <2> QED
      BY <2>2, <2>3
  <1> QED
    BY <1>1, <1>4, <1>5, <1>6

\* All runs go on without taking anything: callers or the process went away.
RunsShrink ==
    /\ RunsOK' /\ Len(run') = Len(run)
    /\ \A i \in 1..Len(run) :
          /\ Succeeds(run[i], run'[i]) /\ Shrinks(run[i], run'[i]) /\ KeepsFile(run[i], run'[i])
          /\ run[i] = Over => run'[i] = Over
          /\ run'[i] # Over /\ run'[i].owner # None => run'[i] = run[i]

\* The future of a call is dropped.
LEMMA DropShrinks ==
    ASSUME RunsOK, NEW p \in Caller, Drop(p)
    PROVE  RunsShrink /\ \A i \in 1..Len(run) : run[i].owner = p => run'[i] = Over \/ run'[i].owner = None
  <1>0. Len(run) \in Nat /\ p # None
    BY LiveRuns, LocalizationConstants
  <1>1. ASSUME NEW i \in 1..Len(run), NEW r, r = IF run[i].owner = p THEN Detached(i) ELSE run[i]
        PROVE  /\ r = Over \/ (r \in RunRecord /\ RunOK(r))
               /\ Succeeds(run[i], r) /\ Shrinks(run[i], r) /\ KeepsFile(run[i], r)
               /\ run[i] = Over => r = Over
               /\ r # Over /\ r.owner # None => r = run[i]
               /\ run[i].owner = p => r = Over \/ r.owner = None
    <2>1. PICK q : q = run[i]
      OBVIOUS
    <2>2. q = Over \/ (RunOK(q) /\ q \in RunRecord /\ q # Over)
      BY <2>1, LiveRuns, RecordIsLive DEF RunOK
    <2>3. Load(q) \in Nat /\ Load(Over) = 0
      BY <2>2, LoadType DEF Load
    <2>4. CASE r = q /\ q.owner # p
      BY <2>1, <2>2, <2>3, <2>4 DEF Succeeds, Shrinks, KeepsFile
    <2>5. CASE r = Over
      BY <2>1, <2>3, <2>5 DEF Succeeds, Shrinks, KeepsFile
    <2>6. CASE q # Over /\ q.job \in {"working", "measured", "commit"}
               /\ r = [q EXCEPT !.owner = None, !.rx = None, !.held = q.held]
      <3>1. r \in RunRecord /\ r.owner = None /\ r.rx = None
        BY <2>2, <2>6 DEF RunRecord, Receiver
      <3>2. /\ r.phase = q.phase /\ r.content = q.content /\ r.held = q.held /\ r.job = q.job
            /\ r.got = q.got /\ r.resume = q.resume /\ r.chan = q.chan /\ r.hand = q.hand
            /\ r.file = q.file /\ r.hash = q.hash
        BY <2>2, <2>6 DEF RunRecord
      <3>3. RunOK(r)
        BY <2>2, <2>6, <3>1, <3>2 DEF RunOK, Busy, None
      <3>4. r # Over /\ Load(r) = Load(q)
        <4>1. r # Over /\ q # Over
          BY <2>6, <3>3, RecordIsLive
        <4> QED
          BY <3>2, <4>1 DEF Load
      <3>5. Succeeds(q, r) /\ Shrinks(q, r) /\ KeepsFile(q, r)
        BY <2>3, <3>1, <3>2, <3>3, <3>4 DEF Succeeds, Shrinks, KeepsFile, Assembles, Measured
      <3> QED
        BY <2>1, <2>6, <3>1, <3>3, <3>5
    <2>7. run[i].owner = p => q # Over
      BY <1>0, <2>1 DEF Over
    <2> QED
      BY <1>1, <2>1, <2>4, <2>5, <2>6, <2>7 DEF Detached, KeptPermits
  <1>2. run' = [i \in 1..Len(run) |-> IF run[i].owner = p THEN Detached(i) ELSE run[i]]
    BY DEF Drop, Run
  <1>3. \A i \in 1..Len(run) : run'[i] = IF run[i].owner = p THEN Detached(i) ELSE run[i]
    BY <1>2
  <1>4. \A i \in 1..Len(run) : run'[i] \in {r \in RunRecord : RunOK(r)} \cup {Over}
    BY <1>1, <1>3
  <1>5. run' \in [1..Len(run) -> {r \in RunRecord : RunOK(r)} \cup {Over}]
    BY <1>2, <1>4
  <1>6. RunsOK' /\ Len(run') = Len(run)
    BY <1>0, <1>5 DEF RunsOK
  <1> QED
    BY <1>1, <1>3, <1>6 DEF RunsShrink

\* The process ends.
LEMMA RestartShrinks ==
    ASSUME RunsOK, Restart
    PROVE  RunsShrink
  <1>0. Len(run) \in Nat
    BY LiveRuns
  <1>1. run' = [i \in 1..Len(run) |-> Over]
    BY DEF Restart, Run
  <1>2. run' \in [1..Len(run) -> {r \in RunRecord : RunOK(r)} \cup {Over}]
    BY <1>1
  <1>3. RunsOK' /\ Len(run') = Len(run)
    BY <1>0, <1>2 DEF RunsOK
  <1>4. ASSUME NEW i \in 1..Len(run)
        PROVE  Succeeds(run[i], run'[i]) /\ Shrinks(run[i], run'[i]) /\ KeepsFile(run[i], run'[i]) /\ run'[i] = Over
    <2>1. run'[i] = Over /\ Load(Over) = 0 /\ Load(run[i]) \in Nat
      BY <1>1, LiveRuns, LoadType DEF Load
    <2> QED
      BY <2>1 DEF Succeeds, Shrinks, KeepsFile
  <1> QED
    BY <1>3, <1>4 DEF RunsShrink

\* What holds of all runs after they have shrunk.
LEMMA ShrinkFacts ==
    ASSUME RunsOK, RunsShrink
    PROVE  /\ Live' \subseteq Live
           /\ \A j \in Owned' : j \in Owned /\ run'[j] = run[j]
  <1>1. Live' \subseteq Live
    BY DEF Live, Run, RunsShrink
  <1>2. \A j \in Live' : j \in 1..Len(run) /\ run'[j] # Over
    BY DEF Live, Run, RunsShrink
  <1> QED
    BY <1>1, <1>2 DEF Owned, RunsShrink

\* A new run has no permits and no chunks.
LEMMA NewFacts ==
    ASSUME RunsOK, NEW p \in Caller, NEW c \in Content, run' = Append(run, NewRun(p, c))
    PROVE  LET n == Len(run) + 1 IN
           /\ RunsOK' /\ Len(run') = n /\ n \notin 1..Len(run) /\ RunOK(run'[n]) /\ run'[n] = NewRun(p, c)
           /\ Load(run'[n]) = 0
           /\ \A j \in 1..Len(run) : run'[j] = run[j]
           /\ Live' = Live \cup {n} /\ Owned' = Owned \cup {n}
  <1> DEFINE n == Len(run) + 1
  <1>0. Len(run) \in Nat
    BY LiveRuns
  <1>1. PICK r : r = NewRun(p, c)
    OBVIOUS
  <1>2. r \in RunRecord /\ RunOK(r)
    <2>1. /\ <<>> \in Seq(Nat) /\ 0 \in 0..Size /\ 0 \in 0..MaxRuns /\ None \in Receiver /\ "start" \in JobState
          /\ "validate" \in Phase
      BY LocalizationConstants DEF Receiver, JobState, Phase
    <2>2. r \in RunRecord
      BY <1>1, <2>1 DEF NewRun, RunRecord
    <2>3. RunOK(r)
      BY <1>1, <2>2, LocalizationConstants DEF NewRun, RunOK, Busy, FilePhase, None
    <2> QED
      BY <2>2, <2>3
  <1>3. RunsOK' /\ Len(run') = n /\ run'[n] = r /\ \A j \in 1..Len(run) : run'[j] = run[j]
    BY <1>0, <1>1, <1>2 DEF RunsOK
  <1>4. r # Over /\ r.owner = p /\ p # None /\ Load(r) = 0
    <2>1. r # Over /\ r.owner = p /\ p # None /\ r.chan = <<>> /\ r.hand = <<>>
      BY <1>1, <1>2, RecordIsLive, LocalizationConstants DEF NewRun
    <2>2. Len(<<>>) + Len(<<>>) = 0
      OBVIOUS
    <2> QED
      BY <2>1, <2>2 DEF Load
  <1>5. 1..n = (1..Len(run)) \cup {n} /\ n \notin 1..Len(run)
    BY <1>0
  <1>6. Live' = Live \cup {n}
    BY <1>3, <1>4, <1>5 DEF Live, Run
  <1>7. Owned' = Owned \cup {n}
    BY <1>3, <1>4, <1>5, <1>6, LiveRuns DEF Owned
  <1> QED
    BY <1>1, <1>2, <1>3, <1>4, <1>5, <1>6, <1>7

\* A run takes a step that touches no file, or one that does.
QuietStep(i) == \E r : Moves(i, r) /\ KeepsFile(run[i], r) /\ UNCHANGED files
FileStep(i) ==
    PrepareStat(i) \/ PrepareOpen(i) \/ WriterWrites(i) \/ WriterCommits(i) \/ remove_partial(i)

\* All steps.
LEMMA StepKinds ==
    ASSUME RunsOK, [Next]_vars
    PROVE  \/ UNCHANGED vars
           \/ \E p \in Caller, c \in Content : localize_one(p, c)
           \/ \E p \in Caller : Initialise(p) \/ Return(p) \/ Drop(p)
           \/ Shutdown \/ Restart
           \/ \E i \in Live : QuietStep(i) \/ FileStep(i)
  <1>1. ASSUME NEW i \in Owned, Await(i)
        PROVE  i \in Live /\ QuietStep(i)
    <2>0. i \in Live
      BY DEF Owned
    <2>1. CASE Enqueue(i)
      BY <2>0, <2>1, EnqueueMove DEF QuietStep, Enqueue
    <2>2. CASE Acquire(i)
      BY <2>0, <2>2, AcquireMove DEF QuietStep, Acquire
    <2>3. CASE StartJob(i)
      BY <2>0, <2>3, StartJobMove DEF QuietStep, StartJob
    <2>4. CASE Connect(i)
      BY <2>0, <2>4, ConnectMove DEF QuietStep, Connect
    <2>5. CASE Receive(i)
      BY <2>0, <2>5, ReceiveMove DEF QuietStep, Receive
    <2>6. CASE Forward(i)
      BY <2>0, <2>6, ForwardMove DEF QuietStep, Forward
    <2>7. CASE Join(i)
      BY <2>0, <2>7, JoinMove DEF QuietStep, Join
    <2>8. CASE Acknowledge(i)
      BY <2>0, <2>8, AcknowledgeMove DEF QuietStep, Acknowledge
    <2> QED
      BY <1>1, <2>0, <2>1, <2>2, <2>3, <2>4, <2>5, <2>6, <2>7, <2>8 DEF Await
  <1>2. ASSUME NEW i \in Live, Job(i)
        PROVE  QuietStep(i) \/ FileStep(i)
    <2>1. CASE validate_existing(i)
      BY <2>1, ValidateMove DEF QuietStep, validate_existing
    <2>2. CASE WriterTakes(i)
      BY <2>2, WriterTakesMove DEF QuietStep, WriterTakes
    <2>3. CASE WriterEnds(i)
      BY <2>3, WriterEndsMove DEF QuietStep, WriterEnds
    <2> QED
      BY <1>2, <2>1, <2>2, <2>3 DEF Job, FileStep
  <1>3. ASSUME NEW i \in Live, StoreCancelled(i)
        PROVE  QuietStep(i)
    BY <1>3, StoreCancelledMove DEF StoreCancelled, QuietStep
  <1>4. ASSUME NEW i \in Live, JobFault(i)
        PROVE  QuietStep(i)
    BY <1>4, JobFailsMove DEF JobFault, QuietStep
  <1> QED
    BY <1>1, <1>2, <1>3, <1>4 DEF Next, Progress

\* A run that touches a file moves like any other.
LEMMA FileStepMoves ==
    ASSUME RunsOK, FilesTyped, NEW i \in Live, i \in 1..MaxRuns, FileStep(i)
    PROVE  \E r : Moves(i, r)
  BY PrepareStatMove, PrepareOpenMove, WriterWritesMove, WriterCommitsMove, RemoveMove DEF FileStep

-----------------------------------------------------------------------------
(* Callers and their runs.                                                   *)

Callers == {p \in Caller : call[p] # None}

\* The callers that may still start a run.
Unserved == {p \in Waiting : result[call[p]] = None}

\* A caller with a run waits for its content, a content has one run with a caller, and there are
\* enough runs for those who may still start one.
CallsOK ==
    /\ call \in [Caller -> Content \cup {None}]
    /\ result \in [Content -> {None, "ok", "error"}]
    /\ IsFiniteSet(Callers)
    /\ \A i \in Owned : run[i].owner \in Caller /\ call[run[i].owner] = run[i].content
    /\ \A i, j \in Owned : run[i].content = run[j].content => i = j
    /\ Len(run) + Cardinality(Unserved) <= MaxRuns

\* The callers that count are finitely many.
LEMMA UnservedFinite ==
    ASSUME CallsOK
    PROVE  /\ IsFiniteSet(Waiting) /\ IsFiniteSet(Unserved)
           /\ Cardinality(Waiting) \in Nat /\ Cardinality(Unserved) \in Nat
           /\ Cardinality(Unserved) <= Cardinality(Waiting)
  <1>1. Waiting \subseteq Callers /\ Unserved \subseteq Waiting
    BY DEF Waiting, Callers, Unserved
  <1> QED
    BY <1>1, FS_Subset, FS_CardinalityType DEF CallsOK

\* Fewer callers may start a run, and there are no more runs.
LEMMA FewerUnserved ==
    ASSUME RunsOK, CallsOK, Len(run') = Len(run), Unserved' \subseteq Unserved
    PROVE  Len(run') + Cardinality(Unserved') <= MaxRuns
  <1>1. IsFiniteSet(Unserved) /\ Cardinality(Unserved) \in Nat /\ Len(run) \in Nat /\ MaxRuns \in Nat
    BY UnservedFinite, LiveRuns, LocalizationConstants
  <1>2. Cardinality(Unserved') \in Nat /\ Cardinality(Unserved') <= Cardinality(Unserved)
    BY <1>1, FS_Subset, FS_CardinalityType
  <1> QED
    BY <1>1, <1>2 DEF CallsOK

\* A call begins.
LEMMA CallKeepsCalls ==
    ASSUME RunsOK, CallsOK, NEW p \in Caller, NEW c \in Content, localize_one(p, c)
    PROVE  CallsOK'
  <1>0. /\ call[p] = None /\ call' = [call EXCEPT ![p] = c] /\ UNCHANGED run
        /\ result' = [result EXCEPT ![c] = IF Holders(c) = {} THEN None ELSE @]
        /\ Len(run) + Cardinality(Waiting) < MaxRuns
    BY DEF localize_one
  <1>1. /\ call' \in [Caller -> Content \cup {None}]
        /\ result' \in [Content -> {None, "ok", "error"}]
    BY <1>0 DEF CallsOK
  <1>2. Owned' = Owned /\ Waiting' \subseteq Waiting \cup {p} /\ Callers' \subseteq Callers \cup {p}
    <2>1. Owned' = Owned
      BY <1>0 DEF Owned, Live, Run
    <2> QED
      BY <1>0, <2>1 DEF Waiting, Callers, CallsOK
  <1>3. IsFiniteSet(Callers')
    <2>1. IsFiniteSet(Callers \cup {p})
      BY FS_AddElement DEF CallsOK
    <2> QED
      BY <1>2, <2>1, FS_Subset
  <1>4. \A i \in Owned : run[i].owner # p
    BY <1>0, LocalizationConstants, LiveRuns DEF CallsOK, Owned, RunRecord
  <1>5. \A i \in Owned' : run'[i].owner \in Caller /\ call'[run'[i].owner] = run'[i].content
    BY <1>0, <1>2, <1>4 DEF CallsOK
  <1>6. \A i, j \in Owned' : run'[i].content = run'[j].content => i = j
    BY <1>0, <1>2 DEF CallsOK
  <1>7. Len(run') + Cardinality(Unserved') <= MaxRuns
    <2>1. IsFiniteSet(Waiting) /\ Cardinality(Waiting) \in Nat /\ Len(run) \in Nat /\ MaxRuns \in Nat
      BY UnservedFinite, LiveRuns, LocalizationConstants
    <2>2. Unserved' \subseteq Waiting \cup {p}
      BY <1>2 DEF Unserved
    <2>3. IsFiniteSet(Waiting \cup {p}) /\ Cardinality(Waiting \cup {p}) \in Nat
          /\ Cardinality(Waiting \cup {p}) <= Cardinality(Waiting) + 1
      <3>1. /\ IsFiniteSet(Waiting \cup {p})
            /\ Cardinality(Waiting \cup {p}) = Cardinality(Waiting)
                 \/ Cardinality(Waiting \cup {p}) = Cardinality(Waiting) + 1
        BY <2>1, FS_AddElement
      <3> QED
        BY <2>1, <3>1
    <2>4. Cardinality(Unserved') \in Nat /\ Cardinality(Unserved') <= Cardinality(Waiting \cup {p})
      BY <2>2, <2>3, FS_Subset, FS_CardinalityType
    <2> QED
      BY <1>0, <2>1, <2>3, <2>4
  <1> QED
    BY <1>1, <1>3, <1>5, <1>6, <1>7 DEF CallsOK

\* A caller starts a run.
LEMMA InitialiseKeepsCalls ==
    ASSUME RunsOK, CallsOK, NEW p \in Caller, Initialise(p)
    PROVE  CallsOK'
  <1>0. /\ p \in Waiting /\ result[call[p]] = None /\ CellFree(call[p]) /\ UNCHANGED <<call, result>>
        /\ run' = Append(run, NewRun(p, call[p])) /\ call[p] \in Content
    BY DEF Initialise, Waiting, CallsOK
  <1> DEFINE n == Len(run) + 1
  <1>1. /\ Len(run') = n /\ n \notin 1..Len(run) /\ run'[n] = NewRun(p, call[p])
        /\ \A j \in 1..Len(run) : run'[j] = run[j]
        /\ Owned' = Owned \cup {n}
    BY <1>0, NewFacts
  <1>2. run'[n].owner = p /\ run'[n].content = call[p]
    BY <1>1 DEF NewRun
  <1>3. \A j \in Owned : j \in 1..Len(run) /\ run'[j] = run[j]
    BY <1>1, LiveRuns DEF Owned
  <1>4. \A i \in Owned' : run'[i].owner \in Caller /\ call'[run'[i].owner] = run'[i].content
    BY <1>0, <1>1, <1>2, <1>3 DEF CallsOK
  <1>5. \A i, j \in Owned' : run'[i].content = run'[j].content => i = j
    BY <1>0, <1>1, <1>2, <1>3 DEF CallsOK, CellFree
  <1>6. Unserved' \subseteq Unserved \ {p} /\ p \in Unserved
    BY <1>0, <1>1, <1>2, <1>3 DEF Unserved, Waiting
  <1>7. Len(run') + Cardinality(Unserved') <= MaxRuns
    <2>1. IsFiniteSet(Unserved) /\ Cardinality(Unserved) \in Nat /\ Len(run) \in Nat /\ MaxRuns \in Nat
      BY UnservedFinite, LiveRuns, LocalizationConstants
    <2>2. /\ IsFiniteSet(Unserved \ {p}) /\ Cardinality(Unserved \ {p}) \in Nat
          /\ Cardinality(Unserved \ {p}) = Cardinality(Unserved) - 1
      BY <1>6, <2>1, FS_RemoveElement, FS_CardinalityType
    <2>3. Cardinality(Unserved') \in Nat /\ Cardinality(Unserved') <= Cardinality(Unserved \ {p})
      BY <1>6, <2>2, FS_Subset, FS_CardinalityType
    <2>4. Len(run) + Cardinality(Unserved) <= MaxRuns
      BY DEF CallsOK
    <2> QED
      BY <1>1, <2>1, <2>2, <2>3, <2>4
  <1>8. IsFiniteSet(Callers')
    BY <1>0 DEF Callers, CallsOK
  <1> QED
    BY <1>0, <1>4, <1>5, <1>7, <1>8 DEF CallsOK

\* A caller that has no run goes away, or all do.
LEMMA LeaveKeepsCalls ==
    ASSUME RunsOK, CallsOK, UNCHANGED result, Len(run') = Len(run),
           NEW P \in SUBSET Caller, call' = [p \in Caller |-> IF p \in P THEN None ELSE call[p]],
           \A j \in Owned' : j \in Owned /\ run'[j] = run[j],
           \A j \in Owned : run[j].owner \notin P => j \in Owned',
           \A j \in Owned' : run[j].owner \notin P
    PROVE  CallsOK'
  <1>1. call' \in [Caller -> Content \cup {None}] /\ \A p \in Caller \ P : call'[p] = call[p]
    BY DEF CallsOK
  <1>2. \A p \in P : call'[p] = None
    OBVIOUS
  <1>3. Callers' \subseteq Callers
    BY <1>1, <1>2 DEF Callers
  <1>4. IsFiniteSet(Callers')
    BY <1>3, FS_Subset DEF CallsOK
  <1>5. \A i \in Owned' : run'[i].owner \in Caller /\ call'[run'[i].owner] = run'[i].content
    BY <1>1 DEF CallsOK
  <1>6. \A i, j \in Owned' : run'[i].content = run'[j].content => i = j
    BY DEF CallsOK
  <1>7. Unserved' \subseteq Unserved
    <2> SUFFICES ASSUME NEW p \in Unserved'
                 PROVE  p \in Unserved
      OBVIOUS
    <2>1. p \in Caller \ P /\ call'[p] = call[p] /\ call[p] # None /\ result[call[p]] = None
      BY <1>1, <1>2 DEF Unserved, Waiting
    <2>2. \A j \in Owned : run[j].owner # p
      BY <2>1 DEF Unserved, Waiting
    <2> QED
      BY <2>1, <2>2 DEF Unserved, Waiting
  <1>8. Len(run') + Cardinality(Unserved') <= MaxRuns
    BY <1>7, FewerUnserved
  <1> QED
    BY <1>1, <1>4, <1>5, <1>6, <1>8 DEF CallsOK

\* A run moves; when it ends its caller has the result.
LEMMA MoveKeepsCalls ==
    ASSUME RunsOK, CallsOK, NEW i \in Live, NEW r, Moves(i, r)
    PROVE  CallsOK'
  <1>0. /\ Len(run') = Len(run) /\ run'[i] = r /\ i \in 1..Len(run) /\ UNCHANGED call
        /\ \A j \in 1..Len(run) : j # i => run'[j] = run[j]
        /\ \A j \in Owned' : /\ j \in Owned
                             /\ run'[j].owner = run[j].owner /\ run'[j].content = run[j].content
    BY MoveFacts DEF Moves
  <1>1. run[i].content \in Content
    BY LiveRuns DEF RunRecord
  <1>2. result' \in [Content -> {None, "ok", "error"}]
    BY <1>1 DEF Moves, CallsOK
  <1>3. \A j \in Owned' : run'[j].owner \in Caller /\ call'[run'[j].owner] = run'[j].content
    BY <1>0 DEF CallsOK
  <1>4. \A j, k \in Owned' : run'[j].content = run'[k].content => j = k
    BY <1>0 DEF CallsOK
  <1>5. Unserved' \subseteq Unserved
    <2> SUFFICES ASSUME NEW p \in Unserved'
                 PROVE  p \in Unserved
      OBVIOUS
    <2>1. p \in Caller /\ call[p] # None /\ call[p] \in Content /\ result'[call[p]] = None
          /\ \A j \in Owned' : run'[j].owner # p
      BY <1>0 DEF Unserved, Waiting, CallsOK
    <2>2. result[call[p]] = None
      BY <1>1, <2>1 DEF Moves, CallsOK, None
    <2>3. ASSUME NEW j \in Owned, run[j].owner = p
          PROVE  FALSE
      <3>1. j \in Live /\ run[j] # Over /\ p # None /\ j \in 1..Len(run) /\ call[p] = run[j].content
        BY <2>3, LiveRuns DEF Owned, Live, CallsOK
      <3>2. CASE run'[j] # Over /\ run'[j].owner = run[j].owner
        <4>1. j \in Owned'
          BY <1>0, <2>3, <3>1, <3>2 DEF Owned, Live, Run
        <4> QED
          BY <2>1, <2>3, <3>2, <4>1
      <3>3. CASE j = i /\ r = Over
        <4>1. PICK v \in {"ok", "error"} : result' = [result EXCEPT ![run[i].content] = v]
          BY <2>3, <3>1, <3>3 DEF Moves
        <4>2. result'[run[i].content] = v
          BY <1>1, <4>1 DEF CallsOK
        <4> QED
          BY <2>1, <3>1, <3>3, <4>2 DEF None
      <3> QED
        BY <1>0, <3>1, <3>2, <3>3 DEF Moves
    <2> QED
      BY <2>1, <2>2, <2>3 DEF Unserved, Waiting
  <1>6. Len(run') + Cardinality(Unserved') <= MaxRuns
    BY <1>0, <1>5, FewerUnserved
  <1>7. IsFiniteSet(Callers')
    BY <1>0 DEF Callers, CallsOK
  <1> QED
    BY <1>0, <1>2, <1>3, <1>4, <1>6, <1>7 DEF CallsOK

\* Every step keeps callers and runs in order.
LEMMA StepKeepsCalls ==
    ASSUME RunsOK, FilesTyped, CallsOK, [Next]_vars
    PROVE  CallsOK' /\ RunsOK'
  <1>1. Live \subseteq 1..Len(run) /\ Live \subseteq 1..MaxRuns
    <2>1. Cardinality(Unserved) \in Nat /\ Len(run) \in Nat /\ MaxRuns \in Nat
      BY UnservedFinite, LiveRuns, LocalizationConstants
    <2>2. Len(run) <= MaxRuns
      BY <2>1 DEF CallsOK
    <2> QED
      BY <2>1, <2>2, LiveRuns
  <1>2. CASE UNCHANGED <<call, result, run>>
    BY <1>2 DEF CallsOK, RunsOK, Owned, Live, Run, Callers, Unserved, Waiting
  <1>3. ASSUME NEW p \in Caller, NEW c \in Content, localize_one(p, c)
        PROVE  CallsOK' /\ RunsOK'
    BY <1>3, CallKeepsCalls DEF localize_one, RunsOK
  <1>4. ASSUME NEW p \in Caller, Initialise(p)
        PROVE  CallsOK' /\ RunsOK'
    <2>1. call[p] \in Content /\ run' = Append(run, NewRun(p, call[p]))
      BY <1>4 DEF Initialise, Waiting, CallsOK
    <2> QED
      BY <1>4, <2>1, InitialiseKeepsCalls, NewFacts
  <1>5. ASSUME NEW p \in Caller, Return(p)
        PROVE  CallsOK' /\ RunsOK'
    <2>1. PICK P \in SUBSET Caller : P = {p}
      OBVIOUS
    <2>2. /\ UNCHANGED <<result, run>> /\ call' = [call EXCEPT ![p] = None]
          /\ \A i \in Owned : run[i].owner # p
      BY <1>5 DEF Return, Waiting
    <2>3. call' = [q \in Caller |-> IF q \in P THEN None ELSE call[q]]
      BY <2>1, <2>2 DEF CallsOK
    <2>4. Owned' = Owned
      BY <2>2 DEF Owned, Live, Run
    <2>5. UNCHANGED result /\ RunsOK' /\ Len(run') = Len(run)
      BY <2>2 DEF RunsOK
    <2>6. \A j \in Owned' : j \in Owned /\ run'[j] = run[j] /\ run[j].owner \notin P
      BY <2>1, <2>2, <2>4
    <2> QED
      BY <2>3, <2>4, <2>5, <2>6, LeaveKeepsCalls
  <1>6. ASSUME NEW p \in Caller, Drop(p)
        PROVE  CallsOK' /\ RunsOK'
    <2>1. PICK P \in SUBSET Caller : P = {p}
      OBVIOUS
    <2>2. UNCHANGED result /\ call' = [call EXCEPT ![p] = None]
      BY <1>6 DEF Drop
    <2>3. call' = [q \in Caller |-> IF q \in P THEN None ELSE call[q]]
      BY <2>1, <2>2 DEF CallsOK
    <2>4. RunsShrink /\ \A i \in 1..Len(run) : run[i].owner = p => run'[i] = Over \/ run'[i].owner = None
      BY <1>6, DropShrinks
    <2>5. \A j \in Owned' : j \in Owned /\ run'[j] = run[j]
      BY <2>4, ShrinkFacts
    <2>6. \A j \in Owned : j \in 1..Len(run) /\ run[j] # Over /\ run[j].owner # None
      BY <1>1 DEF Owned, Live
    <2>7. \A j \in 1..Len(run) : run[j].owner # p => run'[j] = run[j]
      BY <1>6 DEF Drop, Run
    <2>8. \A j \in Owned : run[j].owner \notin P => j \in Owned'
      BY <2>1, <2>4, <2>6, <2>7 DEF Owned, Live, Run, RunsShrink
    <2>9. \A j \in Owned' : run[j].owner \notin P
      <3>1. \A j \in Owned' : run'[j] # Over /\ run'[j].owner # None
        BY DEF Owned, Live
      <3> QED
        BY <2>1, <2>4, <2>5, <2>6, <3>1
    <2> QED
      BY <2>2, <2>3, <2>4, <2>5, <2>8, <2>9, LeaveKeepsCalls DEF RunsShrink
  <1>7. CASE Restart
    <2>1. PICK P \in SUBSET Caller : P = Caller
      OBVIOUS
    <2>2. UNCHANGED result /\ call' = [q \in Caller |-> IF q \in P THEN None ELSE call[q]]
      BY <1>7, <2>1 DEF Restart
    <2>3. RunsShrink
      BY <1>7, RestartShrinks
    <2>4. Owned' = {}
      BY <1>7 DEF Restart, Owned, Live, Run
    <2>5. \A j \in Owned : run[j].owner \in P
      BY <2>1 DEF CallsOK
    <2> QED
      BY <2>2, <2>3, <2>4, <2>5, LeaveKeepsCalls DEF RunsShrink
  <1>8. ASSUME NEW i \in Live, QuietStep(i) \/ FileStep(i)
        PROVE  CallsOK' /\ RunsOK'
    <2>1. PICK r : Moves(i, r)
      BY <1>1, <1>8, FileStepMoves DEF QuietStep
    <2> QED
      BY <2>1, MoveKeepsCalls, MoveFacts
  <1> QED
    BY <1>2, <1>3, <1>4, <1>5, <1>6, <1>7, <1>8, StepKinds DEF Shutdown, vars

-----------------------------------------------------------------------------
(* Limits.                                                                   *)

LimitsOK ==
    /\ \A s \in Permit : Cardinality(Held(s)) <= Limit(s)
    /\ Cardinality(Queued) <= MaxQueued
    /\ BufferedChunks <= MaxBuffers

\* The permits have numbers.
LEMMA LimitType ==
    ASSUME NEW s \in Permit
    PROVE  Limit(s) \in Nat
  BY LocalizationConstants DEF Limit, Permit

\* Of a set that loses elements, or gets one while it is small enough.
LEMMA SetGrows ==
    ASSUME NEW S, IsFiniteSet(S), NEW T, NEW x, NEW n \in Nat, Cardinality(S) <= n,
           T \subseteq S \/ (T \subseteq S \cup {x} /\ Cardinality(S) < n)
    PROVE  Cardinality(T) <= n
  <1>1. Cardinality(S) \in Nat
    BY FS_CardinalityType
  <1>2. CASE T \subseteq S
    <2>1. Cardinality(T) \in Nat /\ Cardinality(T) <= Cardinality(S)
      BY <1>2, FS_Subset, FS_CardinalityType
    <2> QED
      BY <1>1, <2>1
  <1>3. CASE T \subseteq S \cup {x} /\ Cardinality(S) < n
    <2>1. /\ IsFiniteSet(S \cup {x})
          /\ Cardinality(S \cup {x}) = Cardinality(S) \/ Cardinality(S \cup {x}) = Cardinality(S) + 1
      BY FS_AddElement
    <2>2. Cardinality(T) \in Nat /\ Cardinality(T) <= Cardinality(S \cup {x})
      BY <1>3, <2>1, FS_Subset, FS_CardinalityType
    <2> QED
      BY <1>1, <1>3, <2>1, <2>2
  <1> QED
    BY <1>2, <1>3

\* The chunks in memory, as a sum of what the runs have.
LoadsOf(rs) == [i \in 1..Len(rs) |-> Load(rs[i])]
LoadSum(rs, S) == MapThenSumSet(LAMBDA i : Len(rs[i].chan) + Len(rs[i].hand), S)

\* The number of the model is the sum that the module Sums is about.
LEMMA LoadIsSum ==
    ASSUME NEW rs, NEW S \in SUBSET (1..Len(rs)), IsFiniteSet(S), \A i \in S : rs[i] # Over
    PROVE  LoadSum(rs, S) = Sum(LoadsOf(rs), S)
  <1> DEFINE step(g, t) == IF t = {} THEN 0
                           ELSE Len(rs[Chosen(t)].chan) + Len(rs[Chosen(t)].hand) + g[t \ {Chosen(t)}]
             G == CHOOSE g : g = [t \in SUBSET S |-> step(g, t)]
             H == CHOOSE g : g = [t \in SUBSET S |-> Unfolded(LoadsOf(rs), g, t)]
  <1>1. LoadSum(rs, S) = G[S] /\ Sum(LoadsOf(rs), S) = H[S]
    BY SumIsValue DEF LoadSum, MapThenSumSet, MapThenFoldSet, Chosen
  <1>2. PICK h : h = [t \in SUBSET S |-> Unfolded(LoadsOf(rs), h, t)]
    BY SumFunctionExists
  <1>3. \A g, t : t \in SUBSET S => step(g, t) = Unfolded(LoadsOf(rs), g, t)
    <2> SUFFICES ASSUME NEW g, NEW t \in SUBSET S, t # {}
                 PROVE  step(g, t) = Unfolded(LoadsOf(rs), g, t)
      BY DEF Unfolded
    <2>1. Chosen(t) \in S
      BY DEF Chosen
    <2>2. LoadsOf(rs)[Chosen(t)] = Len(rs[Chosen(t)].chan) + Len(rs[Chosen(t)].hand)
      BY <2>1 DEF LoadsOf, Load
    <2> QED
      BY <2>2 DEF Unfolded
  <1>4. h = [t \in SUBSET S |-> step(h, t)]
    BY <1>2, <1>3
  <1>5. H = [t \in SUBSET S |-> Unfolded(LoadsOf(rs), H, t)]
    BY <1>2
  <1>6. G = [t \in SUBSET S |-> step(G, t)]
    BY <1>4
  <1> HIDE DEF G, H, step
  <1>7. Solves(LoadsOf(rs), G, S)
    BY <1>3, <1>6 DEF Solves
  <1>8. Solves(LoadsOf(rs), H, S)
    BY <1>5 DEF Solves
  <1>9. S \subseteq S
    OBVIOUS
  <1>10. G[S] = H[S]
    BY <1>7, <1>8, <1>9, SumFunctionUnique
  <1> QED
    BY <1>1, <1>10

\* The chunks in memory before and after a step.
LEMMA BufferedSums ==
    ASSUME RunsOK
    PROVE  /\ BufferedChunks = Sum(LoadsOf(run), Live)
           /\ RunsOK' => BufferedChunks' = Sum(LoadsOf(run'), Live')
           /\ \A i \in 1..Len(run) : LoadsOf(run)[i] = Load(run[i]) /\ LoadsOf(run)[i] \in Nat
           /\ RunsOK' => /\ Live' \subseteq 1..Len(run') /\ IsFiniteSet(Live')
                         /\ \A i \in 1..Len(run') : LoadsOf(run')[i] = Load(run'[i]) /\ LoadsOf(run')[i] \in Nat
  <1>1. BufferedChunks = LoadSum(run, Live)
    BY DEF BufferedChunks, Buffered, LoadSum
  <1>2. BufferedChunks' = LoadSum(run', Live')
    BY DEF BufferedChunks, Buffered, LoadSum, MapThenSumSet, MapThenFoldSet
  <1>3. Live \subseteq 1..Len(run) /\ IsFiniteSet(Live) /\ \A i \in Live : run[i] # Over
    BY LiveRuns DEF Live
  <1>4. ASSUME RunsOK'
        PROVE  /\ Live' \subseteq 1..Len(run') /\ IsFiniteSet(Live') /\ \A i \in Live' : run'[i] # Over
               /\ \A i \in 1..Len(run') : run'[i] = Over \/ RunOK(run'[i])
    <2>1. Len(run') \in Nat /\ \A i \in 1..Len(run') : run'[i] = Over \/ RunOK(run'[i])
      BY <1>4 DEF RunsOK
    <2>2. Live' \subseteq 1..Len(run') /\ \A i \in Live' : run'[i] # Over
      BY DEF Live, Run
    <2>3. IsFiniteSet(1..Len(run'))
      BY <2>1, FS_Interval
    <2> QED
      BY <2>1, <2>2, <2>3, FS_Subset
  <1>5. \A i \in 1..Len(run) : LoadsOf(run)[i] = Load(run[i]) /\ LoadsOf(run)[i] \in Nat
    BY LiveRuns, LoadType DEF LoadsOf
  <1>6. RunsOK' => \A i \in 1..Len(run') : LoadsOf(run')[i] = Load(run'[i]) /\ LoadsOf(run')[i] \in Nat
    BY <1>4, LoadType DEF LoadsOf
  <1> QED
    BY <1>1, <1>2, <1>3, <1>4, <1>5, <1>6, LoadIsSum

\* The chunks in memory fit the buffers after a step in which no run got more of them.
LEMMA LoadsShrink ==
    ASSUME RunsOK, RunsOK', Len(run') = Len(run), Live' \subseteq Live, BufferedChunks <= MaxBuffers,
           \A j \in Live' : Load(run'[j]) <= Load(run[j])
    PROVE  BufferedChunks' <= MaxBuffers
  <1> DEFINE f == LoadsOf(run)
             g == LoadsOf(run')
  <1>1. IsFiniteSet(Live) /\ IsFiniteSet(Live') /\ Live \subseteq 1..Len(run) /\ MaxBuffers \in Nat
    BY LiveRuns, BufferedSums, LocalizationConstants
  <1>2. \A j \in Live : f[j] = Load(run[j]) /\ f[j] \in Nat
    BY <1>1, BufferedSums
  <1>3. \A j \in Live' : g[j] = Load(run'[j]) /\ g[j] \in Nat
    BY <1>1, BufferedSums
  <1> HIDE DEF f, g
  <1>4. \A j \in Live' : g[j] \in Nat /\ f[j] \in Nat /\ g[j] <= f[j]
    BY <1>2, <1>3
  <1>5. Sum(g, Live') <= Sum(f, Live')
    BY <1>1, <1>4, SumPointwise
  <1>6. Sum(f, Live') <= Sum(f, Live)
    BY <1>1, <1>2, SumMonotone
  <1>7. Sum(g, Live') \in Nat /\ Sum(f, Live') \in Nat /\ Sum(f, Live) \in Nat
    BY <1>1, <1>2, <1>4, SumType
  <1>8. BufferedChunks = Sum(f, Live) /\ BufferedChunks' = Sum(g, Live')
    BY BufferedSums DEF f, g
  <1> QED
    BY <1>1, <1>5, <1>6, <1>7, <1>8

\* The chunks in memory fit the buffers after a step that had a buffer left and gave one more chunk
\* to one run.
LEMMA LoadsGrow ==
    ASSUME RunsOK, RunsOK', Len(run') = Len(run), Live' \subseteq Live, BufferedChunks < MaxBuffers,
           NEW i \in Live', Load(run'[i]) <= Load(run[i]) + 1,
           \A j \in Live' : j # i => run'[j] = run[j]
    PROVE  BufferedChunks' <= MaxBuffers
  <1> DEFINE f == LoadsOf(run)
             g == LoadsOf(run')
             S == Live' \ {i}
  <1>1. IsFiniteSet(Live) /\ IsFiniteSet(Live') /\ Live \subseteq 1..Len(run) /\ MaxBuffers \in Nat
    BY LiveRuns, BufferedSums, LocalizationConstants
  <1>2. \A j \in Live : f[j] = Load(run[j]) /\ f[j] \in Nat
    BY <1>1, BufferedSums
  <1>3. \A j \in Live' : g[j] = Load(run'[j]) /\ g[j] \in Nat
    BY <1>1, BufferedSums
  <1>4. BufferedChunks = Sum(f, Live) /\ BufferedChunks' = Sum(g, Live')
    BY BufferedSums
  <1> HIDE DEF f, g
  <1>5. IsFiniteSet(S) /\ S \subseteq Live'
    BY <1>1, FS_Subset
  <1>6. \A j \in S : g[j] \in Nat /\ f[j] \in Nat /\ g[j] <= f[j]
    BY <1>2, <1>3
  <1> HIDE DEF S
  <1>7. Sum(g, S) <= Sum(f, S)
    BY <1>5, <1>6, SumPointwise
  <1>8. Sum(g, Live') = g[i] + Sum(g, S)
    <2>1. \A j \in Live' : g[j] \in Nat
      BY <1>3
    <2>2. IsFiniteSet(Live') /\ i \in Live'
      BY <1>1
    <2>3. Sum(g, Live') = g[i] + Sum(g, Live' \ {i})
      BY ONLY <2>1, <2>2, SumSplit
    <2> QED
      BY <2>3 DEF S
  <1>9. Sum(f, Live') = f[i] + Sum(f, S)
    <2>1. \A j \in Live' : f[j] \in Nat
      BY <1>2
    <2>2. IsFiniteSet(Live') /\ i \in Live'
      BY <1>1
    <2>3. Sum(f, Live') = f[i] + Sum(f, Live' \ {i})
      BY ONLY <2>1, <2>2, SumSplit
    <2> QED
      BY <2>3 DEF S
  <1>10. Sum(f, Live') <= Sum(f, Live)
    BY <1>1, <1>2, SumMonotone
  <1>11. /\ Sum(g, S) \in Nat /\ Sum(f, S) \in Nat /\ Sum(f, Live') \in Nat /\ Sum(f, Live) \in Nat
         /\ f[i] \in Nat /\ g[i] \in Nat /\ g[i] <= f[i] + 1
    <2>1. Sum(g, S) \in Nat /\ Sum(f, S) \in Nat
      BY <1>5, <1>6, SumType
    <2>2. Sum(f, Live') \in Nat /\ Sum(f, Live) \in Nat
      BY <1>1, <1>2, SumType
    <2> QED
      BY <1>2, <1>3, <2>1, <2>2
  <1> QED
    BY <1>1, <1>4, <1>7, <1>8, <1>9, <1>10, <1>11

\* A run moves within the limits.
LEMMA MoveKeepsLimits ==
    ASSUME RunsOK, LimitsOK, NEW i \in Live, NEW r, Moves(i, r)
    PROVE  LimitsOK'
  <1>0. /\ Len(run') = Len(run) /\ run'[i] = r /\ i \in 1..Len(run)
        /\ \A j \in 1..Len(run) : j # i => run'[j] = run[j]
        /\ RunsOK' /\ Live' \subseteq Live /\ Takes(run[i], r)
    BY MoveFacts DEF Moves
  <1>1. IsFiniteSet(Live) /\ Live \subseteq 1..Len(run)
    BY LiveRuns
  <1>2. \A j \in Live' : run'[j] # Over
    BY DEF Live
  <1>3. ASSUME NEW s \in Permit
        PROVE  Cardinality(Held(s)') <= Limit(s)
    <2>1. IsFiniteSet(Held(s)) /\ Cardinality(Held(s)) <= Limit(s) /\ Limit(s) \in Nat
      BY <1>1, FS_Subset, LimitType DEF Held, LimitsOK
    <2>2. Held(s)' \subseteq Held(s) \/ (Held(s)' \subseteq Held(s) \cup {i} /\ Cardinality(Held(s)) < Limit(s))
      BY <1>0, <1>1, <1>2 DEF Held, Takes
    <2> QED
      BY <2>1, <2>2, SetGrows
  <1>4. Cardinality(Queued') <= MaxQueued
    <2>1. IsFiniteSet(Queued) /\ Cardinality(Queued) \in Nat /\ MaxQueued \in Nat /\ Cardinality(Queued) <= MaxQueued
      BY <1>1, FS_Subset, FS_CardinalityType, LocalizationConstants DEF Queued, LimitsOK
    <2>2. Queued' \subseteq Queued \/ (Queued' \subseteq Queued \cup {i} /\ Cardinality(Queued) < MaxQueued)
      BY <1>0, <1>1, <1>2, <2>1 DEF Queued, Takes, QueueFull
    <2> QED
      BY <2>1, <2>2, SetGrows
  <1>5. BufferedChunks' <= MaxBuffers
    <2>0. \A j \in Live' : j \in 1..Len(run) /\ Load(run[j]) \in Nat
      BY <1>0, <1>1, LiveRuns, LoadType
    <2>1. CASE \A j \in Live' : Load(run'[j]) <= Load(run[j])
      BY <1>0, <2>1, LoadsShrink DEF LimitsOK
    <2>2. CASE ~\A j \in Live' : Load(run'[j]) <= Load(run[j])
      <3>1. PICK j \in Live' : ~(Load(run'[j]) <= Load(run[j]))
        BY <2>2
      <3>2. j = i
        BY <1>0, <2>0, <3>1
      <3>3. i \in Live' /\ Load(run'[i]) <= Load(run[i]) + 1 /\ BufferedChunks < MaxBuffers
        BY <1>0, <3>1, <3>2 DEF Takes
      <3>4. \A k \in Live' : k # i => run'[k] = run[k]
        BY <1>0, <2>0
      <3> QED
        BY <1>0, <3>3, <3>4, LoadsGrow
    <2> QED
      BY <2>1, <2>2
  <1> QED
    BY <1>3, <1>4, <1>5, LocalizationConstants DEF LimitsOK, Limit

\* Runs that shrink stay within the limits.
LEMMA ShrinkKeepsLimits ==
    ASSUME RunsOK, LimitsOK, RunsShrink
    PROVE  LimitsOK'
  <1>1. IsFiniteSet(Live) /\ Live \subseteq 1..Len(run) /\ Live' \subseteq Live /\ RunsOK' /\ Len(run') = Len(run)
    BY LiveRuns, ShrinkFacts DEF RunsShrink
  <1>2. \A j \in Live' : run'[j] # Over /\ Shrinks(run[j], run'[j])
    BY <1>1 DEF Live, RunsShrink
  <1>3. ASSUME NEW s \in Permit
        PROVE  Cardinality(Held(s)') <= Limit(s)
    <2>1. IsFiniteSet(Held(s)) /\ Cardinality(Held(s)) <= Limit(s) /\ Limit(s) \in Nat
      BY <1>1, FS_Subset, LimitType DEF Held, LimitsOK
    <2>2. Held(s)' \subseteq Held(s)
      BY <1>1, <1>2 DEF Held, Shrinks
    <2> QED
      BY <2>1, <2>2, SetGrows
  <1>4. Cardinality(Queued') <= MaxQueued
    <2>1. IsFiniteSet(Queued) /\ MaxQueued \in Nat /\ Cardinality(Queued) <= MaxQueued
      BY <1>1, FS_Subset, LocalizationConstants DEF Queued, LimitsOK
    <2>2. Queued' \subseteq Queued
      BY <1>1, <1>2 DEF Queued, Shrinks
    <2> QED
      BY <2>1, <2>2, SetGrows
  <1>5. BufferedChunks' <= MaxBuffers
    BY <1>1, <1>2, LoadsShrink DEF LimitsOK, Shrinks
  <1> QED
    BY <1>3, <1>4, <1>5 DEF LimitsOK, Limit

\* A new run takes nothing.
LEMMA NewKeepsLimits ==
    ASSUME RunsOK, LimitsOK, NEW p \in Caller, NEW c \in Content, run' = Append(run, NewRun(p, c))
    PROVE  LimitsOK'
  <1> DEFINE n == Len(run) + 1
             f == LoadsOf(run)
             g == LoadsOf(run')
  <1>1. /\ RunsOK' /\ Len(run') = n /\ n \notin 1..Len(run) /\ run'[n] = NewRun(p, c) /\ Load(run'[n]) = 0
        /\ \A j \in 1..Len(run) : run'[j] = run[j]
        /\ Live' = Live \cup {n}
    BY NewFacts
  <1>2. IsFiniteSet(Live) /\ Live \subseteq 1..Len(run) /\ n \in 1..n
    BY LiveRuns
  <1>3. /\ run'[n].held = {} /\ run'[n].job = "start"
        /\ \A j \in Live : run'[j] = run[j]
    BY <1>1, <1>2 DEF NewRun
  <1>4. Queued' = Queued /\ \A s \in Permit : Held(s)' = Held(s)
    <2> HIDE DEF n
    <2>1. Live' = Live \cup {n}
      BY <1>1
    <2> QED
      BY <1>3, <2>1 DEF Queued, Held
  <1>5. BufferedChunks' = BufferedChunks
    <2>1. BufferedChunks = Sum(f, Live) /\ BufferedChunks' = Sum(g, Live \cup {n})
      BY <1>1, BufferedSums
    <2>2. \A j \in Live : f[j] \in Nat /\ g[j] = f[j]
      BY <1>1, <1>2, BufferedSums DEF LoadsOf
    <2>3. g[n] = 0
      BY <1>1, <1>2, BufferedSums
    <2> HIDE DEF f, g, n
    <2>4. n \notin Live
      BY <1>1, <1>2
    <2>5. \A j \in Live \cup {n} : g[j] \in Nat
      BY <2>2, <2>3
    <2>6. Sum(g, Live \cup {n}) = g[n] + Sum(g, Live)
      BY <1>2, <2>4, <2>5, SumAdd
    <2>7. \A j \in Live : f[j] \in Nat /\ g[j] \in Nat /\ f[j] <= g[j] /\ g[j] <= f[j]
      BY <2>2
    <2>8. Sum(g, Live) <= Sum(f, Live) /\ Sum(f, Live) <= Sum(g, Live)
      BY <1>2, <2>7, SumPointwise
    <2>9. Sum(g, Live) \in Nat /\ Sum(f, Live) \in Nat
      BY <1>2, <2>7, SumType
    <2> QED
      BY <2>1, <2>3, <2>6, <2>8, <2>9
  <1> QED
    BY <1>3, <1>4, <1>5 DEF LimitsOK, Limit

\* Every step stays within the limits.
LEMMA StepKeepsLimits ==
    ASSUME RunsOK, FilesTyped, CallsOK, LimitsOK, [Next]_vars
    PROVE  LimitsOK'
  <1>1. Live \subseteq 1..MaxRuns
    <2>1. Cardinality(Unserved) \in Nat /\ Len(run) \in Nat /\ MaxRuns \in Nat
      BY UnservedFinite, LiveRuns, LocalizationConstants
    <2>2. Len(run) <= MaxRuns
      BY <2>1 DEF CallsOK
    <2> QED
      BY <2>1, <2>2, LiveRuns
  <1>2. CASE UNCHANGED run
    <2>1. Live' = Live /\ RunsOK'
      BY <1>2 DEF Live, Run, RunsOK
    <2>2. BufferedChunks' = BufferedChunks
      BY <1>2, <2>1, BufferedSums
    <2>3. Queued' = Queued /\ \A s \in Permit : Held(s)' = Held(s)
      BY <1>2, <2>1 DEF Queued, Held
    <2> QED
      BY <2>2, <2>3 DEF LimitsOK, Limit
  <1>3. ASSUME NEW p \in Caller, Initialise(p)
        PROVE  LimitsOK'
    <2>1. call[p] \in Content /\ run' = Append(run, NewRun(p, call[p]))
      BY <1>3 DEF Initialise, Waiting, CallsOK
    <2> QED
      BY <2>1, NewKeepsLimits
  <1>4. ASSUME NEW p \in Caller, Drop(p)
        PROVE  LimitsOK'
    BY <1>4, DropShrinks, ShrinkKeepsLimits
  <1>5. CASE Restart
    BY <1>5, RestartShrinks, ShrinkKeepsLimits
  <1>6. ASSUME NEW i \in Live, QuietStep(i) \/ FileStep(i)
        PROVE  LimitsOK'
    <2>1. PICK r : Moves(i, r)
      BY <1>1, <1>6, FileStepMoves DEF QuietStep
    <2> QED
      BY <2>1, MoveKeepsLimits
  <1> QED
    BY <1>2, <1>3, <1>4, <1>5, <1>6, StepKinds DEF vars, localize_one, Return, Shutdown

-----------------------------------------------------------------------------
(* Types and limits.                                                         *)

\* The inductive invariant of the localizer, without what its files contain.
LocalizerInv == RunsOK /\ FilesTyped /\ CallsOK /\ LimitsOK

\* There are no more runs than files.
LEMMA RunsBounded ==
    ASSUME LocalizerInv
    PROVE  Len(run) \in 0..MaxRuns /\ Live \subseteq 1..Len(run) /\ Live \subseteq 1..MaxRuns
  <1>1. Cardinality(Unserved) \in Nat /\ Len(run) \in Nat /\ MaxRuns \in Nat
    BY UnservedFinite, LiveRuns, LocalizationConstants DEF LocalizerInv
  <1>2. Len(run) <= MaxRuns
    BY <1>1 DEF LocalizerInv, CallsOK
  <1> QED
    BY <1>1, <1>2, LiveRuns DEF LocalizerInv

\* Files keep their types.
LEMMA StepKeepsFilesTyped ==
    ASSUME LocalizerInv, [Next]_vars
    PROVE  FilesTyped'
  <1>0. RunsOK /\ FilesTyped
    BY DEF LocalizerInv
  <1>1. CASE UNCHANGED files
    BY <1>0, <1>1 DEF FilesTyped, files
  <1>2. ASSUME NEW i \in Live, FileStep(i)
        PROVE  FilesTyped'
    <2>0. i \in 1..MaxRuns /\ DigestOf[run[i].content] \in Digest /\ 0 \in 0..MaxRuns
      BY <1>0, LiveRuns, RunsBounded, LocalizationConstants DEF RunRecord
    <2>1. CASE PrepareStat(i)
      <3>1. UNCHANGED <<disk, final>>
        BY <2>1 DEF PrepareStat
      <3>2. UNCHANGED partial \/ partial' = [partial EXCEPT ![DigestOf[run[i].content]] = 0]
        BY <1>0, <2>1, PrepareStatMove
      <3> QED
        BY <1>0, <2>0, <3>1, <3>2 DEF FilesTyped
    <2>2. CASE PrepareOpen(i)
      <3>1. UNCHANGED <<disk, final>>
        BY <2>2 DEF PrepareOpen
      <3>2. UNCHANGED partial \/ partial' = [partial EXCEPT ![DigestOf[run[i].content]] = Opened(i)]
        BY <1>0, <2>0, <2>2, PrepareOpenMove
      <3>3. Opened(i) \in 0..MaxRuns
        BY <1>0, <2>0 DEF Opened, FilesTyped
      <3> QED
        BY <1>0, <2>0, <3>1, <3>2, <3>3 DEF FilesTyped
    <2>3. CASE WriterWrites(i)
      <3>1. run[i].hand \in Seq(Nat)
        BY <1>0, <2>3, WriterWritesMove
      <3>2. disk' = [disk EXCEPT ![run[i].file] = @ \o run[i].hand] /\ UNCHANGED <<partial, final>>
        BY <2>3 DEF WriterWrites
      <3>3. \A f \in 1..MaxRuns : disk[f] \o run[i].hand \in Seq(Nat)
        BY <1>0, <3>1 DEF FilesTyped
      <3> QED
        BY <1>0, <3>2, <3>3 DEF FilesTyped
    <2>4. CASE WriterCommits(i)
      <3>1. UNCHANGED disk
        BY <2>4 DEF WriterCommits
      <3>2. /\ UNCHANGED partial \/ partial' = [partial EXCEPT ![DigestOf[run[i].content]] = 0]
            /\ UNCHANGED final \/ final' = [final EXCEPT ![DigestOf[run[i].content]] = partial[DigestOf[run[i].content]]]
        BY <1>0, <2>4, WriterCommitsMove
      <3>3. partial[DigestOf[run[i].content]] \in 0..MaxRuns
        BY <1>0, <2>0 DEF FilesTyped
      <3> QED
        BY <1>0, <2>0, <3>1, <3>2, <3>3 DEF FilesTyped
    <2>5. CASE remove_partial(i)
      BY <1>0, <2>0, <2>5 DEF FilesTyped, remove_partial
    <2> QED
      BY <1>2, <2>1, <2>2, <2>3, <2>4, <2>5 DEF FileStep
  <1>3. ASSUME NEW i \in Live, QuietStep(i)
        PROVE  UNCHANGED files
    BY <1>3 DEF QuietStep
  <1> QED
    BY <1>0, <1>1, <1>2, <1>3, StepKinds
       DEF vars, files, localize_one, Initialise, Return, Drop, Shutdown, Restart

\* The invariant holds in every state.
LEMMA LocalizerInvariant == Spec => []LocalizerInv
  <1>1. Init => LocalizerInv
    <2> SUFFICES ASSUME Init
                 PROVE  LocalizerInv
      OBVIOUS
    <2>1. run = <<>> /\ Len(run) = 0 /\ 1..Len(run) = {}
      BY DEF Init
    <2>2. RunsOK
      BY <2>1 DEF RunsOK
    <2>3. FilesTyped
      <3>1. <<>> \in Seq(Nat) /\ 0 \in 0..MaxRuns
        BY LocalizationConstants
      <3> QED
        BY <3>1 DEF Init, FilesTyped
    <2>4. Live = {} /\ Owned = {}
      BY <2>1 DEF Live, Owned, Run
    <2>5. CallsOK
      <3>1. Callers = {} /\ Waiting = {} /\ Unserved = {}
        BY DEF Init, Callers, Waiting, Unserved
      <3>2. IsFiniteSet({}) /\ Cardinality({}) = 0
        BY FS_EmptySet
      <3>3. call \in [Caller -> Content \cup {None}] /\ result \in [Content -> {None, "ok", "error"}]
        BY DEF Init
      <3>4. Len(run) + Cardinality(Unserved) <= MaxRuns
        BY <2>1, <3>1, <3>2, LocalizationConstants
      <3> QED
        BY <2>4, <3>1, <3>2, <3>3, <3>4 DEF CallsOK
    <2>6. LimitsOK
      <3>1. Queued = {} /\ \A s \in Permit : Held(s) = {} /\ Limit(s) \in Nat
        BY <2>4, LimitType DEF Queued, Held
      <3>2. Cardinality({}) = 0 /\ IsFiniteSet({})
        BY FS_EmptySet
      <3>3. BufferedChunks = Sum(LoadsOf(run), {})
        BY <2>2, <2>4, BufferedSums
      <3>4. Sum(LoadsOf(run), {}) = 0
        BY <3>2, SumUnfolds
      <3> QED
        BY <3>1, <3>2, <3>3, <3>4, LocalizationConstants DEF LimitsOK
    <2> QED
      BY <2>2, <2>3, <2>5, <2>6 DEF LocalizerInv
  <1>2. LocalizerInv /\ [Next]_vars => LocalizerInv'
    BY StepKeepsCalls, StepKeepsLimits, StepKeepsFilesTyped DEF LocalizerInv
  <1> QED
    BY <1>1, <1>2, PTL DEF Spec

\* content_localization.rs: for any callers, contents and limits, jobs hold no more read, write
\* and hash permits than there are, no more of them are queued than are admitted, and no more
\* chunks are in memory than there are buffers, whatever callers go away while their jobs go on.
THEOREM LocalizationTypeCorrect == Spec => []TypeOK
  <1>1. LocalizerInv => TypeOK
    <2> SUFFICES ASSUME LocalizerInv
                 PROVE  TypeOK
      OBVIOUS
    <2>1. /\ call \in [Caller -> Content \cup {None}]
          /\ result \in [Content -> {None, "ok", "error"}]
          /\ partial \in [Digest -> 0..MaxRuns] /\ final \in [Digest -> 0..MaxRuns]
      BY DEF LocalizerInv, CallsOK, FilesTyped
    <2>2. \A i \in Live : run[i] \in RunRecord
      BY LiveRuns DEF LocalizerInv
    <2>3. \A i \in Live : /\ run[i].phase \in Phase
                          /\ run[i].resume \in 0..Size /\ run[i].got \in 0..Size
                          /\ run[i].file \in 0..MaxRuns
      BY <2>2 DEF RunRecord
    <2> QED
      BY <2>1, <2>3 DEF TypeOK, LocalizerInv, LimitsOK, Permit
  <1> QED
    BY <1>1, LocalizerInvariant, PTL

-----------------------------------------------------------------------------
(* Files, with one writer at a time and no two contents of one digest.       *)

\* The file of a run that assembles it is the partial file, and it contains what was hashed.
AssembliesOK ==
    \A i \in Live : Assembles(run[i]) =>
        /\ run[i].file # 0 /\ partial[DigestOf[run[i].content]] = run[i].file
        /\ disk[run[i].file] = run[i].hash

\* The length that a run has measured is still that of the partial file.
MeasuresOK == \A i \in Live : Measured(run[i]) => run[i].resume = PartialLength(DigestOf[run[i].content])

\* A file is under one path.
PathsApart ==
    \A c, d \in Digest : partial[c] # 0 => /\ partial[c] = partial[d] => c = d
                                           /\ partial[c] # final[d]

\* The files that runs have not created yet.
Unused(f) == f > Len(run) \/ (f \in Live /\ run[f].phase \in {"validate", "prepare"})

UnusedEmpty ==
    \A f \in 1..MaxRuns : Unused(f) => /\ disk[f] = <<>>
                                       /\ \A c \in Digest : partial[c] # f /\ final[c] # f

\* A run with a caller that transfers is the only one of its digest with a partial file.
TransfersAlone ==
    \A i \in Owned, j \in Live :
        /\ run[i].phase = "transfer" /\ run[j].phase \in FilePhase
        /\ DigestOf[run[j].content] = DigestOf[run[i].content]
        => i = j

FilesInv ==
    /\ AssembliesOK /\ MeasuresOK /\ PathsApart /\ UnusedEmpty /\ TransfersAlone
    /\ PublishedIsWhole

\* There is one permit to write.
LEMMA OneWriter ==
    ASSUME MaxWrites = 1, LocalizerInv, NEW i \in Live, "write" \in run[i].held,
           NEW j \in Live, "write" \in run[j].held
    PROVE  i = j
  <1>1. i \in Held("write") /\ j \in Held("write")
    BY DEF Held
  <1>2. IsFiniteSet(Held("write"))
    <2>1. IsFiniteSet(Live) /\ Held("write") \subseteq Live
      BY LiveRuns DEF LocalizerInv, Held
    <2> QED
      BY <2>1, FS_Subset
  <1>3. Cardinality(Held("write")) <= 1
    BY DEF LocalizerInv, LimitsOK, Permit, Limit
  <1>4. /\ IsFiniteSet(Held("write") \ {i})
        /\ Cardinality(Held("write") \ {i}) = Cardinality(Held("write")) - 1
        /\ Cardinality(Held("write")) \in Nat /\ Cardinality(Held("write") \ {i}) \in Nat
    BY <1>1, <1>2, FS_RemoveElement, FS_CardinalityType
  <1>5. Cardinality(Held("write") \ {i}) = 0
    BY <1>3, <1>4
  <1>6. Held("write") \ {i} = {}
    BY <1>4, <1>5, FS_EmptySet
  <1> QED
    BY <1>1, <1>6

\* A job without a caller that uses a partial file has the permit.
LEMMA BusyWriter ==
    ASSUME LocalizerInv, NEW j \in Live, run[j].phase \in FilePhase,
           run[j].owner = None \/ run[j].job \in Busy
    PROVE  "write" \in run[j].held
  BY LiveRuns DEF LocalizerInv, RunOK

\* While a job has the permit, no other run measures a file or assembles one of that digest.
LEMMA Exclusive ==
    ASSUME MaxWrites = 1, LocalizerInv, CellsApart, FilesInv,
           NEW i \in Live, "write" \in run[i].held, run[i].phase \in FilePhase, NEW j \in Live, j # i
    PROVE  /\ ~Measured(run[j])
           /\ DigestOf[run[j].content] = DigestOf[run[i].content] => ~Assembles(run[j])
  <1>1. ASSUME Measured(run[j])
        PROVE  FALSE
    <2>1. run[j].phase \in FilePhase /\ run[j].job \in Busy
      BY <1>1 DEF Measured, FilePhase, Busy
    <2> QED
      BY <2>1, BusyWriter, OneWriter
  <1>2. ASSUME DigestOf[run[j].content] = DigestOf[run[i].content], Assembles(run[j])
        PROVE  FALSE
    <2>1. run[j].phase = "transfer" /\ run[j].phase \in FilePhase
      BY <1>2 DEF Assembles, FilePhase
    <2>2. CASE run[j].owner = None
      BY <2>1, <2>2, BusyWriter, OneWriter
    <2>3. CASE run[j].owner # None
      <3>1. j \in Owned
        BY <2>3 DEF Owned
      <3> QED
        BY <1>2, <2>1, <3>1 DEF FilesInv, TransfersAlone
    <2> QED
      BY <2>2, <2>3
  <1> QED
    BY <1>1, <1>2

\* Steps that leave the files alone.
LEMMA QuietKeepsFiles ==
    ASSUME LocalizerInv, CellsApart, FilesInv, UNCHANGED files, Len(run') = Len(run),
           \A j \in Live' : j \in Live /\ Succeeds(run[j], run'[j]) /\ KeepsFile(run[j], run'[j]),
           \A j \in Owned' : j \in Owned
    PROVE  FilesInv'
  <1>0. UNCHANGED <<disk, partial, final>>
    BY DEF files
  <1>1. \A j \in Live' : run'[j] # Over /\ DigestOf[run'[j].content] = DigestOf[run[j].content]
    BY DEF Live, Succeeds
  <1>2. AssembliesOK'
    <2> SUFFICES ASSUME NEW j \in Live', Assembles(run'[j])
                 PROVE  /\ run'[j].file # 0 /\ partial'[DigestOf[run'[j].content]] = run'[j].file
                        /\ disk'[run'[j].file] = run'[j].hash
      BY DEF AssembliesOK, Assembles
    <2>1. Assembles(run[j]) /\ run'[j].file = run[j].file /\ run'[j].hash = run[j].hash
      BY <1>1 DEF KeepsFile
    <2> QED
      BY <1>0, <1>1, <2>1 DEF FilesInv, AssembliesOK
  <1>3. MeasuresOK'
    <2> SUFFICES ASSUME NEW j \in Live', Measured(run'[j])
                 PROVE  run'[j].resume = PartialLength(DigestOf[run[j].content])
      BY <1>0, <1>1 DEF MeasuresOK, Measured, PartialLength
    <2>1. Measured(run[j]) /\ run'[j].resume = run[j].resume
      BY <1>1 DEF KeepsFile
    <2> QED
      BY <2>1 DEF FilesInv, MeasuresOK
  <1>4. PathsApart' /\ PublishedIsWhole'
    BY <1>0 DEF FilesInv, PathsApart, PublishedIsWhole, Valid
  <1>5. UnusedEmpty'
    <2>1. \A f : Unused(f)' => Unused(f)
      BY <1>1 DEF Unused, Succeeds, NextPhases
    <2> QED
      BY <1>0, <2>1 DEF FilesInv, UnusedEmpty
  <1>6. TransfersAlone'
    <2> SUFFICES ASSUME NEW i \in Owned', NEW j \in Live', run'[i].phase = "transfer",
                        run'[j].phase \in FilePhase, DigestOf[run'[j].content] = DigestOf[run'[i].content]
                 PROVE  i = j
      BY DEF TransfersAlone
    <2>1. i \in Live' /\ i \in Live /\ i \in Owned /\ j \in Live
      BY DEF Owned
    <2>2. run[i].phase = "transfer" /\ DigestOf[run[j].content] = DigestOf[run[i].content]
      BY <1>1, <2>1 DEF KeepsFile
    <2>3. CASE run[j].phase \in FilePhase
      BY <2>1, <2>2, <2>3 DEF FilesInv, TransfersAlone
    <2>4. CASE run[j].phase \notin FilePhase
      <3>1. run'[j].owner # None /\ run[j].owner # None
        BY <1>1, <2>1, <2>4 DEF Succeeds, NextPhases, FilePhase
      <3>2. j \in Owned
        BY <2>1, <3>1 DEF Owned
      <3> QED
        BY <2>1, <2>2, <3>2 DEF CellsApart
    <2> QED
      BY <2>3, <2>4
  <1> QED
    BY <1>2, <1>3, <1>4, <1>5, <1>6 DEF FilesInv

\* A new run has no file.
LEMMA NewKeepsFiles ==
    ASSUME LocalizerInv, CellsApart, FilesInv, UNCHANGED files, NEW p \in Caller, NEW c \in Content,
           run' = Append(run, NewRun(p, c))
    PROVE  FilesInv'
  <1>0. UNCHANGED <<disk, partial, final>> /\ RunsOK /\ Len(run) \in Nat
    BY RunsBounded, LiveRuns DEF files, LocalizerInv
  <1>1. PICK n : n = Len(run) + 1
    OBVIOUS
  <1>2. /\ Len(run') = n /\ run'[n] = NewRun(p, c) /\ Live' = Live \cup {n} /\ Owned' = Owned \cup {n}
        /\ \A j \in 1..Len(run) : run'[j] = run[j]
    BY <1>0, <1>1, NewFacts
  <1>3. run'[n].phase = "validate" /\ ~Assembles(run'[n]) /\ ~Measured(run'[n])
    BY <1>2 DEF NewRun, Assembles, Measured
  <1>4. \A j \in Live : run'[j] = run[j]
    BY <1>0, <1>2, LiveRuns
  <1>5. AssembliesOK'
    <2> SUFFICES ASSUME NEW j \in Live', Assembles(run'[j])
                 PROVE  /\ run'[j].file # 0 /\ partial'[DigestOf[run'[j].content]] = run'[j].file
                        /\ disk'[run'[j].file] = run'[j].hash
      BY DEF AssembliesOK, Assembles
    <2> QED
      BY <1>0, <1>2, <1>3, <1>4 DEF FilesInv, AssembliesOK
  <1>6. MeasuresOK'
    <2> SUFFICES ASSUME NEW j \in Live', Measured(run'[j])
                 PROVE  run'[j].resume = PartialLength(DigestOf[run'[j].content])
      BY <1>0 DEF MeasuresOK, Measured, PartialLength
    <2> QED
      BY <1>2, <1>3, <1>4 DEF FilesInv, MeasuresOK
  <1>7. PathsApart' /\ PublishedIsWhole'
    BY <1>0 DEF FilesInv, PathsApart, PublishedIsWhole, Valid
  <1>8. UnusedEmpty'
    <2>1. ASSUME NEW f \in 1..MaxRuns, Unused(f)'
          PROVE  Unused(f)
      <3>1. CASE f > Len(run')
        BY <1>0, <1>1, <1>2, <3>1, LocalizationConstants DEF Unused
      <3>2. CASE f \in Live
        BY <1>4, <2>1, <3>2, <1>0, <1>1, <1>2, LiveRuns DEF Unused
      <3>3. CASE f = n
        BY <1>0, <1>1, <3>3 DEF Unused
      <3> QED
        BY <1>2, <2>1, <3>1, <3>2, <3>3 DEF Unused
    <2> QED
      BY <1>0, <2>1 DEF FilesInv, UnusedEmpty
  <1>9. TransfersAlone'
    <2> SUFFICES ASSUME NEW i \in Owned', NEW j \in Live', run'[i].phase = "transfer",
                        run'[j].phase \in FilePhase, DigestOf[run'[j].content] = DigestOf[run'[i].content]
                 PROVE  i = j
      BY DEF TransfersAlone
    <2>1. i \in Owned /\ i \in Live /\ j \in Live
      BY <1>2, <1>3 DEF Owned, FilePhase
    <2> QED
      BY <1>4, <2>1 DEF FilesInv, TransfersAlone
  <1> QED
    BY <1>5, <1>6, <1>7, <1>8, <1>9 DEF FilesInv

\* A run that has the permit to write moves: the others are as they were, no other run of its
\* digest assembles a file, and it transfers alone.
LEMMA WriterMoves ==
    ASSUME MaxWrites = 1, LocalizerInv, CellsApart, FilesInv, NEW i \in Live, "write" \in run[i].held,
           run[i].phase \in FilePhase, NEW r, Moves(i, r)
    PROVE  /\ run'[i] = r /\ Live' \subseteq Live /\ Len(run') = Len(run)
           /\ \A j \in Live' : j # i => /\ run'[j] = run[j] /\ ~Measured(run[j])
                                        /\ DigestOf[run[j].content] = DigestOf[run[i].content] => ~Assembles(run[j])
           /\ i \in Live' => r # Over /\ DigestOf[r.content] = DigestOf[run[i].content]
           /\ \A f : Unused(f)' => Unused(f)
           /\ TransfersAlone'
  <1>0. RunsOK
    BY DEF LocalizerInv
  <1>1. /\ Len(run') = Len(run) /\ run'[i] = r /\ i \in 1..Len(run) /\ Live' \subseteq Live
        /\ \A j \in 1..Len(run) : j # i => run'[j] = run[j]
        /\ \A j \in Owned' : j \in Owned
    BY <1>0, MoveFacts
  <1>2. \A j \in Live' : j # i => run'[j] = run[j]
    BY <1>0, <1>1, LiveRuns
  <1>3. i \in Live' => r # Over /\ DigestOf[r.content] = DigestOf[run[i].content]
    BY <1>1 DEF Live, Moves, Succeeds
  <1>4. \A f : Unused(f)' => Unused(f)
    <2> SUFFICES ASSUME NEW f, Unused(f)'
                 PROVE  Unused(f)
      OBVIOUS
    <2>1. CASE f = i /\ i \in Live'
      BY <1>1, <1>3, <2>1 DEF Unused, Moves, Succeeds, NextPhases
    <2> QED
      BY <1>1, <1>2, <2>1 DEF Unused
  <1>5. TransfersAlone'
    <2> SUFFICES ASSUME NEW k \in Owned', NEW j \in Live', run'[k].phase = "transfer",
                        run'[j].phase \in FilePhase, DigestOf[run'[j].content] = DigestOf[run'[k].content], k # j
                 PROVE  FALSE
      BY DEF TransfersAlone
    <2>1. k \in Owned /\ k \in Live' /\ k \in Live /\ j \in Live
      BY <1>1 DEF Owned
    <2>2. CASE k = i
      <3>1. run'[j] = run[j] /\ DigestOf[run[j].content] = DigestOf[run[i].content]
        BY <1>1, <1>2, <1>3, <2>1, <2>2
      <3>2. CASE run[j].owner = None
        BY <2>1, <2>2, <3>1, <3>2, BusyWriter, OneWriter
      <3>3. CASE run[j].owner # None
        <4>1. j \in Owned
          BY <2>1, <3>3 DEF Owned
        <4> QED
          BY <2>1, <2>2, <3>1, <4>1 DEF CellsApart
      <3> QED
        BY <3>2, <3>3
    <2>3. CASE k # i
      <3>1. run'[k] = run[k] /\ DigestOf[run[j].content] = DigestOf[run[k].content] /\ run[j].phase \in FilePhase
        BY <1>1, <1>2, <1>3, <2>1, <2>3
      <3> QED
        BY <2>1, <3>1 DEF FilesInv, TransfersAlone
    <2> QED
      BY <2>2, <2>3
  <1>6. \A j \in Live' : j # i => /\ ~Measured(run[j])
                                  /\ DigestOf[run[j].content] = DigestOf[run[i].content] => ~Assembles(run[j])
    BY <1>1, Exclusive
  <1> QED
    BY <1>1, <1>2, <1>3, <1>4, <1>5, <1>6

\* The partial file of a digest may be removed by a run that has the permit to write and does
\* not go on with it; and it may be measured.
LEMMA RemovalKeepsFiles ==
    ASSUME MaxWrites = 1, LocalizerInv, CellsApart, FilesInv, NEW i \in Live, "write" \in run[i].held,
           run[i].phase \in FilePhase, NEW r, Moves(i, r), ~Assembles(r),
           Measured(r) => r.resume = PartialLength(DigestOf[r.content])',
           UNCHANGED <<disk, final>>,
           UNCHANGED partial \/ partial' = [partial EXCEPT ![DigestOf[run[i].content]] = 0]
    PROVE  FilesInv'
  <1>0. /\ FilesTyped /\ DigestOf[run[i].content] \in Digest
        /\ \A j \in Live : DigestOf[run[j].content] \in Digest
    BY LiveRuns, LocalizationConstants DEF LocalizerInv, RunRecord
  <1>1. /\ run'[i] = r /\ Live' \subseteq Live
        /\ \A j \in Live' : j # i => /\ run'[j] = run[j] /\ ~Measured(run[j])
                                     /\ DigestOf[run[j].content] = DigestOf[run[i].content] => ~Assembles(run[j])
        /\ \A f : Unused(f)' => Unused(f)
        /\ TransfersAlone'
    BY WriterMoves
  <1>2. \A c \in Digest : /\ c # DigestOf[run[i].content] => partial'[c] = partial[c]
                          /\ partial'[c] = partial[c] \/ partial'[c] = 0
    BY <1>0 DEF FilesTyped
  <1>3. AssembliesOK'
    <2> SUFFICES ASSUME NEW j \in Live', Assembles(run'[j])
                 PROVE  /\ run'[j].file # 0 /\ partial'[DigestOf[run'[j].content]] = run'[j].file
                        /\ disk'[run'[j].file] = run'[j].hash
      BY DEF AssembliesOK, Assembles
    <2>1. j # i /\ j \in Live /\ run'[j] = run[j] /\ DigestOf[run[j].content] # DigestOf[run[i].content]
      BY <1>1
    <2> QED
      BY <1>0, <1>2, <2>1 DEF FilesInv, AssembliesOK
  <1>4. MeasuresOK'
    <2>1. \A j \in Live' : Measured(run'[j]) => run'[j] = r
      BY <1>1
    <2>2. Measured(r) => r.resume = IF partial'[DigestOf[r.content]] = 0 THEN 0 ELSE Len(disk'[partial'[DigestOf[r.content]]])
      BY DEF PartialLength
    <2> QED
      BY <2>1, <2>2 DEF MeasuresOK, Measured, PartialLength
  <1>5. PathsApart' /\ PublishedIsWhole'
    BY <1>0, <1>2 DEF FilesInv, PathsApart, PublishedIsWhole, Valid
  <1>6. UnusedEmpty'
    <2> SUFFICES ASSUME NEW f \in 1..MaxRuns, Unused(f)
                 PROVE  disk[f] = <<>> /\ \A c \in Digest : partial'[c] # f /\ final[c] # f
      BY <1>1 DEF UnusedEmpty
    <2>1. f # 0
      BY LocalizationConstants
    <2> QED
      BY <1>2, <2>1 DEF FilesInv, UnusedEmpty
  <1> QED
    BY <1>1, <1>3, <1>4, <1>5, <1>6 DEF FilesInv

\* The partial file is opened.
LEMMA OpenKeepsFiles ==
    ASSUME MaxWrites = 1, LocalizerInv, CellsApart, FilesInv, NEW i \in Live, PrepareOpen(i)
    PROVE  FilesInv'
  <1>0. /\ RunsOK /\ FilesTyped /\ i \in 1..MaxRuns /\ i \in 1..Len(run) /\ Len(run) \in Nat /\ i # 0
        /\ DigestOf[run[i].content] \in Digest /\ \A j \in Live : DigestOf[run[j].content] \in Digest
        /\ run[i].resume \in Nat
    BY RunsBounded, LiveRuns, LocalizationConstants DEF LocalizerInv, RunRecord
  <1>1. /\ run[i].phase = "prepare" /\ run[i].job = "measured" /\ run[i].phase \in FilePhase
        /\ Measured(run[i]) /\ UNCHANGED <<disk, final>>
    BY DEF PrepareOpen, Measured, FilePhase
  <1>2. "write" \in run[i].held
    BY <1>1, BusyWriter DEF Busy
  <1>3. PICK r :
           /\ Moves(i, r) /\ ~Measured(r)
           /\ \/ UNCHANGED partial /\ KeepsFile(run[i], r) /\ ~Assembles(r)
              \/ /\ partial' = [partial EXCEPT ![DigestOf[run[i].content]] = Opened(i)]
                 /\ r # Over => /\ r.phase = "transfer" /\ r.file = Opened(i)
                                /\ r.hash = IF run[i].resume > 0 THEN disk[Opened(i)] ELSE <<>>
    BY <1>0, PrepareOpenMove
  <1>4. CASE UNCHANGED partial /\ ~Assembles(r)
    BY <1>1, <1>2, <1>3, <1>4, RemovalKeepsFiles
  <1>5. CASE /\ partial' = [partial EXCEPT ![DigestOf[run[i].content]] = Opened(i)]
             /\ r # Over => /\ r.phase = "transfer" /\ r.file = Opened(i)
                            /\ r.hash = IF run[i].resume > 0 THEN disk[Opened(i)] ELSE <<>>
    <2>1. PICK c \in Digest : c = DigestOf[run[i].content]
      BY <1>0
    <2>2. PICK f : f = Opened(i)
      OBVIOUS
    <2>3. /\ run'[i] = r /\ Live' \subseteq Live /\ Len(run') = Len(run)
          /\ \A j \in Live' : j # i => /\ run'[j] = run[j] /\ ~Measured(run[j])
                                       /\ DigestOf[run[j].content] = c => ~Assembles(run[j])
          /\ i \in Live' => r # Over /\ DigestOf[r.content] = c
          /\ \A g : Unused(g)' => Unused(g)
          /\ TransfersAlone'
      BY <1>1, <1>2, <1>3, <2>1, WriterMoves
    <2>4. Unused(i) /\ disk[i] = <<>> /\ \A d \in Digest : partial[d] # i /\ final[d] # i
      BY <1>0, <1>1 DEF Unused, FilesInv, UnusedEmpty
    <2>5. ~Unused(i)'
      <3>1. ~(i > Len(run'))
        BY <1>0, <2>3
      <3> QED
        BY <1>5, <2>3, <3>1 DEF Unused
    <2>6. /\ partial[c] = 0 => f = i
          /\ partial[c] # 0 => f = partial[c]
          /\ f # 0 /\ f \in 1..MaxRuns /\ partial[c] \in 0..MaxRuns
      <3>1. partial[c] \in 0..MaxRuns
        BY DEF FilesTyped, LocalizerInv
      <3> QED
        BY <1>0, <2>1, <2>2, <3>1, LocalizationConstants DEF Opened
    <2>7. partial'[c] = f /\ \A d \in Digest : d # c => partial'[d] = partial[d]
      BY <1>0, <1>5, <2>1, <2>2 DEF FilesTyped
    <2>8. disk[f] = IF run[i].resume > 0 THEN disk[f] ELSE <<>>
      <3>1. run[i].resume = PartialLength(c)
        BY <1>1, <2>1 DEF FilesInv, MeasuresOK
      <3>2. CASE partial[c] = 0
        BY <2>4, <2>6, <3>2
      <3>3. CASE partial[c] # 0
        <4>1. run[i].resume = Len(disk[f]) /\ disk[f] \in Seq(Nat)
          BY <1>0, <2>6, <3>1, <3>3 DEF PartialLength, FilesTyped
        <4>2. Len(disk[f]) = 0 => disk[f] = <<>>
          BY <4>1
        <4> QED
          BY <1>0, <4>1, <4>2
      <3> QED
        BY <3>2, <3>3
    <2>9. AssembliesOK'
      <3> SUFFICES ASSUME NEW j \in Live', Assembles(run'[j])
                   PROVE  /\ run'[j].file # 0 /\ partial'[DigestOf[run'[j].content]] = run'[j].file
                          /\ disk[run'[j].file] = run'[j].hash
        BY <1>1 DEF AssembliesOK, Assembles
      <3>1. CASE j = i
        BY <1>5, <2>2, <2>3, <2>6, <2>7, <2>8, <3>1
      <3>2. CASE j # i
        <4>1. j \in Live /\ run'[j] = run[j] /\ DigestOf[run[j].content] # c /\ DigestOf[run[j].content] \in Digest
          BY <1>0, <2>3, <3>2
        <4> QED
          BY <2>7, <4>1 DEF FilesInv, AssembliesOK
      <3> QED
        BY <3>1, <3>2
    <2>10. MeasuresOK'
      <3>1. \A j \in Live' : ~Measured(run'[j])
        BY <1>3, <2>3
      <3> QED
        BY <3>1 DEF MeasuresOK, Measured
    <2>11. PathsApart'
      <3> SUFFICES ASSUME NEW d \in Digest, NEW e \in Digest, partial'[d] # 0
                   PROVE  (partial'[d] = partial'[e] => d = e) /\ partial'[d] # final[e]
        BY <1>1 DEF PathsApart
      <3>1. CASE partial[c] # 0
        <4>1. \A x \in Digest : partial'[x] = partial[x]
          BY <2>6, <2>7, <3>1
        <4> QED
          BY <4>1 DEF FilesInv, PathsApart
      <3>2. CASE partial[c] = 0
        <4>1. f = i /\ \A x \in Digest : partial[x] # f /\ final[x] # f
          BY <2>4, <2>6, <3>2
        <4> QED
          BY <2>7, <4>1 DEF FilesInv, PathsApart
      <3> QED
        BY <3>1, <3>2
    <2>12. UnusedEmpty'
      <3> SUFFICES ASSUME NEW g \in 1..MaxRuns, Unused(g)'
                   PROVE  disk[g] = <<>> /\ \A d \in Digest : partial'[d] # g /\ final[d] # g
        BY <1>1 DEF UnusedEmpty
      <3>1. g # i /\ Unused(g)
        BY <2>3, <2>5
      <3>2. disk[g] = <<>> /\ \A d \in Digest : partial[d] # g /\ final[d] # g
        BY <3>1 DEF FilesInv, UnusedEmpty
      <3> QED
        BY <2>6, <2>7, <3>1, <3>2
    <2>13. PublishedIsWhole'
      BY <1>1 DEF FilesInv, PublishedIsWhole, Valid
    <2> QED
      BY <2>3, <2>9, <2>10, <2>11, <2>12, <2>13 DEF FilesInv
  <1> QED
    BY <1>3, <1>4, <1>5

\* A chunk is appended to the partial file.
LEMMA WriteKeepsFiles ==
    ASSUME MaxWrites = 1, LocalizerInv, CellsApart, FilesInv, NEW i \in Live, WriterWrites(i)
    PROVE  FilesInv'
  <1>0. /\ RunsOK /\ FilesTyped /\ DigestOf[run[i].content] \in Digest /\ run[i].file \in 0..MaxRuns
        /\ \A j \in Live : DigestOf[run[j].content] \in Digest
    BY LiveRuns, LocalizationConstants DEF LocalizerInv, RunRecord
  <1>1. PICK r : /\ Moves(i, r) /\ Assembles(run[i]) /\ Assembles(r) /\ ~Measured(r)
                 /\ r.file = run[i].file /\ r.hash = run[i].hash \o run[i].hand
                 /\ "write" \in run[i].held /\ DigestOf[r.content] = DigestOf[run[i].content]
    BY <1>0, WriterWritesMove
  <1>2. PICK c \in Digest : c = DigestOf[run[i].content]
    BY <1>0
  <1>3. PICK f : f = run[i].file
    OBVIOUS
  <1>4. f # 0 /\ partial[c] = f /\ disk[f] = run[i].hash /\ f \in 1..MaxRuns
    BY <1>0, <1>1, <1>2, <1>3, LocalizationConstants DEF FilesInv, AssembliesOK
  <1>5. UNCHANGED <<partial, final>> /\ disk' = [disk EXCEPT ![f] = @ \o run[i].hand]
    BY <1>3 DEF WriterWrites
  <1>6. disk'[f] = r.hash /\ \A g \in 1..MaxRuns : g # f => disk'[g] = disk[g]
    BY <1>0, <1>1, <1>4, <1>5 DEF FilesTyped
  <1>7. run[i].phase \in FilePhase
    BY <1>1 DEF Assembles, FilePhase
  <1>8. /\ run'[i] = r /\ Live' \subseteq Live
        /\ \A j \in Live' : j # i => /\ run'[j] = run[j] /\ ~Measured(run[j])
                                     /\ DigestOf[run[j].content] = c => ~Assembles(run[j])
        /\ \A g : Unused(g)' => Unused(g)
        /\ TransfersAlone'
    BY <1>1, <1>2, <1>7, WriterMoves
  <1>9. AssembliesOK'
    <2> SUFFICES ASSUME NEW j \in Live', Assembles(run'[j])
                 PROVE  /\ run'[j].file # 0 /\ partial[DigestOf[run'[j].content]] = run'[j].file
                        /\ disk'[run'[j].file] = run'[j].hash
      BY <1>5 DEF AssembliesOK, Assembles
    <2>1. CASE j = i
      BY <1>1, <1>2, <1>3, <1>4, <1>6, <1>8, <2>1
    <2>2. CASE j # i
      <3>1. j \in Live /\ run'[j] = run[j] /\ DigestOf[run[j].content] # c /\ DigestOf[run[j].content] \in Digest
        BY <1>0, <1>8, <2>2
      <3>2. /\ run[j].file # 0 /\ partial[DigestOf[run[j].content]] = run[j].file
            /\ disk[run[j].file] = run[j].hash
        BY <3>1 DEF FilesInv, AssembliesOK
      <3>3. run[j].file # f /\ run[j].file \in 1..MaxRuns
        BY <1>0, <1>4, <3>1, <3>2, LocalizationConstants DEF FilesInv, PathsApart, FilesTyped
      <3> QED
        BY <1>6, <3>1, <3>2, <3>3
    <2> QED
      BY <2>1, <2>2
  <1>10. MeasuresOK'
    <2>1. \A j \in Live' : ~Measured(run'[j])
      BY <1>1, <1>8
    <2> QED
      BY <2>1 DEF MeasuresOK, Measured
  <1>11. PathsApart'
    BY <1>5 DEF FilesInv, PathsApart
  <1>12. UnusedEmpty'
    <2> SUFFICES ASSUME NEW g \in 1..MaxRuns, Unused(g)
                 PROVE  disk'[g] = <<>> /\ \A d \in Digest : partial[d] # g /\ final[d] # g
      BY <1>5, <1>8 DEF UnusedEmpty
    <2>1. disk[g] = <<>> /\ \A d \in Digest : partial[d] # g /\ final[d] # g
      BY DEF FilesInv, UnusedEmpty
    <2>2. g # f
      BY <1>4, <2>1
    <2> QED
      BY <1>6, <2>1, <2>2
  <1>13. PublishedIsWhole'
    <2> SUFFICES ASSUME NEW d \in Digest, final[d] # 0
                 PROVE  disk'[final[d]] = Whole
      BY <1>5 DEF PublishedIsWhole, Valid, Whole
    <2>1. final[d] # f /\ final[d] \in 1..MaxRuns
      BY <1>0, <1>4, LocalizationConstants DEF FilesInv, PathsApart, FilesTyped
    <2> QED
      BY <1>6, <2>1 DEF FilesInv, PublishedIsWhole, Valid
  <1> QED
    BY <1>8, <1>9, <1>10, <1>11, <1>12, <1>13 DEF FilesInv

\* The partial file is published.
LEMMA CommitKeepsFiles ==
    ASSUME MaxWrites = 1, LocalizerInv, CellsApart, FilesInv, NEW i \in Live, WriterCommits(i)
    PROVE  FilesInv'
  <1>0. /\ RunsOK /\ FilesTyped /\ DigestOf[run[i].content] \in Digest
        /\ \A j \in Live : DigestOf[run[j].content] \in Digest
    BY LiveRuns, LocalizationConstants DEF LocalizerInv, RunRecord
  <1>1. PICK r :
           /\ Moves(i, r) /\ KeepsFile(run[i], r) /\ ~Assembles(r)
           /\ Assembles(run[i]) /\ "write" \in run[i].held
           /\ \/ UNCHANGED <<partial, final>>
              \/ partial' = [partial EXCEPT ![DigestOf[run[i].content]] = 0] /\ UNCHANGED final
              \/ /\ DigestOk(i)
                 /\ partial' = [partial EXCEPT ![DigestOf[run[i].content]] = 0]
                 /\ final' = [final EXCEPT ![DigestOf[run[i].content]] = partial[DigestOf[run[i].content]]]
    BY <1>0, WriterCommitsMove
  <1>2. run[i].phase \in FilePhase /\ UNCHANGED disk
    BY <1>1 DEF Assembles, FilePhase, WriterCommits
  <1>3. ~Measured(r)
    <2>1. ~Measured(run[i]) /\ ~Measured(Over)
      BY <1>1 DEF Assembles, Measured, Over
    <2> QED
      BY <1>1, <2>1 DEF KeepsFile
  <1>4. CASE UNCHANGED final /\ (UNCHANGED partial \/ partial' = [partial EXCEPT ![DigestOf[run[i].content]] = 0])
    BY <1>1, <1>2, <1>3, <1>4, RemovalKeepsFiles
  <1>5. CASE /\ DigestOk(i)
             /\ partial' = [partial EXCEPT ![DigestOf[run[i].content]] = 0]
             /\ final' = [final EXCEPT ![DigestOf[run[i].content]] = partial[DigestOf[run[i].content]]]
    <2>1. PICK c \in Digest : c = DigestOf[run[i].content]
      BY <1>0
    <2>2. PICK f : f = partial[c]
      OBVIOUS
    <2>3. f # 0 /\ disk[f] = Whole
      BY <1>1, <1>5, <2>1, <2>2 DEF FilesInv, AssembliesOK, DigestOk
    <2>4. /\ partial'[c] = 0 /\ final'[c] = f
          /\ \A d \in Digest : d # c => partial'[d] = partial[d] /\ final'[d] = final[d]
      BY <1>0, <1>5, <2>1, <2>2 DEF FilesTyped
    <2>5. /\ run'[i] = r /\ Live' \subseteq Live
          /\ \A j \in Live' : j # i => /\ run'[j] = run[j] /\ ~Measured(run[j])
                                       /\ DigestOf[run[j].content] = c => ~Assembles(run[j])
          /\ \A g : Unused(g)' => Unused(g)
          /\ TransfersAlone'
      BY <1>1, <1>2, <2>1, WriterMoves
    <2>6. AssembliesOK'
      <3> SUFFICES ASSUME NEW j \in Live', Assembles(run'[j])
                   PROVE  /\ run'[j].file # 0 /\ partial'[DigestOf[run'[j].content]] = run'[j].file
                          /\ disk[run'[j].file] = run'[j].hash
        BY <1>2 DEF AssembliesOK, Assembles
      <3>1. j # i /\ j \in Live /\ run'[j] = run[j] /\ DigestOf[run[j].content] # c /\ DigestOf[run[j].content] \in Digest
        BY <1>0, <1>1, <2>5
      <3> QED
        BY <2>4, <3>1 DEF FilesInv, AssembliesOK
    <2>7. MeasuresOK'
      <3>1. \A j \in Live' : ~Measured(run'[j])
        BY <1>3, <2>5
      <3> QED
        BY <3>1 DEF MeasuresOK, Measured
    <2>8. PathsApart'
      <3> SUFFICES ASSUME NEW d \in Digest, NEW e \in Digest, partial'[d] # 0
                   PROVE  (partial'[d] = partial'[e] => d = e) /\ partial'[d] # final'[e]
        BY DEF PathsApart
      <3>1. d # c /\ partial'[d] = partial[d] /\ partial[d] # 0 /\ partial[d] # f
        BY <2>2, <2>4 DEF FilesInv, PathsApart
      <3> QED
        BY <2>3, <2>4, <3>1 DEF FilesInv, PathsApart
    <2>9. UnusedEmpty'
      <3> SUFFICES ASSUME NEW g \in 1..MaxRuns, Unused(g)
                   PROVE  disk[g] = <<>> /\ \A d \in Digest : partial'[d] # g /\ final'[d] # g
        BY <1>2, <2>5 DEF UnusedEmpty
      <3>1. disk[g] = <<>> /\ \A d \in Digest : partial[d] # g /\ final[d] # g
        BY DEF FilesInv, UnusedEmpty
      <3>2. g # 0 /\ g # f
        BY <2>2, <3>1, LocalizationConstants
      <3> QED
        BY <2>4, <3>1, <3>2
    <2>10. PublishedIsWhole'
      <3> SUFFICES ASSUME NEW d \in Digest, final'[d] # 0
                   PROVE  disk[final'[d]] = Whole
        BY <1>2 DEF PublishedIsWhole, Valid, Whole
      <3> QED
        BY <2>3, <2>4 DEF FilesInv, PublishedIsWhole, Valid
    <2> QED
      BY <2>5, <2>6, <2>7, <2>8, <2>9, <2>10 DEF FilesInv
  <1> QED
    BY <1>1, <1>4, <1>5

\* Every step keeps the files in order.
LEMMA StepKeepsFiles ==
    ASSUME MaxWrites = 1, LocalizerInv, CellsApart, FilesInv, [Next]_vars
    PROVE  FilesInv'
  <1>0. RunsOK /\ FilesTyped
    BY DEF LocalizerInv
  <1>1. CASE UNCHANGED <<run, files>>
    <2>1. Live' = Live /\ Owned' = Owned
      BY <1>1 DEF Live, Owned, Run
    <2>2. \A j \in Live : RunOK(run[j]) /\ run[j] # Over
      BY <1>0, LiveRuns DEF Live
    <2>3. \A j \in Live : Succeeds(run[j], run[j]) /\ KeepsFile(run[j], run[j])
      BY <2>2 DEF Succeeds, KeepsFile
    <2> QED
      BY <1>1, <2>1, <2>3, QuietKeepsFiles
  <1>2. ASSUME NEW p \in Caller, Initialise(p)
        PROVE  FilesInv'
    <2>1. call[p] \in Content /\ run' = Append(run, NewRun(p, call[p])) /\ UNCHANGED files
      BY <1>2 DEF Initialise, Waiting, LocalizerInv, CallsOK
    <2> QED
      BY <2>1, NewKeepsFiles
  <1>3. ASSUME RunsShrink, UNCHANGED files
        PROVE  FilesInv'
    <2>1. Live' \subseteq Live /\ \A j \in Owned' : j \in Owned
      BY <1>0, <1>3, ShrinkFacts
    <2>2. \A j \in Live' : Succeeds(run[j], run'[j]) /\ KeepsFile(run[j], run'[j])
      BY <1>0, <1>3, <2>1, LiveRuns DEF RunsShrink
    <2> QED
      BY <1>3, <2>1, <2>2, QuietKeepsFiles DEF RunsShrink
  <1>4. ASSUME NEW i \in Live, QuietStep(i)
        PROVE  FilesInv'
    <2>1. PICK r : Moves(i, r) /\ KeepsFile(run[i], r) /\ UNCHANGED files
      BY <1>4 DEF QuietStep
    <2>2. /\ Len(run') = Len(run) /\ run'[i] = r /\ Live' \subseteq Live
          /\ \A j \in 1..Len(run) : j # i => run'[j] = run[j]
          /\ \A j \in Owned' : j \in Owned
      BY <1>0, <2>1, MoveFacts
    <2>3. ASSUME NEW j \in Live'
          PROVE  j \in Live /\ Succeeds(run[j], run'[j]) /\ KeepsFile(run[j], run'[j])
      <3>1. j \in Live /\ j \in 1..Len(run) /\ RunOK(run[j])
        BY <1>0, <2>2, LiveRuns
      <3>2. CASE j = i
        BY <2>1, <2>2, <3>1, <3>2 DEF Moves
      <3>3. CASE j # i
        BY <2>2, <3>1, <3>3 DEF Succeeds, KeepsFile
      <3> QED
        BY <3>2, <3>3
    <2> QED
      BY <2>1, <2>2, <2>3, QuietKeepsFiles
  <1>5. ASSUME NEW i \in Live, PrepareStat(i)
        PROVE  FilesInv'
    <2>1. run[i].phase \in FilePhase /\ run[i].job \in Busy /\ UNCHANGED <<disk, final>>
      BY <1>5 DEF PrepareStat, FilePhase, Busy
    <2>2. "write" \in run[i].held
      BY <2>1, BusyWriter
    <2>3. PICK r : /\ Moves(i, r) /\ ~Assembles(r) /\ r.resume = PartialLength(DigestOf[r.content])'
                   /\ UNCHANGED partial \/ partial' = [partial EXCEPT ![DigestOf[run[i].content]] = 0]
      BY <1>0, <1>5, PrepareStatMove
    <2> QED
      BY <2>1, <2>2, <2>3, RemovalKeepsFiles
  <1>6. ASSUME NEW i \in Live, remove_partial(i)
        PROVE  FilesInv'
    <2>1. PICK r : /\ Moves(i, r) /\ KeepsFile(run[i], r) /\ ~Assembles(r)
                   /\ run[i].phase = "remove" /\ "write" \in run[i].held
      BY <1>0, <1>6, RemoveMove
    <2>2. /\ run[i].phase \in FilePhase /\ UNCHANGED <<disk, final>>
          /\ partial' = [partial EXCEPT ![DigestOf[run[i].content]] = 0]
      BY <1>6, <2>1 DEF remove_partial, FilePhase
    <2>3. ~Measured(r)
      <3>1. ~Measured(run[i]) /\ ~Measured(Over)
        BY <2>1 DEF Measured, Over
      <3> QED
        BY <2>1, <3>1 DEF KeepsFile
    <2> QED
      BY <2>1, <2>2, <2>3, RemovalKeepsFiles
  <1>7. ASSUME NEW i \in Live, FileStep(i)
        PROVE  FilesInv'
    BY <1>5, <1>6, <1>7, OpenKeepsFiles, WriteKeepsFiles, CommitKeepsFiles DEF FileStep
  <1>8. ASSUME NEW p \in Caller, Drop(p)
        PROVE  FilesInv'
    BY <1>0, <1>3, <1>8, DropShrinks DEF Drop
  <1>9. CASE Restart
    BY <1>0, <1>3, <1>9, RestartShrinks DEF Restart
  <1> QED
    BY <1>0, <1>1, <1>2, <1>4, <1>7, <1>8, <1>9, StepKinds DEF vars, files, localize_one, Return, Shutdown

\* README.md: size and SHA-256 are verified before the atomic publication.  Where one job writes
\* at a time and no two contents of one digest are localized at once, for any callers, contents and
\* other limits, a file under a final path is the whole content, whatever calls are dropped while
\* their jobs go on, jobs fail, sources are corrupt and processes restart.  Both conditions are
\* needed: the run localization_reuse refutes it for two writers, and contents of one digest have
\* two cells and one file.
THEOREM PublishedStaysWhole ==
    ASSUME MaxWrites = 1
    PROVE  Spec => PublishedWhenApart
  <1>1. Init => FilesInv
    <2> SUFFICES ASSUME Init
                 PROVE  FilesInv
      OBVIOUS
    <2>1. run = <<>> /\ Len(run) = 0 /\ 1..Len(run) = {}
      BY DEF Init
    <2>2. Live = {} /\ Owned = {}
      BY <2>1 DEF Live, Owned, Run
    <2>3. AssembliesOK /\ MeasuresOK /\ TransfersAlone
      BY <2>2 DEF AssembliesOK, MeasuresOK, TransfersAlone
    <2>4. PathsApart /\ PublishedIsWhole
      BY DEF Init, PathsApart, PublishedIsWhole
    <2>5. UnusedEmpty
      <3>1. \A f \in 1..MaxRuns : f # 0
        BY LocalizationConstants
      <3> QED
        BY <3>1 DEF Init, UnusedEmpty
    <2> QED
      BY <2>3, <2>4, <2>5 DEF FilesInv
  <1>2. LocalizerInv /\ CellsApart /\ FilesInv /\ [Next]_vars => FilesInv'
    BY StepKeepsFiles
  <1>3. FilesInv => PublishedIsWhole
    BY DEF FilesInv
  <1> QED
    BY <1>1, <1>2, <1>3, LocalizerInvariant, PTL DEF Spec, PublishedWhenApart

-----------------------------------------------------------------------------
(* Trust: the identities of a worker and what was issued to them.            *)

Identity ==
    [generation : Nat, status : {"Pending", "Active", "Revoked", "Quarantined"},
     secret : Nat, until : Nat, trusted : BOOLEAN]

TrustTypeOK ==
    /\ now \in Nat
    /\ keys \in Nat
    /\ identity \in [Node -> Identity]
    /\ period \in [Node -> Nat]

\* Generations of a node only grow, and one generation is one period of an Active
\* identity.
GenerationsFence ==
    \A a \in issued :
        /\ a.node \in Node /\ a.generation \in Nat
        /\ a.generation <= identity[a.node].generation
        /\ identity[a.node].status = "Active" /\ a.generation = identity[a.node].generation
             => a.period = period[a.node]

\* Secrets are not used twice, and one secret is one period.
SecretsFence ==
    \A r \in receipts :
        /\ r.node \in Node /\ r.secret \in 1..keys
        /\ identity[r.node].secret = r.secret => r.period = period[r.node]

\* The secret of an Active identity is one that was created.
SecretsCreated ==
    \A n \in Node : identity[n].status = "Active" => identity[n].secret \in 1..keys

\* The inductive invariant of the trust plane.
TrustInv == TrustTypeOK /\ GenerationsFence /\ SecretsFence /\ SecretsCreated

-----------------------------------------------------------------------------
\* A fresh secret and a higher generation (approve, rotate, readmit) fence whatever was
\* granted and signed before.
LEMMA InstalledFences ==
    ASSUME TrustInv, NEW n \in Node, NEW g \in Nat,
           g > identity[n].generation, Installed(n, g)
    PROVE  TrustInv'
  <1>0. Validity \in Nat
    BY TrustConstants
  <1>1. TrustTypeOK'
    BY <1>0 DEF TrustInv, TrustTypeOK, Identity, Installed, NewPeriod
  <1>2. GenerationsFence'
    <2> SUFFICES ASSUME NEW a \in issued
                 PROVE  /\ a.node \in Node /\ a.generation \in Nat
                        /\ a.generation <= identity'[a.node].generation
                        /\ identity'[a.node].status = "Active"
                             /\ a.generation = identity'[a.node].generation
                             => a.period = period'[a.node]
      BY DEF Installed, signatures, GenerationsFence
    <2>1. CASE a.node = n
      <3>1. identity'[n].generation = g
        BY DEF Installed, TrustInv, TrustTypeOK
      <3>2. identity[n].generation \in Nat
        BY DEF TrustInv, TrustTypeOK, Identity
      <3> QED
        BY <2>1, <3>1, <3>2 DEF TrustInv, GenerationsFence
    <2>2. CASE a.node # n
      <3>1. identity'[a.node] = identity[a.node] /\ period'[a.node] = period[a.node]
        BY <2>2 DEF Installed, NewPeriod, TrustInv, TrustTypeOK, GenerationsFence
      <3> QED
        BY <3>1 DEF TrustInv, GenerationsFence
    <2> QED
      BY <2>1, <2>2
  <1>3. SecretsFence'
    <2> SUFFICES ASSUME NEW r \in receipts
                 PROVE  /\ r.node \in Node /\ r.secret \in 1..keys'
                        /\ identity'[r.node].secret = r.secret => r.period = period'[r.node]
      BY DEF Installed, signatures, SecretsFence
    <2>0. keys \in Nat /\ keys' = keys + 1 /\ r.node \in Node /\ r.secret \in 1..keys
      BY DEF Installed, TrustInv, TrustTypeOK, SecretsFence
    <2>1. CASE r.node = n
      <3>1. identity'[n].secret = keys + 1
        BY DEF Installed, TrustInv, TrustTypeOK
      <3> QED
        BY <2>0, <2>1, <3>1
    <2>2. CASE r.node # n
      <3>1. identity'[r.node] = identity[r.node] /\ period'[r.node] = period[r.node]
        BY <2>0, <2>2 DEF Installed, NewPeriod, TrustInv, TrustTypeOK
      <3> QED
        BY <2>0, <3>1 DEF TrustInv, SecretsFence
    <2> QED
      BY <2>1, <2>2
  <1>4. SecretsCreated'
    BY DEF Installed, TrustInv, TrustTypeOK, Identity, SecretsCreated
  <1> QED
    BY <1>1, <1>2, <1>3, <1>4 DEF TrustInv

\* Whatever withdraws an identity (revoke, quarantine, isolate) fences as well: it is not
\* Active any more and its secret is overwritten.
LEMMA WithdrawnFences ==
    ASSUME TrustInv, NEW n \in Node, NEW s \in {"Revoked", "Quarantined"},
           Withdrawn(n, s), UNCHANGED <<now, keys, issued, receipts>>
    PROVE  TrustInv'
  <1>1. /\ identity'[n].status = s /\ identity'[n].secret = 0
        /\ identity'[n].generation = identity[n].generation
        /\ \A m \in Node \ {n} : identity'[m] = identity[m] /\ period'[m] = period[m]
    BY DEF Withdrawn, NewPeriod, TrustInv, TrustTypeOK, Identity
  <1>2. TrustTypeOK'
    <2>1. identity'[n] \in Identity
      BY DEF Withdrawn, TrustInv, TrustTypeOK, Identity
    <2> QED
      BY <2>1 DEF Withdrawn, NewPeriod, TrustInv, TrustTypeOK
  <1>3. GenerationsFence'
    BY <1>1 DEF TrustInv, GenerationsFence
  <1>4. SecretsFence'
    BY <1>1 DEF TrustInv, SecretsFence, TrustTypeOK
  <1>5. SecretsCreated'
    BY <1>1 DEF TrustInv, SecretsCreated
  <1> QED
    BY <1>2, <1>3, <1>4, <1>5 DEF TrustInv

\* Steps that change neither identities nor what was granted and signed keep the
\* invariant.
LEMMA OthersFence ==
    ASSUME TrustInv, now' \in Nat, UNCHANGED <<keys, identity, period, issued, receipts>>
    PROVE  TrustInv'
  BY DEF TrustInv, TrustTypeOK, GenerationsFence, SecretsFence, SecretsCreated

\* The invariant holds initially.
LEMMA TrustInitially == TrustInit => TrustInv
  BY DEF TrustInit, Unknown, TrustInv, TrustTypeOK, Identity, GenerationsFence,
         SecretsFence, SecretsCreated

\* Every step of the trust plane keeps the invariant.
LEMMA TrustStep == TrustInv /\ [TrustNext]_tvars => TrustInv'
  <1> SUFFICES ASSUME TrustInv, [TrustNext]_tvars
               PROVE  TrustInv'
    OBVIOUS
  <1>t. now \in Nat /\ identity \in [Node -> Identity] /\ period \in [Node -> Nat]
    BY DEF TrustInv, TrustTypeOK
  <1>1. ASSUME NEW n \in Node, approve(n) PROVE TrustInv'
    BY <1>1, InstalledFences DEF approve, Known, Unknown
  <1>2. ASSUME NEW n \in Node, rotate(n) \/ readmit(n) PROVE TrustInv'
    <2>1. identity[n].generation \in Nat
      BY <1>t DEF Identity
    <2>2. NextGeneration(n) \in Nat /\ NextGeneration(n) > identity[n].generation
      BY <2>1 DEF NextGeneration
    <2> QED
      BY <1>2, <2>2, InstalledFences DEF rotate, readmit
  <1>3. ASSUME NEW n \in Node, revoke(n) \/ quarantine(n) \/ isolate(n) PROVE TrustInv'
    BY <1>3, WithdrawnFences DEF revoke, quarantine, isolate, signatures
  <1>4. ASSUME NEW n \in Node, NEW trusted \in BOOLEAN, set_trust_level(n, trusted)
        PROVE  TrustInv'
    <2>1. /\ identity'[n].status = identity[n].status
          /\ identity'[n].secret = identity[n].secret
          /\ identity'[n].generation = identity[n].generation
          /\ identity' \in [Node -> Identity]
          /\ \A m \in Node \ {n} : identity'[m] = identity[m]
      BY <1>4, <1>t DEF set_trust_level, Identity
    <2>2. UNCHANGED <<now, keys, period, issued, receipts>>
      BY <1>4 DEF set_trust_level, signatures
    <2> QED
      BY <2>1, <2>2 DEF TrustInv, TrustTypeOK, GenerationsFence, SecretsFence, SecretsCreated
  <1>5. ASSUME NEW n \in Node, NEW t \in Task, grant(n, t) PROVE TrustInv'
    <2>1. UNCHANGED <<now, identity, keys, receipts, period>>
          /\ issued' = issued \cup {Authorization(n, t)}
      BY <1>5 DEF grant
    <2>2. LET a == Authorization(n, t)
          IN  /\ a.node = n /\ a.generation = identity[n].generation /\ a.period = period[n]
              /\ a.generation \in Nat
      BY <1>t DEF Authorization, Identity
    <2>3. GenerationsFence'
      BY <2>1, <2>2 DEF TrustInv, GenerationsFence
    <2> QED
      BY <2>1, <2>3 DEF TrustInv, TrustTypeOK, SecretsFence, SecretsCreated
  <1>6. ASSUME NEW n \in Node, NEW t \in Task, sign_execution_receipt(n, t) PROVE TrustInv'
    <2>1. UNCHANGED <<now, identity, keys, issued, period>>
      BY <1>6 DEF sign_execution_receipt
    <2>2. identity[n].secret \in 1..keys
      BY <1>6 DEF sign_execution_receipt, Active, TrustInv, SecretsCreated
    <2>3. SecretsFence'
      BY <1>6, <2>1, <2>2 DEF sign_execution_receipt, TrustInv, SecretsFence
    <2> QED
      BY <2>1, <2>3 DEF TrustInv, TrustTypeOK, GenerationsFence, SecretsCreated
  <1>7. ASSUME NEW n \in Node,
               Attest(n) \/ revoke_for_node(n) \/ \E t \in Task : record_output(n, t)
        PROVE  TrustInv'
    BY <1>7, <1>t, OthersFence DEF Attest, record_output, revoke_for_node, signatures
  <1>8. ASSUME NEW t \in Task, revoke_task(t) PROVE TrustInv'
    BY <1>8, <1>t, OthersFence DEF revoke_task, signatures
  <1>9. CASE TrustTick
    BY <1>9, <1>t, OthersFence DEF TrustTick, signatures
  <1>10. CASE UNCHANGED tvars
    BY <1>10, <1>t, OthersFence DEF tvars
  <1> QED
    BY <1>1, <1>2, <1>3, <1>4, <1>5, <1>6, <1>7, <1>8,
       <1>9, <1>10 DEF TrustNext

\* Rotation, revocation, quarantine, isolation and readmission fence, in whatever order
\* they come and however the clock runs: an authorization that validates and a receipt
\* that verifies belong to the identity that the node has now.
THEOREM IdentitiesFenced == TrustSpec => []EarlierIdentityFenced
  <1>1. TrustInv => EarlierIdentityFenced
    BY DEF TrustInv, GenerationsFence, SecretsFence, EarlierIdentityFenced, Validates,
           Verifies, Eligible, Active
  <1> QED
    BY TrustInitially, TrustStep, <1>1, PTL DEF TrustSpec

-----------------------------------------------------------------------------
(* The audit log: damage is refused, so that no acknowledged event is lost.  *)

EventLine ==
    [line : {"event"}, ended : BOOLEAN, kind : Kind, sequence : Nat, previous : Seq(Kind)]

AnyLine == EventLine \cup {Torn, Garbled}

\* A line that no open accepts, whatever the other lines are.
BadLine(i) == file[i].line # "event" \/ file[i].sequence # i

HasBadLine == \E i \in DOMAIN file : BadLine(i)

BeginsWithAcked ==
    Len(acked) <= Len(file) /\ \A i \in DOMAIN acked : HashOf(acked[i]) = HashOf(file[i])

\* The events in memory are the acknowledged ones, numbered from 1; a file that does not begin
\* with them has a line that makes the open refuse it.
AuditInv ==
    /\ running \in BOOLEAN
    /\ file \in Seq(AnyLine)
    /\ events \in Seq(EventLine)
    /\ acked \in Seq(EventLine)
    /\ running => events = acked
    /\ \A i \in DOMAIN acked : acked[i].sequence = i
    /\ HasBadLine \/ BeginsWithAcked

\* A write at the end of the file adds a line or turns the last one, whose newline is missing,
\* into a bad one (Written).
LEMMA WrittenCases ==
    ASSUME file \in Seq(AnyLine), NEW l \in AnyLine, file' = Written(l)
    PROVE  /\ file' \in Seq(AnyLine)
           /\ \/ file' = Append(file, l)
              \/ HasBadLine'
<1>1. CASE file # <<>> /\ ~Last(file).ended
  <2> DEFINE x == IF l.ended THEN Garbled ELSE Torn
  <2>1. file' = Append(Front(file), x)
    BY <1>1 DEF Written
  <2>2. Len(file) \in Nat \ {0}
    BY <1>1
  <2>3. Front(file) \in Seq(AnyLine) /\ Len(Front(file)) = Len(file) - 1
    <3> DEFINE m == Len(file) - 1
    <3>1. m \in Nat /\ \A i \in 1..m : file[i] \in AnyLine
      BY <2>2
    <3> HIDE DEF m
    <3>2. SubSeq(file, 1, m) \in Seq(AnyLine) /\ Len(SubSeq(file, 1, m)) = IF 1 <= m THEN m - 1 + 1 ELSE 0
      BY <3>1, SubSeqProperties
    <3>3. Len(SubSeq(file, 1, m)) = m
      BY <3>1, <3>2
    <3> QED BY <3>2, <3>3 DEF Front, m
  <2>4. x \in AnyLine /\ x.line # "event"
    BY DEF Torn, Garbled, AnyLine
  <2> HIDE DEF x
  <2>5. file' \in Seq(AnyLine) /\ Len(file) \in DOMAIN file' /\ file'[Len(file)] = x
    BY <2>1, <2>2, <2>3, <2>4
  <2> QED BY <2>4, <2>5 DEF BadLine, HasBadLine
<1>2. CASE ~(file # <<>> /\ ~Last(file).ended)
  BY <1>2 DEF Written
<1> QED BY <1>1, <1>2

\* A write at the end of the file mends no bad line and loses no line of a file without one.
LEMMA WrittenKeeps ==
    ASSUME file \in Seq(AnyLine), NEW l \in AnyLine, file' = Written(l), acked \in Seq(EventLine), acked' = acked,
           HasBadLine \/ BeginsWithAcked
    PROVE  file' \in Seq(AnyLine) /\ (HasBadLine' \/ BeginsWithAcked')
<1>1. file' \in Seq(AnyLine) /\ (file' = Append(file, l) \/ HasBadLine')
  BY WrittenCases
<1>2. CASE file' = Append(file, l)
  <2>1. Len(file') = Len(file) + 1 /\ Len(file) \in Nat /\ \A i \in DOMAIN file : i \in DOMAIN file' /\ file'[i] = file[i]
    BY <1>2
  <2>2. HasBadLine => HasBadLine'
    BY <2>1 DEF HasBadLine, BadLine
  <2>3. BeginsWithAcked => BeginsWithAcked'
    <3> SUFFICES ASSUME BeginsWithAcked PROVE BeginsWithAcked'
      OBVIOUS
    <3>1. \A i \in DOMAIN acked : i \in DOMAIN file /\ HashOf(acked[i]) = HashOf(file[i])
      BY DEF BeginsWithAcked
    <3>2. ASSUME NEW i \in DOMAIN acked PROVE HashOf(acked[i]) = HashOf(file'[i])
      <4>1. file'[i] = file[i]
        BY <3>1, <2>1
      <4> QED BY <4>1, <3>1
    <3>3. Len(acked) <= Len(file')
      BY <2>1 DEF BeginsWithAcked
    <3> QED BY <3>2, <3>3 DEF BeginsWithAcked, HashOf
  <2> QED BY <1>1, <2>2, <2>3
<1> QED BY <1>1, <1>2

\* The event that append makes follows the last one in memory.
LEMMA EventNext ==
    ASSUME AuditInv, running, NEW k \in Kind
    PROVE  Event(k) \in EventLine /\ Event(k).sequence = Len(acked) + 1
<1> DEFINE n == IF events = <<>> THEN 1 ELSE Last(events).sequence + 1
           p == IF events = <<>> THEN <<>> ELSE HashOf(Last(events))
<1>1. events = acked /\ events \in Seq(EventLine) /\ Len(events) \in Nat
  BY DEF AuditInv
<1>2. n = Len(acked) + 1
  <2>1. CASE events = <<>>
    BY <2>1, <1>1
  <2>2. CASE events # <<>>
    <3>1. Len(acked) \in DOMAIN acked
      BY <2>2, <1>1
    <3> QED BY <2>2, <1>1, <3>1 DEF AuditInv, Last
  <2> QED BY <2>1, <2>2
<1>3. p \in Seq(Kind)
  <2>1. CASE events = <<>>
    BY <2>1
  <2>2. CASE events # <<>>
    <3>1. Last(events) \in EventLine
      BY <2>2, <1>1 DEF Last
    <3>2. Last(events).previous \in Seq(Kind) /\ Last(events).kind \in Kind
      BY <3>1 DEF EventLine
    <3> QED BY <2>2, <3>2 DEF HashOf
  <2> QED BY <2>1, <2>2
<1>4. Event(k) = [line |-> "event", ended |-> TRUE, kind |-> k, sequence |-> n, previous |-> p]
  BY DEF Event
<1> HIDE DEF n, p
<1>5. n \in Nat
  BY <1>1, <1>2
<1> QED BY <1>2, <1>3, <1>4, <1>5 DEF EventLine

\* Every step of the log keeps the invariant: append, the append that fails, the tick, the crash
\* and the open.
LEMMA AuditStep == AuditInv /\ [AuditNext]_lvars => AuditInv'
<1> SUFFICES ASSUME AuditInv, [AuditNext]_lvars PROVE AuditInv'
  OBVIOUS
<1>a. /\ file \in Seq(AnyLine)
      /\ events \in Seq(EventLine)
      /\ acked \in Seq(EventLine)
      /\ HasBadLine \/ BeginsWithAcked
      /\ \A i \in DOMAIN acked : acked[i].sequence = i
  BY DEF AuditInv
<1>1. ASSUME NEW k \in Kind, append(k) PROVE AuditInv'
  <2> DEFINE e == Event(k)
  <2>1. running /\ file' = Written(e) /\ events' = Append(events, e) /\ acked' = Append(acked, e) /\ running' = running
    BY <1>1 DEF append, CanAppend
  <2>2. e \in EventLine /\ e.sequence = Len(acked) + 1
    BY <2>1, EventNext
  <2> HIDE DEF e
  <2>3. e \in AnyLine
    BY <2>2 DEF AnyLine
  <2>4. file' \in Seq(AnyLine) /\ (file' = Append(file, e) \/ HasBadLine')
    BY <2>1, <2>3, <1>a, WrittenCases
  <2>5. events' \in Seq(EventLine) /\ acked' \in Seq(EventLine) /\ events' = acked' /\ running' \in BOOLEAN
    BY <2>1, <2>2, <1>a DEF AuditInv
  <2>6. \A i \in DOMAIN acked' : acked'[i].sequence = i
    <3> TAKE i \in DOMAIN acked'
    <3>1. CASE i = Len(acked) + 1
      BY <3>1, <2>1, <2>2, <1>a
    <3>2. CASE i # Len(acked) + 1
      <4>1. i \in DOMAIN acked /\ acked'[i] = acked[i]
        BY <3>2, <2>1, <2>2, <1>a
      <4> QED BY <4>1, <1>a
    <3> QED BY <3>1, <3>2
  <2>7. HasBadLine' \/ BeginsWithAcked'
    <3> SUFFICES ASSUME file' = Append(file, e) PROVE HasBadLine' \/ BeginsWithAcked'
      BY <2>4
    <3>1. /\ Len(file') = Len(file) + 1 /\ Len(file) \in Nat
          /\ Len(file) + 1 \in DOMAIN file' /\ file'[Len(file) + 1] = e
          /\ \A i \in DOMAIN file : i \in DOMAIN file' /\ file'[i] = file[i]
      BY <2>3, <1>a
    <3>2. CASE HasBadLine
      BY <3>1, <3>2 DEF HasBadLine, BadLine
    <3>3. CASE BeginsWithAcked /\ Len(file) # Len(acked)
      <4>1. file'[Len(file) + 1].sequence # Len(file) + 1
        BY <3>1, <3>3, <2>2, <1>a
      <4> QED BY <4>1, <3>1 DEF HasBadLine, BadLine
    <3>4. CASE BeginsWithAcked /\ Len(file) = Len(acked)
      <4>1. ASSUME NEW i \in DOMAIN acked' PROVE HashOf(acked'[i]) = HashOf(file'[i])
        <5>1. CASE i = Len(acked) + 1
          BY <5>1, <3>1, <3>4, <2>1, <2>2, <1>a
        <5>2. CASE i # Len(acked) + 1
          <6>1. i \in DOMAIN acked /\ acked'[i] = acked[i] /\ i \in DOMAIN file
            BY <5>2, <2>1, <2>2, <1>a, <3>4
          <6>2. file'[i] = file[i] /\ HashOf(acked[i]) = HashOf(file[i])
            BY <6>1, <3>1, <3>4 DEF BeginsWithAcked
          <6> QED BY <6>1, <6>2
        <5> QED BY <5>1, <5>2
      <4>2. Len(acked') <= Len(file')
        BY <3>1, <3>4, <2>1, <2>2, <1>a
      <4> QED BY <4>1, <4>2 DEF BeginsWithAcked, HashOf
    <3> QED BY <3>2, <3>3, <3>4, <1>a
  <2> QED BY <2>4, <2>5, <2>6, <2>7 DEF AuditInv
<1>2. ASSUME NEW k \in Kind, append_fails(k) PROVE AuditInv'
  <2>1. /\ running
        /\ file' \in {file, Written(Torn), Written(Unended(Event(k))), Written(Event(k))}
        /\ UNCHANGED <<running, events, acked>>
    BY <1>2 DEF append_fails, CanAppend
  <2>2. Event(k) \in EventLine
    BY <2>1, EventNext
  <2>3. Unended(Event(k)) \in EventLine
    <3> DEFINE e == Event(k)
    <3>1. e \in EventLine
      BY <2>2
    <3> HIDE DEF e
    <3>2. [e EXCEPT !.ended = FALSE] \in EventLine
      BY <3>1 DEF EventLine
    <3> QED BY <3>2 DEF Unended, e
  <2>4. Torn \in AnyLine /\ Unended(Event(k)) \in AnyLine /\ Event(k) \in AnyLine
    BY <2>2, <2>3 DEF AnyLine
  <2>5. file' \in Seq(AnyLine) /\ (HasBadLine' \/ BeginsWithAcked')
    <3>1. CASE file' = file
      BY <3>1, <2>1, <1>a DEF HasBadLine, BadLine, BeginsWithAcked, HashOf
    <3>2. CASE file' = Written(Torn)
      BY <3>2, <2>1, <2>4, <1>a, WrittenKeeps
    <3>3. CASE file' = Written(Unended(Event(k)))
      BY <3>3, <2>1, <2>4, <1>a, WrittenKeeps
    <3>4. CASE file' = Written(Event(k))
      BY <3>4, <2>1, <2>4, <1>a, WrittenKeeps
    <3> QED BY <2>1, <3>1, <3>2, <3>3, <3>4
  <2> QED BY <2>1, <2>5, <1>a DEF AuditInv
<1>3. CASE AuditTick
  BY <1>3 DEF AuditTick, AuditInv, HasBadLine, BadLine, BeginsWithAcked, HashOf
<1>4. CASE AuditCrash
  <2>1. running' = FALSE /\ events' = <<>> /\ UNCHANGED <<file, acked>>
    BY <1>4 DEF AuditCrash
  <2>2. HasBadLine' \/ BeginsWithAcked'
    BY <2>1, <1>a DEF HasBadLine, BadLine, BeginsWithAcked, HashOf
  <2>3. events' \in Seq(EventLine)
    BY <2>1
  <2> QED BY <2>1, <2>2, <2>3, <1>a DEF AuditInv
<1>5. CASE open
  <2>1. running' = TRUE /\ events' = file /\ acked' = file /\ file' = file /\ Opens
    BY <1>5 DEF open
  <2>2. \A i \in DOMAIN file : file[i].line = "event" /\ file[i].sequence = i
    BY <2>1 DEF Opens, Follows
  <2>3. ASSUME NEW i \in DOMAIN file PROVE file[i] \in EventLine
    <3>1. file[i] \in AnyLine
      BY <1>a
    <3> QED BY <3>1, <2>2 DEF AnyLine, Torn, Garbled
  <2>4. file \in Seq(EventLine)
    BY <1>a, <2>3
  <2>5. BeginsWithAcked'
    BY <2>1, <1>a DEF BeginsWithAcked, HashOf
  <2> QED BY <2>1, <2>2, <2>4, <2>5, <1>a DEF AuditInv
<1>6. CASE UNCHANGED lvars
  BY <1>6 DEF lvars, AuditInv, HasBadLine, BadLine, BeginsWithAcked, HashOf
<1> QED BY <1>1, <1>2, <1>3, <1>4, <1>5, <1>6 DEF AuditNext

\* A log that opens begins with every event whose append returned Ok, whatever failed appends left
\* in the file, over any number of crashes (append, open and validate_next_event): AckedKept in
\* every behaviour, for any kinds of events and any limits.
THEOREM AcknowledgedEventsKept == AuditSpec => []AckedKept
<1>1. AuditInit => AuditInv
  BY DEF AuditInit, AuditInv, HasBadLine, BadLine, BeginsWithAcked
<1>2. AuditInv => AckedKept
  BY DEF AuditInv, AckedKept, HasBadLine, BadLine, BeginsWithAcked, Opens, Follows
<1> QED BY <1>1, <1>2, AuditStep, PTL DEF AuditSpec

-----------------------------------------------------------------------------
(* The Merkle proofs of the audit log's segments.                            *)

\* A function on 1..n is a sequence of its values.
LEMMA ListIsSeq ==
    ASSUME NEW n \in Nat, NEW f, f = [i \in 1..n |-> f[i]]
    PROVE  f \in Seq({f[i] : i \in 1..n}) /\ Len(f) = n /\ DOMAIN f = 1..n
  OBVIOUS

\* The recursions of the three loops: merkle_root, inclusion_proof and verify_inclusion.
LevelStep(leaves, g, n) == IF n = 0 THEN leaves ELSE NextLevel(g[n - 1])
CurrentStep(i, g, n) == IF n = 0 THEN i ELSE (g[n - 1] + 1) \div 2
Joined(h, s) == IF s.left THEN <<s.hash, h>> ELSE <<h, s.hash>>
HashStep(leaf, siblings, g, n) == IF n = 0 THEN leaf ELSE Joined(g[n - 1], siblings[n])

\* merkle_root's loop has a level after any number of rounds.
LEMMA LevelsExist ==
    ASSUME NEW leaves, NEW m \in Nat
    PROVE  \E g : g = [n \in 0..m |-> LevelStep(leaves, g, n)]
  <1> DEFINE K == {n \in Nat : \E g : g = [k \in 0..n |-> LevelStep(leaves, g, k)]}
  <1>1. 0 \in K
    <2> DEFINE g == [k \in 0..0 |-> leaves]
    <2>1. g = [k \in 0..0 |-> LevelStep(leaves, g, k)]
      BY DEF LevelStep
    <2> HIDE DEF g
    <2> QED
      BY <2>1
  <1>2. ASSUME NEW n \in K PROVE n + 1 \in K
    <2>1. PICK g : g = [k \in 0..n |-> LevelStep(leaves, g, k)]
      OBVIOUS
    <2> DEFINE h == [k \in 0..(n + 1) |-> IF k \in 0..n THEN g[k] ELSE LevelStep(leaves, g, k)]
    <2>2. ASSUME NEW k \in 0..(n + 1) PROVE h[k] = LevelStep(leaves, h, k)
      <3>1. h[k] = LevelStep(leaves, g, k)
        BY <2>1
      <3>2. k # 0 => h[k - 1] = g[k - 1]
        OBVIOUS
      <3> HIDE DEF h
      <3> QED
        BY <3>1, <3>2 DEF LevelStep
    <2>3. h = [k \in 0..(n + 1) |-> LevelStep(leaves, h, k)]
      BY <2>2
    <2> HIDE DEF h
    <2> QED
      BY <2>3
  <1>3. K = Nat
    <2> HIDE DEF K
    <2>1. K \in SUBSET Nat
      BY DEF K
    <2> QED
      BY <1>1, <1>2, <2>1, InductiveSet
  <1> QED
    BY <1>3

\* inclusion_proof's loop has a position after any number of rounds.
LEMMA CurrentsExist ==
    ASSUME NEW i, NEW m \in Nat
    PROVE  \E g : g = [n \in 0..m |-> CurrentStep(i, g, n)]
  <1> DEFINE K == {n \in Nat : \E g : g = [k \in 0..n |-> CurrentStep(i, g, k)]}
  <1>1. 0 \in K
    <2> DEFINE g == [k \in 0..0 |-> i]
    <2>1. g = [k \in 0..0 |-> CurrentStep(i, g, k)]
      BY DEF CurrentStep
    <2> HIDE DEF g
    <2> QED
      BY <2>1
  <1>2. ASSUME NEW n \in K PROVE n + 1 \in K
    <2>1. PICK g : g = [k \in 0..n |-> CurrentStep(i, g, k)]
      OBVIOUS
    <2> DEFINE h == [k \in 0..(n + 1) |-> IF k \in 0..n THEN g[k] ELSE CurrentStep(i, g, k)]
    <2>2. ASSUME NEW k \in 0..(n + 1) PROVE h[k] = CurrentStep(i, h, k)
      <3>1. h[k] = CurrentStep(i, g, k)
        BY <2>1
      <3>2. k # 0 => h[k - 1] = g[k - 1]
        OBVIOUS
      <3> HIDE DEF h
      <3> QED
        BY <3>1, <3>2 DEF CurrentStep
    <2>3. h = [k \in 0..(n + 1) |-> CurrentStep(i, h, k)]
      BY <2>2
    <2> HIDE DEF h
    <2> QED
      BY <2>3
  <1>3. K = Nat
    <2> HIDE DEF K
    <2>1. K \in SUBSET Nat
      BY DEF K
    <2> QED
      BY <1>1, <1>2, <2>1, InductiveSet
  <1> QED
    BY <1>3

\* verify_inclusion's fold has a hash after any number of siblings.
LEMMA HashesExist ==
    ASSUME NEW leaf, NEW siblings, NEW m \in Nat
    PROVE  \E g : g = [n \in 0..m |-> HashStep(leaf, siblings, g, n)]
  <1> DEFINE K == {n \in Nat : \E g : g = [k \in 0..n |-> HashStep(leaf, siblings, g, k)]}
  <1>1. 0 \in K
    <2> DEFINE g == [k \in 0..0 |-> leaf]
    <2>1. g = [k \in 0..0 |-> HashStep(leaf, siblings, g, k)]
      BY DEF HashStep
    <2> HIDE DEF g
    <2> QED
      BY <2>1
  <1>2. ASSUME NEW n \in K PROVE n + 1 \in K
    <2>1. PICK g : g = [k \in 0..n |-> HashStep(leaf, siblings, g, k)]
      OBVIOUS
    <2> DEFINE h == [k \in 0..(n + 1) |-> IF k \in 0..n THEN g[k] ELSE HashStep(leaf, siblings, g, k)]
    <2>2. ASSUME NEW k \in 0..(n + 1) PROVE h[k] = HashStep(leaf, siblings, h, k)
      <3>1. h[k] = HashStep(leaf, siblings, g, k)
        BY <2>1
      <3>2. k # 0 => h[k - 1] = g[k - 1]
        OBVIOUS
      <3> HIDE DEF h
      <3> QED
        BY <3>1, <3>2 DEF HashStep
    <2>3. h = [k \in 0..(n + 1) |-> HashStep(leaf, siblings, h, k)]
      BY <2>2
    <2> HIDE DEF h
    <2> QED
      BY <2>3
  <1>3. K = Nat
    <2> HIDE DEF K
    <2>1. K \in SUBSET Nat
      BY DEF K
    <2> QED
      BY <1>1, <1>2, <2>1, InductiveSet
  <1> QED
    BY <1>3

\* merkle_root pairs the level once a round.
LEMMA LevelsUnfold ==
    ASSUME NEW leaves, Len(leaves) \in Nat
    PROVE  /\ Levels(leaves)[0] = leaves
           /\ \A n \in 1..Len(leaves) : Levels(leaves)[n] = NextLevel(Levels(leaves)[n - 1])
  <1>1. PICK g : g = Levels(leaves)
    OBVIOUS
  <1>2. g = CHOOSE h : h = [n \in 0..Len(leaves) |-> LevelStep(leaves, h, n)]
    BY <1>1 DEF Levels, LevelStep
  <1>3. g = [n \in 0..Len(leaves) |-> LevelStep(leaves, g, n)]
    BY <1>2, LevelsExist
  <1>4. \A n \in 0..Len(leaves) : g[n] = LevelStep(leaves, g, n)
    BY <1>3
  <1> QED
    BY <1>1, <1>4 DEF LevelStep

\* inclusion_proof halves the position once a round.
LEMMA CurrentsUnfold ==
    ASSUME NEW leaves, Len(leaves) \in Nat, NEW i
    PROVE  /\ Currents(leaves, i)[0] = i
           /\ \A n \in 1..Len(leaves) :
                 Currents(leaves, i)[n] = (Currents(leaves, i)[n - 1] + 1) \div 2
  <1>1. PICK g : g = Currents(leaves, i)
    OBVIOUS
  <1>2. g = CHOOSE h : h = [n \in 0..Len(leaves) |-> CurrentStep(i, h, n)]
    BY <1>1 DEF Currents, CurrentStep
  <1>3. g = [n \in 0..Len(leaves) |-> CurrentStep(i, g, n)]
    BY <1>2, CurrentsExist
  <1>4. \A n \in 0..Len(leaves) : g[n] = CurrentStep(i, g, n)
    BY <1>3
  <1> QED
    BY <1>1, <1>4 DEF CurrentStep

\* verify_inclusion joins one sibling after the other.
LEMMA HashesUnfold ==
    ASSUME NEW leaf, NEW siblings, Len(siblings) \in Nat
    PROVE  /\ Hashes(leaf, siblings)[0] = leaf
           /\ \A n \in 1..Len(siblings) :
                 Hashes(leaf, siblings)[n] = Joined(Hashes(leaf, siblings)[n - 1], siblings[n])
  <1>1. PICK g : g = Hashes(leaf, siblings)
    OBVIOUS
  <1>2. g = CHOOSE h : h = [n \in 0..Len(siblings) |-> HashStep(leaf, siblings, h, n)]
    BY <1>1 DEF Hashes, HashStep, Joined
  <1>3. g = [n \in 0..Len(siblings) |-> HashStep(leaf, siblings, g, n)]
    BY <1>2, HashesExist
  <1>4. \A n \in 0..Len(siblings) : g[n] = HashStep(leaf, siblings, g, n)
    BY <1>3
  <1> QED
    BY <1>1, <1>4 DEF HashStep

\* A round leaves half of the level, rounded up, each of it joined from its two (next_merkle_level).
LEMMA NextLevelFacts ==
    ASSUME NEW S, NEW level \in Seq(S), level # <<>>
    PROVE  /\ NextLevel(level) \in Seq(S \X S) /\ NextLevel(level) # <<>>
           /\ Len(NextLevel(level)) = (Len(level) + 1) \div 2
           /\ \A i \in 1..((Len(level) + 1) \div 2) :
                 NextLevel(level)[i]
                   = <<level[2 * i - 1], IF 2 * i <= Len(level) THEN level[2 * i] ELSE level[2 * i - 1]>>
  <1> DEFINE n == (Len(level) + 1) \div 2
  <1>1. n \in Nat /\ n >= 1 /\ \A i \in 1..n : 2 * i - 1 \in 1..Len(level)
    OBVIOUS
  <1>2. \A i \in 1..n : level[2 * i - 1] \in S /\ (2 * i <= Len(level) => level[2 * i] \in S)
    BY <1>1
  <1>3. NextLevel(level) = [i \in 1..n |-> NextLevel(level)[i]]
    BY DEF NextLevel
  <1>4. \A i \in 1..n :
           NextLevel(level)[i]
             = <<level[2 * i - 1], IF 2 * i <= Len(level) THEN level[2 * i] ELSE level[2 * i - 1]>>
    BY DEF NextLevel
  <1> HIDE DEF n
  <1>5. Len(NextLevel(level)) = n /\ DOMAIN NextLevel(level) = 1..n
    BY <1>1, <1>3, ListIsSeq
  <1>6. ASSUME NEW i \in 1..n PROVE NextLevel(level)[i] \in S \X S
    <2>1. PICK x \in S : x = level[2 * i - 1]
      BY <1>2
    <2>2. PICK y \in S : y = IF 2 * i <= Len(level) THEN level[2 * i] ELSE level[2 * i - 1]
      BY <1>2
    <2>3. NextLevel(level)[i] = <<x, y>>
      BY <1>4, <2>1, <2>2
    <2> QED
      BY <2>3
  <1>7. NextLevel(level) \in Seq(S \X S)
    BY <1>1, <1>3, <1>6
  <1> QED
    BY <1>1, <1>4, <1>5, <1>7 DEF n

\* Every level is a sequence that is not empty, and shrinks until one hash is left.
LEMMA LevelFacts ==
    ASSUME NEW S, NEW leaves \in Seq(S), leaves # <<>>
    PROVE  \A n \in 0..Len(leaves) :
              /\ \E T : Levels(leaves)[n] \in Seq(T)
              /\ Levels(leaves)[n] # <<>>
              /\ n < Len(leaves) => Len(Levels(leaves)[n]) <= Len(leaves) - n
  <1>1. Len(leaves) \in Nat \ {0}
    OBVIOUS
  <1>2. PICK g : g = Levels(leaves)
    OBVIOUS
  <1>3. g[0] = leaves /\ \A n \in 1..Len(leaves) : g[n] = NextLevel(g[n - 1])
    BY <1>1, <1>2, LevelsUnfold
  <1> DEFINE Fact(n) == /\ \E T : g[n] \in Seq(T)
                        /\ g[n] # <<>>
                        /\ n < Len(leaves) => Len(g[n]) <= Len(leaves) - n
             K == {n \in Nat : n <= Len(leaves) => Fact(n)}
  <1>4. 0 \in K
    BY <1>1, <1>3
  <1>5. ASSUME NEW n \in K PROVE n + 1 \in K
    <2> SUFFICES ASSUME n + 1 <= Len(leaves) PROVE Fact(n + 1)
      OBVIOUS
    <2>1. Fact(n) /\ n < Len(leaves) /\ n + 1 \in 1..Len(leaves) /\ (n + 1) - 1 = n
      BY <1>1
    <2>2. PICK T : g[n] \in Seq(T)
      BY <2>1
    <2>3. g[n + 1] = NextLevel(g[n])
      BY <1>3, <2>1
    <2>4. /\ g[n + 1] \in Seq(T \X T) /\ g[n + 1] # <<>>
          /\ Len(g[n + 1]) = (Len(g[n]) + 1) \div 2
      <3>1. PICK level : level = g[n]
        OBVIOUS
      <3>2. level \in Seq(T) /\ level # <<>> /\ g[n + 1] = NextLevel(level)
        BY <2>1, <2>2, <2>3, <3>1
      <3>3. /\ NextLevel(level) \in Seq(T \X T) /\ NextLevel(level) # <<>>
            /\ Len(NextLevel(level)) = (Len(level) + 1) \div 2
        BY ONLY <3>2, NextLevelFacts
      <3> QED
        BY <3>1, <3>2, <3>3
    <2>5. n + 1 < Len(leaves) => Len(g[n + 1]) <= Len(leaves) - (n + 1)
      <3>1. Len(g[n]) \in Nat /\ Len(g[n]) <= Len(leaves) - n
        BY <2>1, <2>2
      <3>2. PICK a \in Nat : a = Len(g[n])
        BY <3>1
      <3>3. PICK l \in Nat : l = Len(leaves)
        BY <1>1
      <3>4. n \in Nat /\ a <= l - n
        BY <3>1, <3>2, <3>3
      <3>5. n + 1 < l => (a + 1) \div 2 <= l - (n + 1)
        BY <3>4
      <3> QED
        BY <2>4, <3>2, <3>3, <3>5
    <2> QED
      BY <2>4, <2>5
  <1>6. K = Nat
    <2> HIDE DEF K
    <2>1. K \in SUBSET Nat
      BY DEF K
    <2> QED
      BY <1>4, <1>5, <2>1, InductiveSet
  <1>7. \A n \in 0..Len(leaves) : Fact(n)
    BY <1>6
  <1> QED
    BY <1>2, <1>7

\* merkle_root's loop ends: after Rounds one hash is left, and before it there were more.
LEMMA RoundsFacts ==
    ASSUME NEW S, NEW leaves \in Seq(S), leaves # <<>>
    PROVE  /\ Rounds(leaves) \in 0..Len(leaves)
           /\ Len(Levels(leaves)[Rounds(leaves)]) = 1
           /\ \A m \in 0..(Rounds(leaves) - 1) : Len(Levels(leaves)[m]) # 1
  <1>1. Len(leaves) \in Nat \ {0}
    OBVIOUS
  <1>2. PICK g : g = Levels(leaves)
    OBVIOUS
  <1> DEFINE One == {n \in Nat : n <= Len(leaves) /\ Len(g[n]) = 1}
  <1>3. Len(leaves) - 1 \in One
    <2>1. Len(leaves) - 1 \in 0..Len(leaves) /\ Len(leaves) - 1 < Len(leaves)
      BY <1>1
    <2>2. /\ \E T : g[Len(leaves) - 1] \in Seq(T)
          /\ g[Len(leaves) - 1] # <<>>
          /\ Len(g[Len(leaves) - 1]) <= Len(leaves) - (Len(leaves) - 1)
      BY <1>2, <2>1, LevelFacts
    <2>3. Len(g[Len(leaves) - 1]) \in Nat \ {0}
      BY <2>2
    <2>4. Len(leaves) - (Len(leaves) - 1) = 1
      BY <1>1
    <2>5. Len(g[Len(leaves) - 1]) = 1
      <3>1. PICK a \in Nat \ {0} : a = Len(g[Len(leaves) - 1])
        BY <2>3
      <3>2. a <= 1
        BY <2>2, <2>4, <3>1
      <3>3. a = 1
        BY <3>2
      <3> QED
        BY ONLY <3>1, <3>3
    <2> QED
      BY <1>1, <2>1, <2>5
  <1>4. PICK n \in One : \A m \in One : n <= m
    <2> HIDE DEF One
    <2>1. One \in SUBSET Nat /\ One # {}
      BY <1>3 DEF One
    <2> QED
      BY <2>1, LeastNumber
  <1>5. n \in 0..Len(leaves) /\ Len(g[n]) = 1 /\ \A m \in 0..(n - 1) : Len(g[m]) # 1
    BY <1>1, <1>4
  <1>6. Rounds(leaves) = CHOOSE k \in 0..Len(leaves) :
                            Len(g[k]) = 1 /\ \A m \in 0..(k - 1) : Len(g[m]) # 1
    BY <1>2 DEF Rounds
  <1> QED
    BY <1>2, <1>5, <1>6

\* The siblings of a proof, one a round.
LEMMA ProofFacts ==
    ASSUME NEW S, NEW leaves \in Seq(S), leaves # <<>>, NEW i
    PROVE  /\ Len(InclusionProof(leaves, i)) = Rounds(leaves)
           /\ \A n \in 1..Rounds(leaves) :
                 \A level, c : level = Levels(leaves)[n - 1] /\ c = Currents(leaves, i)[n - 1] =>
                    InclusionProof(leaves, i)[n]
                      = [hash |-> level[Sibling(Len(level), c)], left |-> Sibling(Len(level), c) < c]
  <1>1. Rounds(leaves) \in Nat
    BY RoundsFacts
  <1>2. PICK p : p = InclusionProof(leaves, i)
    OBVIOUS
  <1>3. p = [n \in 1..Rounds(leaves) |-> p[n]]
    BY <1>2 DEF InclusionProof
  <1>4. \A n \in 1..Rounds(leaves) :
           \A level, c : level = Levels(leaves)[n - 1] /\ c = Currents(leaves, i)[n - 1] =>
              p[n] = [hash |-> level[Sibling(Len(level), c)], left |-> Sibling(Len(level), c) < c]
    BY <1>2 DEF InclusionProof
  <1>5. Len(p) = Rounds(leaves)
    BY <1>1, <1>3, ListIsSeq
  <1> QED
    BY <1>2, <1>4, <1>5

\* Joining a hash of a level with its sibling gives the hash of the next level that is over both,
\* the last of an odd number included.
LEMMA JoinedIsNext ==
    ASSUME NEW S, NEW level \in Seq(S), level # <<>>, NEW c \in 1..Len(level), NEW s,
           s = [hash |-> level[Sibling(Len(level), c)], left |-> Sibling(Len(level), c) < c]
    PROVE  /\ (c + 1) \div 2 \in 1..Len(NextLevel(level))
           /\ Joined(level[c], s) = NextLevel(level)[(c + 1) \div 2]
  <1> DEFINE d == (c + 1) \div 2
  <1>1. Len(level) \in Nat /\ c \in Nat /\ c > 0 /\ c <= Len(level)
    OBVIOUS
  <1>2. d \in 1..((Len(level) + 1) \div 2)
    BY <1>1
  <1>3. d \in 1..Len(NextLevel(level))
    BY <1>2, NextLevelFacts
  <1>4. NextLevel(level)[d]
          = <<level[2 * d - 1], IF 2 * d <= Len(level) THEN level[2 * d] ELSE level[2 * d - 1]>>
    BY <1>2, NextLevelFacts
  <1>5. s.hash = level[Sibling(Len(level), c)] /\ s.left = (Sibling(Len(level), c) < c)
    OBVIOUS
  <1>6. CASE c % 2 = 1
    <2>1. 2 * d - 1 = c
      BY <1>1, <1>6
    <2>2. Sibling(Len(level), c) = IF c + 1 <= Len(level) THEN c + 1 ELSE Len(level)
      BY <1>6 DEF Sibling
    <2>3. 2 * d = c + 1 /\ d \in Nat
      BY <1>1, <1>2, <2>1
    <2> HIDE DEF d
    <2>4. ~(Sibling(Len(level), c) < c)
      BY <1>1, <2>2
    <2>5. Joined(level[c], s) = <<level[c], level[Sibling(Len(level), c)]>>
      BY <1>5, <2>4 DEF Joined
    <2>6. ~(c + 1 <= Len(level)) => Len(level) = c
      BY <1>1
    <2>7. level[Sibling(Len(level), c)] = IF 2 * d <= Len(level) THEN level[2 * d] ELSE level[2 * d - 1]
      BY <2>1, <2>2, <2>3, <2>6
    <2>8. Joined(level[c], s) = NextLevel(level)[d]
      BY <1>4, <2>1, <2>5, <2>7
    <2> QED
      BY <1>3, <2>8 DEF d
  <1>7. CASE c % 2 # 1
    <2>1. 2 * d = c
      BY <1>1, <1>7
    <2>2. Sibling(Len(level), c) = c - 1
      BY <1>7 DEF Sibling
    <2> HIDE DEF d
    <2>3. Sibling(Len(level), c) < c
      BY <1>1, <2>2
    <2>4. Joined(level[c], s) = <<level[c - 1], level[c]>>
      BY <1>5, <2>2, <2>3 DEF Joined
    <2>5. Joined(level[c], s) = NextLevel(level)[d]
      BY <1>1, <1>4, <2>1, <2>4
    <2> QED
      BY <1>3, <2>5 DEF d
  <1> QED
    BY <1>6, <1>7

\* Verifying a leaf with its proof goes up the levels along the leaf's positions.
LEMMA ProofClimbs ==
    ASSUME NEW S, NEW leaves \in Seq(S), leaves # <<>>, NEW i \in 1..Len(leaves)
    PROVE  \A n \in 0..Rounds(leaves) :
              /\ Currents(leaves, i)[n] \in 1..Len(Levels(leaves)[n])
              /\ Hashes(leaves[i], InclusionProof(leaves, i))[n]
                   = Levels(leaves)[n][Currents(leaves, i)[n]]
  <1>1. Len(leaves) \in Nat \ {0}
    OBVIOUS
  <1>2. PICK g : g = Levels(leaves)
    OBVIOUS
  <1>3. PICK c : c = Currents(leaves, i)
    OBVIOUS
  <1>4. PICK p : p = InclusionProof(leaves, i)
    OBVIOUS
  <1>5. PICK h : h = Hashes(leaves[i], p)
    OBVIOUS
  <1>6. PICK r : r = Rounds(leaves)
    OBVIOUS
  <1>7. r \in Nat /\ r <= Len(leaves)
    BY <1>1, <1>6, RoundsFacts
  <1>8. /\ g[0] = leaves /\ \A n \in 1..Len(leaves) : g[n] = NextLevel(g[n - 1])
        /\ c[0] = i /\ \A n \in 1..Len(leaves) : c[n] = (c[n - 1] + 1) \div 2
    <2>1. Len(leaves) \in Nat
      BY <1>1
    <2>2. g[0] = leaves /\ \A n \in 1..Len(leaves) : g[n] = NextLevel(g[n - 1])
      BY ONLY <1>2, <2>1, LevelsUnfold
    <2>3. c[0] = i /\ \A n \in 1..Len(leaves) : c[n] = (c[n - 1] + 1) \div 2
      BY ONLY <1>3, <2>1, CurrentsUnfold
    <2> QED
      BY <2>2, <2>3
  <1>9. /\ Len(p) = r
        /\ \A n \in 1..r : \A level, d : level = g[n - 1] /\ d = c[n - 1] =>
              p[n] = [hash |-> level[Sibling(Len(level), d)], left |-> Sibling(Len(level), d) < d]
    BY <1>2, <1>3, <1>4, <1>6, ProofFacts
  <1>10. h[0] = leaves[i] /\ \A n \in 1..r : h[n] = Joined(h[n - 1], p[n])
    <2>1. Len(p) \in Nat /\ Len(p) = r
      BY <1>7, <1>9
    <2> QED
      BY ONLY <1>5, <2>1, HashesUnfold
  <1> DEFINE K == {n \in Nat : n <= r => c[n] \in 1..Len(g[n]) /\ h[n] = g[n][c[n]]}
  <1>11. 0 \in K
    BY <1>8, <1>10
  <1>12. ASSUME NEW n \in K PROVE n + 1 \in K
    <2> SUFFICES ASSUME n + 1 <= r PROVE c[n + 1] \in 1..Len(g[n + 1]) /\ h[n + 1] = g[n + 1][c[n + 1]]
      OBVIOUS
    <2>1. /\ n <= r /\ n + 1 \in 1..r /\ n + 1 \in 1..Len(leaves) /\ n \in 0..Len(leaves)
          /\ (n + 1) - 1 = n
      BY <1>1, <1>7
    <2>2. c[n] \in 1..Len(g[n]) /\ h[n] = g[n][c[n]]
      BY <2>1
    <2>3. g[n + 1] = NextLevel(g[n]) /\ c[n + 1] = (c[n] + 1) \div 2 /\ h[n + 1] = Joined(h[n], p[n + 1])
      BY <1>8, <1>10, <2>1
    <2>4. p[n + 1] = [hash |-> g[n][Sibling(Len(g[n]), c[n])], left |-> Sibling(Len(g[n]), c[n]) < c[n]]
      <3>1. \A level, d : level = g[(n + 1) - 1] /\ d = c[(n + 1) - 1] =>
               p[n + 1] = [hash |-> level[Sibling(Len(level), d)], left |-> Sibling(Len(level), d) < d]
        BY <1>9, <2>1
      <3> QED
        BY <2>1, <3>1
    <2>5. PICK T : g[n] \in Seq(T)
      BY <1>2, <2>1, LevelFacts
    <2>6. g[n] # <<>>
      BY <1>2, <2>1, LevelFacts
    <2>7. /\ (c[n] + 1) \div 2 \in 1..Len(NextLevel(g[n]))
          /\ Joined(g[n][c[n]], p[n + 1]) = NextLevel(g[n])[(c[n] + 1) \div 2]
      BY <2>2, <2>4, <2>5, <2>6, JoinedIsNext
    <2> QED
      BY <2>2, <2>3, <2>7
  <1>13. K = Nat
    <2> HIDE DEF K
    <2>1. K \in SUBSET Nat
      BY DEF K
    <2> QED
      BY <1>11, <1>12, <2>1, InductiveSet
  <1>14. \A n \in 0..r : c[n] \in 1..Len(g[n]) /\ h[n] = g[n][c[n]]
    BY <1>7, <1>13
  <1> QED
    BY <1>2, <1>3, <1>4, <1>5, <1>6, <1>14

\* Different hashes stay different when the same siblings are joined to them: a hash is the data
\* it is of.
LEMMA HashesDiffer ==
    ASSUME NEW a, NEW b, NEW siblings, Len(siblings) \in Nat,
           Hashes(a, siblings)[Len(siblings)] = Hashes(b, siblings)[Len(siblings)]
    PROVE  a = b
  <1>1. PICK g : g = Hashes(a, siblings)
    OBVIOUS
  <1>2. PICK h : h = Hashes(b, siblings)
    OBVIOUS
  <1>3. PICK m \in Nat : m = Len(siblings)
    OBVIOUS
  <1>4. /\ g[0] = a /\ \A n \in 1..m : g[n] = Joined(g[n - 1], siblings[n])
        /\ h[0] = b /\ \A n \in 1..m : h[n] = Joined(h[n - 1], siblings[n])
    BY <1>1, <1>2, <1>3, HashesUnfold
  <1> DEFINE K == {n \in Nat : n <= m => (g[n] = h[n] => a = b)}
  <1>5. 0 \in K
    BY <1>4
  <1>6. ASSUME NEW n \in K PROVE n + 1 \in K
    <2> SUFFICES ASSUME n + 1 <= m, g[n + 1] = h[n + 1] PROVE a = b
      OBVIOUS
    <2>1. n <= m /\ n + 1 \in 1..m /\ (n + 1) - 1 = n
      OBVIOUS
    <2>2. Joined(g[n], siblings[n + 1]) = Joined(h[n], siblings[n + 1])
      BY <1>4, <2>1
    <2>3. g[n] = h[n]
      BY <2>2 DEF Joined
    <2> QED
      BY <2>1, <2>3
  <1>7. K = Nat
    <2> HIDE DEF K
    <2>1. K \in SUBSET Nat
      BY DEF K
    <2> QED
      BY <1>5, <1>6, <2>1, InductiveSet
  <1> QED
    BY <1>1, <1>2, <1>3, <1>7

\* For leaves of any number: the proof of a leaf leads to the root of their tree, and leads there
\* from no other hash.
LEMMA ProofIsExact ==
    ASSUME NEW S, NEW leaves \in Seq(S), leaves # <<>>, NEW i \in 1..Len(leaves), NEW x
    PROVE  VerifyInclusion(x, InclusionProof(leaves, i), MerkleRoot(leaves)) <=> x = leaves[i]
  <1>1. PICK p : p = InclusionProof(leaves, i)
    OBVIOUS
  <1>2. PICK r \in Nat : r = Rounds(leaves)
    BY RoundsFacts
  <1>3. Len(p) = r
    <2>1. Len(InclusionProof(leaves, i)) = Rounds(leaves)
      BY ProofFacts
    <2> QED
      BY <1>1, <1>2, <2>1
  <1>4. \A n \in 0..Rounds(leaves) :
           /\ Currents(leaves, i)[n] \in 1..Len(Levels(leaves)[n])
           /\ Hashes(leaves[i], InclusionProof(leaves, i))[n] = Levels(leaves)[n][Currents(leaves, i)[n]]
    BY ProofClimbs
  <1>5. r \in 0..Rounds(leaves) /\ Len(Levels(leaves)[r]) = 1
    BY <1>2, RoundsFacts
  <1>6. Currents(leaves, i)[r] = 1
    BY <1>4, <1>5
  <1>7. Hashes(leaves[i], p)[r] = Levels(leaves)[r][Currents(leaves, i)[r]]
    BY <1>1, <1>4, <1>5
  <1>8. Hashes(leaves[i], p)[r] = MerkleRoot(leaves)
    BY <1>2, <1>6, <1>7 DEF MerkleRoot
  <1>9. Hashes(x, p)[r] = Hashes(leaves[i], p)[r] => x = leaves[i]
    <2>1. Len(p) \in Nat /\ Len(p) = r
      BY <1>2, <1>3
    <2> QED
      BY ONLY <2>1, HashesDiffer
  <1> QED
    BY <1>1, <1>3, <1>8, <1>9 DEF VerifyInclusion

\* The events in memory are a chain: each is numbered with its place and names the hash of the one
\* before it.
ChainInv ==
    /\ ~running => events = <<>>
    /\ \A i \in DOMAIN events :
          /\ events[i].sequence = i
          /\ i = 1 => events[i].previous = <<>>
          /\ i > 1 => events[i].previous = HashOf(events[i - 1])

\* Every step of the log keeps the chain: append adds its next event, open accepts only a chain.
LEMMA ChainStep == AuditInv /\ ChainInv /\ [AuditNext]_lvars => ChainInv'
  <1> SUFFICES ASSUME AuditInv, ChainInv, [AuditNext]_lvars PROVE ChainInv'
    OBVIOUS
  <1>a. events \in Seq(EventLine) /\ (running => events = acked) /\ running \in BOOLEAN
    BY DEF AuditInv
  <1>1. ASSUME NEW k \in Kind, append(k) PROVE ChainInv'
    <2> DEFINE e == Event(k)
               n == Len(events) + 1
    <2>1. running /\ running' = running /\ events' = Append(events, e)
      BY <1>1 DEF append, CanAppend
    <2>2. e \in EventLine /\ e.sequence = n
      BY <1>a, <2>1, EventNext
    <2>3. e.previous = IF events = <<>> THEN <<>> ELSE HashOf(Last(events))
      BY DEF Event
    <2> HIDE DEF e
    <2>4. n \in Nat /\ Len(events') = n /\ events'[n] = e /\ \A i \in DOMAIN events : events'[i] = events[i]
      BY <1>a, <2>1, <2>2
    <2>5. ASSUME NEW i \in DOMAIN events'
          PROVE  /\ events'[i].sequence = i
                 /\ i = 1 => events'[i].previous = <<>>
                 /\ i > 1 => events'[i].previous = HashOf(events'[i - 1])
      <3>1. CASE i = n
        <4>1. CASE events = <<>>
          BY <2>2, <2>3, <2>4, <3>1, <4>1
        <4>2. CASE events # <<>>
          <5>1. n - 1 \in DOMAIN events /\ n > 1 /\ n # 1 /\ Last(events) = events[n - 1]
            BY <1>a, <4>2 DEF Last
          <5>2. events'[n - 1] = events[n - 1]
            BY <2>4, <5>1
          <5> QED
            BY <2>2, <2>3, <2>4, <3>1, <4>2, <5>1, <5>2
        <4> QED
          BY <4>1, <4>2
      <3>2. CASE i # n
        <4>1. i \in DOMAIN events /\ i \in Nat
          BY <1>a, <2>1, <2>2, <3>2
        <4>2. events'[i] = events[i]
          BY <2>4, <4>1
        <4>3. i > 1 => i - 1 \in DOMAIN events
          BY <1>a, <4>1
        <4>4. i > 1 => events'[i - 1] = events[i - 1]
          BY <2>4, <4>3
        <4> QED
          BY <4>1, <4>2, <4>4 DEF ChainInv
      <3> QED
        BY <3>1, <3>2
    <2> QED
      BY <2>1, <2>5 DEF ChainInv, HashOf
  <1>2. ASSUME NEW k \in Kind, append_fails(k) PROVE ChainInv'
    BY <1>2 DEF append_fails, ChainInv, HashOf
  <1>3. CASE AuditTick
    BY <1>3 DEF AuditTick, ChainInv, HashOf
  <1>4. CASE AuditCrash
    <2>1. events' = <<>>
      BY <1>4 DEF AuditCrash
    <2> QED
      BY <2>1 DEF ChainInv
  <1>5. CASE open
    <2>1. running' = TRUE /\ events' = file /\ \A i \in DOMAIN file : Follows(i)
      BY <1>5 DEF open, Opens
    <2> QED
      BY <2>1 DEF ChainInv, Follows, HashOf
  <1>6. CASE UNCHANGED lvars
    BY <1>6 DEF lvars, ChainInv, HashOf
  <1> QED
    BY <1>1, <1>2, <1>3, <1>4, <1>5, <1>6 DEF AuditNext

\* An event's hash is over as many events as its number says, so no two events have the same hash.
LEMMA ChainLengths ==
    ASSUME AuditInv, ChainInv, NEW i \in DOMAIN events
    PROVE  HashOf(events[i]) \in Seq(Kind) /\ Len(HashOf(events[i])) = i
  <1>1. events \in Seq(EventLine) /\ Len(events) \in Nat /\ DOMAIN events = 1..Len(events)
    BY DEF AuditInv
  <1>2. ASSUME NEW j \in DOMAIN events
        PROVE  events[j].previous \in Seq(Kind) /\ events[j].kind \in Kind
    <2>1. events[j] \in EventLine
      BY <1>1
    <2> QED
      BY <2>1 DEF EventLine
  <1>3. ASSUME NEW j \in DOMAIN events
        PROVE  /\ HashOf(events[j]) \in Seq(Kind)
               /\ Len(HashOf(events[j])) = Len(events[j].previous) + 1
    BY <1>2 DEF HashOf
  <1> DEFINE K == {n \in Nat : n \in DOMAIN events => Len(HashOf(events[n])) = n}
  <1>4. 0 \in K
    BY <1>1
  <1>5. ASSUME NEW n \in K PROVE n + 1 \in K
    <2> SUFFICES ASSUME n + 1 \in DOMAIN events PROVE Len(HashOf(events[n + 1])) = n + 1
      OBVIOUS
    <2>1. CASE n = 0
      <3>1. events[n + 1].previous = <<>>
        BY <2>1 DEF ChainInv
      <3> QED
        BY <1>3, <2>1, <3>1
    <2>2. CASE n # 0
      <3>1. n \in DOMAIN events /\ n + 1 > 1 /\ (n + 1) - 1 = n
        BY <1>1, <2>2
      <3>2. events[n + 1].previous = HashOf(events[n])
        BY <3>1 DEF ChainInv
      <3>3. Len(HashOf(events[n])) = n
        BY <3>1
      <3> QED
        BY <1>3, <3>2, <3>3
    <2> QED
      BY <2>1, <2>2
  <1>6. K = Nat
    <2> HIDE DEF K
    <2>1. K \in SUBSET Nat
      BY DEF K
    <2> QED
      BY <1>4, <1>5, <2>1, InductiveSet
  <1>7. i \in K
    BY <1>1, <1>6
  <1> QED
    BY <1>3, <1>7

\* A segment's leaves are the hashes of consecutive events (build_segment).
LEMMA LeavesAreConsecutive ==
    ASSUME AuditInv, ChainInv, NEW start \in 1..Len(events)
    PROVE  /\ Leaves(start) \in Seq(Seq(Kind)) /\ Leaves(start) # <<>>
           /\ \A n \in DOMAIN Leaves(start) :
                 /\ start + n - 1 \in DOMAIN events
                 /\ Leaves(start)[n] = HashOf(events[start + n - 1])
  <1>1. Len(events) \in Nat /\ DOMAIN events = 1..Len(events) /\ start \in Nat /\ start >= 1 /\ start <= Len(events)
    BY DEF AuditInv
  <1> DEFINE from == {i \in DOMAIN events : events[i].sequence >= start}
             Place(i) == Cardinality({j \in from : j <= i})
             length == IF Cardinality(from) < MaxPerSegment THEN Cardinality(from) ELSE MaxPerSegment
  <1>2. from = start..Len(events)
    BY <1>1 DEF ChainInv
  <1>3. Cardinality(from) = Len(events) - start + 1
    <2>1. start \in Int /\ Len(events) \in Int /\ ~(start > Len(events))
      BY <1>1
    <2>2. Cardinality(start..Len(events)) = Len(events) - start + 1
      BY ONLY <2>1, FS_Interval
    <2> QED
      BY <1>2, <2>2
  <1>4. ASSUME NEW i \in from PROVE Place(i) = i - start + 1
    <2>1. {j \in from : j <= i} = start..i
      BY <1>1, <1>2
    <2>2. Cardinality(start..i) = i - start + 1
      <3>1. start \in Int /\ i \in Int /\ ~(start > i)
        BY <1>1, <1>2
      <3> QED
        BY ONLY <3>1, FS_Interval
    <2> QED
      BY <2>1, <2>2
  <1>5. length \in Nat /\ length >= 1 /\ length <= Len(events) - start + 1
    BY <1>1, <1>3, SegmentConstants
  <1>6. Leaves(start) = [n \in 1..length |-> HashOf(events[CHOOSE i \in from : Place(i) = n])]
    BY DEF Leaves
  <1> HIDE DEF length, from, Place
  <1>7. ASSUME NEW n \in 1..length
        PROVE  start + n - 1 \in DOMAIN events /\ (CHOOSE i \in from : Place(i) = n) = start + n - 1
    <2>1. start + n - 1 \in from /\ start + n - 1 \in DOMAIN events
      BY <1>1, <1>2, <1>5
    <2>2. Place(start + n - 1) = n
      BY <1>1, <1>4, <1>5, <2>1
    <2>3. \A i \in from : Place(i) = n => i = start + n - 1
      BY <1>1, <1>2, <1>4, <1>5
    <2> QED
      BY <2>1, <2>2, <2>3
  <1>8. \A n \in 1..length : Leaves(start)[n] = HashOf(events[start + n - 1])
    BY <1>6, <1>7
  <1>9. \A n \in 1..length : Leaves(start)[n] \in Seq(Kind)
    BY <1>7, <1>8, ChainLengths
  <1>10. Leaves(start) = [n \in 1..length |-> Leaves(start)[n]]
    BY <1>6
  <1>11. Leaves(start) \in Seq(Seq(Kind)) /\ Len(Leaves(start)) = length /\ DOMAIN Leaves(start) = 1..length
    <2>1. PICK f : f = Leaves(start)
      OBVIOUS
    <2>2. f = [n \in 1..length |-> f[n]] /\ \A n \in 1..length : f[n] \in Seq(Kind)
      BY <1>9, <1>10, <2>1
    <2>3. f \in Seq(Seq(Kind)) /\ Len(f) = length /\ DOMAIN f = 1..length
      BY <1>5, <2>2
    <2> QED
      BY <2>1, <2>3
  <1>12. Leaves(start) # <<>>
    BY <1>5, <1>11
  <1> QED
    BY <1>7, <1>8, <1>11, <1>12

\* For any number of events, segments of any length and after any failed appends and crashes, the
\* proof that inclusion_proof makes of an event leads verify_inclusion to the segment's root, and
\* leads there from no other event: ProofsVerify in every behaviour.
THEOREM InclusionProofsVerify == AuditSpec => []ProofsVerify
  <1>1. AuditInit => AuditInv /\ ChainInv
    BY DEF AuditInit, AuditInv, HasBadLine, BadLine, BeginsWithAcked, ChainInv
  <1>2. AuditInv /\ ChainInv => ProofsVerify
    <2> SUFFICES ASSUME AuditInv, ChainInv, NEW start \in 1..Len(events),
                        NEW i \in DOMAIN Leaves(start), NEW j \in DOMAIN Leaves(start)
                 PROVE  VerifyInclusion(Leaves(start)[j], InclusionProof(Leaves(start), i),
                                        MerkleRoot(Leaves(start))) <=> i = j
      BY DEF ProofsVerify
    <2>1. PICK leaves : leaves = Leaves(start)
      OBVIOUS
    <2>2. leaves \in Seq(Seq(Kind)) /\ leaves # <<>> /\ i \in 1..Len(leaves) /\ j \in 1..Len(leaves)
      BY <2>1, LeavesAreConsecutive
    <2>3. VerifyInclusion(leaves[j], InclusionProof(leaves, i), MerkleRoot(leaves)) <=> leaves[j] = leaves[i]
      BY <2>2, ProofIsExact
    <2>4. leaves[j] = leaves[i] => i = j
      <3>1. /\ start + i - 1 \in DOMAIN events /\ leaves[i] = HashOf(events[start + i - 1])
            /\ start + j - 1 \in DOMAIN events /\ leaves[j] = HashOf(events[start + j - 1])
        BY <2>1, LeavesAreConsecutive
      <3>2. Len(leaves[i]) = start + i - 1 /\ Len(leaves[j]) = start + j - 1
        BY <3>1, ChainLengths
      <3>3. i \in Nat /\ j \in Nat /\ start \in Nat
        BY <2>2
      <3> QED
        BY <3>2, <3>3
    <2> QED
      BY <2>1, <2>3, <2>4
  <1> QED
    BY <1>1, <1>2, AuditStep, ChainStep, PTL DEF AuditSpec

=============================================================================
