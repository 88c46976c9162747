---------------------------- MODULE ContentStore ----------------------------
(***************************************************************************)
(* The content store of a node and the catalog that decides what stays in    *)
(* it: contents are uploaded chunk by chunk, chunks are shared between       *)
(* contents, and the catalog collects what nobody refers to any more.        *)
(*                                                                           *)
(* Abstractions.  A chunk is its digest, so a file that exists has the right *)
(* bytes.  Methods do not overlap; each may stop half way, with an error or  *)
(* because the process ends.  Callers register a content that is stored,     *)
(* once, and give a reference up whatever the call to release it returns.    *)
(***************************************************************************)
EXTENDS Naturals, FiniteSets

CONSTANTS
    Content, Chunk,
    ChunksOf,               \* the chunks of every content
    Policy,                 \* the resource policy of every content
    Target, External,       \* replica targets of every content; those outside the cluster
    MinReplicas,            \* minimum_replicas of the policy Replicated
    MaxRecords,             \* max_records
    MaxRefs, MaxEpoch,      \* bounds: references of a content, the clock
    MaxFaults               \* bound: catalog writes and collections that fail

ASSUME StoreConstants ==
    /\ ChunksOf \in [Content -> SUBSET Chunk] /\ \A c \in Content : IsFiniteSet(ChunksOf[c])
    /\ \A c \in Content : Policy[c] \in {"Ephemeral", "Reconstructible", "Replicated", "ExternalDurable"}
    /\ {MinReplicas, MaxRecords, MaxRefs} \subseteq Nat \ {0}
    /\ {MaxEpoch, MaxFaults} \subseteq Nat

VARIABLES
    chunks, uploads, manifests,     \* the three directories of the store
    records,        \* the catalog in memory
    saved,          \* and in its file
    epoch,
    held,           \* the references that callers have
    stranded,       \* removed from the store, and maybe not from the catalog
    faults

store == <<chunks, uploads, manifests>>
catalog == <<records, saved, held>>
cvars == <<store, catalog, epoch, stranded, faults>>

None == [refs |-> 0, retain |-> 0, health |-> <<>>, repair |-> FALSE, known |-> FALSE]

StoreInit ==
    /\ chunks = {} /\ uploads = {} /\ manifests = {}
    /\ records = [c \in Content |-> None]
    /\ saved = [c \in Content |-> None]
    /\ epoch = 0
    /\ held = [c \in Content |-> 0]
    /\ stranded = {}
    /\ faults = 0

Catalogued == {c \in Content : records[c] # None}

-----------------------------------------------------------------------------
(* ContentStore.                                                             *)

begin_upload(c) ==
    /\ c \notin manifests
    /\ uploads' = uploads \cup {c}
    /\ UNCHANGED <<chunks, manifests, catalog, epoch, stranded, faults>>

write_chunk(c, k) ==
    /\ c \in uploads
    /\ k \in ChunksOf[c]
    /\ chunks' = chunks \cup {k}
    /\ UNCHANGED <<uploads, manifests, catalog, epoch, stranded, faults>>

\* missing_chunks is empty and the digest of the whole is right.
Complete(c) == ChunksOf[c] \subseteq chunks

\* The manifest is published; the upload's own file may be left behind.
complete_upload(c) ==
    /\ c \in uploads
    /\ Complete(c)
    /\ manifests' = manifests \cup {c}
    /\ uploads' \in {uploads, uploads \ {c}}
    /\ stranded' = stranded \ {c}
    /\ UNCHANGED <<chunks, catalog, epoch, faults>>

\* read_content succeeds.
Readable(c) == c \in manifests /\ ChunksOf[c] \subseteq chunks

\* referenced_chunks, of the manifests in M.
Referenced(M) == UNION {ChunksOf[c] : c \in M}

-----------------------------------------------------------------------------
(* ResourceCatalog.                                                          *)

HealthyCopies(c, r) == Cardinality({t \in Target[c] : r.health[t] = "Healthy"})

HealthyExternal(c, r) == \E t \in Target[c] \cap External : r.health[t] = "Healthy"

needs_repair(c, r) ==
    CASE Policy[c] \in {"Ephemeral", "Reconstructible"} -> FALSE
      [] Policy[c] = "Replicated" -> HealthyCopies(c, r) < MinReplicas
      [] Policy[c] = "ExternalDurable" -> ~HealthyExternal(c, r)

\* Defect: the file is one change behind.
PersistBehind(new, ok) == records' = new /\ saved' = records /\ UNCHANGED faults

\* persist: the file has what is in memory, or the call fails and it has what it had.
Persist(new, ok) ==
    /\ records' = new
    /\ IF ok THEN saved' = new /\ UNCHANGED faults
       ELSE faults < MaxFaults /\ faults' = faults + 1 /\ UNCHANGED saved

\* What a successful persist has forgotten of the contents in S.
StillThere(new, S, ok) == IF ok THEN {c \in S : new[c] # None} ELSE S

Update(c, r, ok) ==
    LET new == [records EXCEPT ![c] = r]
    IN  Persist(new, ok) /\ stranded' = StillThere(new, stranded, ok)

register(c, refs, retain, healthy, ok) ==
    LET health == [t \in Target[c] |-> IF t \in healthy THEN "Healthy" ELSE "Pending"]
        r == [refs |-> refs, retain |-> retain, health |-> health, repair |-> FALSE, known |-> TRUE]
    IN  /\ c \in manifests /\ records[c] = None
        /\ Cardinality(Catalogued) < MaxRecords
        /\ Update(c, [r EXCEPT !.repair = needs_repair(c, r)], ok)
        /\ held' = [held EXCEPT ![c] = IF ok THEN @ + refs ELSE @]
        /\ UNCHANGED <<store, epoch>>

record_replica(c, t, health, ok) ==
    LET r == [records[c] EXCEPT !.health[t] = health]
    IN  /\ records[c] # None
        /\ records[c].health[t] # health
        /\ Update(c, [r EXCEPT !.repair = needs_repair(c, r)], ok)
        /\ UNCHANGED <<store, epoch, held>>

add_reference(c, ok) ==
    /\ records[c] # None
    /\ records[c].refs < MaxRefs
    /\ Update(c, [records[c] EXCEPT !.refs = @ + 1], ok)
    /\ held' = [held EXCEPT ![c] = IF ok THEN @ + 1 ELSE @]
    /\ UNCHANGED <<store, epoch>>

\* saturating_sub.
LessRefs(n) == IF n > 0 THEN n - 1 ELSE 0

release_reference(c, retain, ok) ==
    /\ records[c] # None /\ held[c] > 0
    /\ Update(c, [records[c] EXCEPT !.refs = LessRefs(@), !.retain = IF retain > @ THEN retain ELSE @], ok)
    /\ held' = [held EXCEPT ![c] = @ - 1]
    /\ UNCHANGED <<store, epoch>>

-----------------------------------------------------------------------------
Collectable == {c \in Catalogued : records[c].refs = 0 /\ records[c].retain <= epoch}

\* Defect: only the manifests of the catalog count.
KeptChunksCatalogued(removed) == Referenced((manifests \ removed) \cap Catalogued)

KeptChunks(removed) == Referenced(manifests \ removed)

\* What remove_content has deleted when it ends; nothing without a manifest.
Swept(removed) == IF removed \cap manifests = {} THEN chunks ELSE chunks \cap KeptChunks(removed)

Without(removed) == [c \in Content |-> IF c \in removed THEN None ELSE records[c]]

\* max_items picks some of the collectable contents.  Each is removed from the
\* store, then from the records; the file follows at the end.
collect_garbage(G, ok) ==
    /\ G # {} /\ G \subseteq Collectable
    /\ manifests' = manifests \ G
    /\ chunks' = Swept(G)
    /\ Persist(Without(G), ok)
    /\ stranded' = StillThere(Without(G), stranded \cup G, ok)
    /\ UNCHANGED <<uploads, held, epoch>>

\* The removal of c fails after those in R: its manifest stays, or is gone with some
\* of the chunks that only it referred to.
collect_garbage_stops(R, c) ==
    /\ faults < MaxFaults
    /\ R \cup {c} \subseteq Collectable /\ c \in manifests \ R
    /\ \/ /\ manifests' = manifests \ R
          /\ chunks' = Swept(R)
          /\ stranded' = stranded \cup R
       \/ /\ manifests' = manifests \ (R \cup {c})
          /\ \E left \in SUBSET (Swept(R) \ Swept(R \cup {c})) : chunks' = Swept(R \cup {c}) \cup left
          /\ stranded' = stranded \cup R \cup {c}
    /\ records' = Without(R)
    /\ faults' = faults + 1
    /\ UNCHANGED <<uploads, saved, held, epoch>>

\* ResourceCatalog::open, after the process ended.
reopen ==
    /\ records # saved
    /\ records' = saved
    /\ UNCHANGED <<store, saved, held, epoch, stranded, faults>>

NextEpoch ==
    /\ epoch < MaxEpoch
    /\ epoch' = epoch + 1
    /\ UNCHANGED <<store, catalog, stranded, faults>>

StoreNext ==
    \/ \E c \in Content : begin_upload(c) \/ complete_upload(c)
    \/ \E c \in Content, k \in Chunk : write_chunk(c, k)
    \/ \E c \in Content, ok \in BOOLEAN :
          \/ \E refs \in {0, 1}, retain \in 0..MaxEpoch, healthy \in SUBSET Target[c] :
                register(c, refs, retain, healthy, ok)
          \/ \E t \in Target[c], health \in {"Healthy", "Damaged"} : record_replica(c, t, health, ok)
          \/ add_reference(c, ok)
          \/ \E retain \in 0..MaxEpoch : release_reference(c, retain, ok)
    \/ \E G \in SUBSET Content, ok \in BOOLEAN : collect_garbage(G, ok)
    \/ \E R \in SUBSET Content, c \in Content : collect_garbage_stops(R, c)
    \/ reopen
    \/ NextEpoch

-----------------------------------------------------------------------------
(* Properties.                                                               *)

\* The record of a content in the catalog.
Record(c) ==
    [refs : 0..MaxRefs, retain : 0..MaxEpoch,
     health : [Target[c] -> {"Pending", "Healthy", "Damaged"}],
     repair : BOOLEAN, known : {TRUE}]

RecordOK(c, r) == r = None \/ r \in Record(c)

StoreTypeOK ==
    /\ chunks \subseteq Chunk
    /\ uploads \subseteq Content /\ manifests \subseteq Content /\ stranded \subseteq Content
    /\ \A c \in Content : RecordOK(c, records[c]) /\ RecordOK(c, saved[c])
    /\ Cardinality(Catalogued) <= MaxRecords
    /\ held \in [Content -> 0..MaxRefs]

\* docs/phase4-durable-registry.md: shared chunks stay while another manifest refers
\* to them.  What is committed can be read in whole, whatever was collected while
\* it was uploaded or afterwards, and however far a collection came.
CommittedReadable == \A c \in manifests : Readable(c)

\* docs/phase4-durable-registry.md: only content without references and past its
\* retention is collected.  A content that somebody refers to is in the store and
\* in the catalog, in memory and after a restart, through failed writes of the
\* catalog; only a content that a collection has removed and not managed to
\* forget can be referred to without being there.
HeldStored ==
    \A c \in Content : held[c] > 0 =>
        /\ held[c] <= records[c].refs /\ held[c] <= saved[c].refs
        /\ c \in stranded \/ Readable(c)

=============================================================================
