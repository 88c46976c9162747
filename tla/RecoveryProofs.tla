--------------------------- MODULE RecoveryProofs ---------------------------
(***************************************************************************)
(* Proofs about ContentStore and Recovery, for every set of contents, every  *)
(* sharing of chunks, every policy and every bound: type correctness, that   *)
(* what is committed can be read, and that what somebody refers to stays.    *)
(***************************************************************************)
EXTENDS Recovery, FiniteSetTheorems, TLAPS

(* A catalog, in memory or in its file.                                      *)

Typed(recs) ==
    /\ recs = [c \in Content |-> recs[c]]
    /\ \A c \in Content : RecordOK(c, recs[c])

Entries(recs) == {c \in Content : recs[c] # None}

Few(recs) == IsFiniteSet(Entries(recs)) /\ Cardinality(Entries(recs)) <= MaxRecords

\* No content has fewer references than callers hold.
Counted(h, recs) == \A c \in Content : h[c] <= recs[c].refs

\* What has an entry is in the store, or a collection has failed to forget it.
Kept(recs, present) == \A c \in Content : recs[c] # None => c \in present

CatalogInv(recs, h, present) ==
    /\ Typed(recs) /\ Few(recs)
    /\ Counted(h, recs)
    /\ Kept(recs, present)

\* The inductive invariant of the store and the catalog: every fact about the
\* catalog holds of the memory and of the file, whichever of the two comes next.
StoreInv ==
    /\ chunks \subseteq Chunk
    /\ uploads \subseteq Content /\ manifests \subseteq Content /\ stranded \subseteq Content
    /\ epoch \in Nat /\ held \in [Content -> Nat]
    /\ CatalogInv(records, held, manifests \cup stranded)
    /\ CatalogInv(saved, held, manifests \cup stranded)
    /\ CommittedReadable

RecoveryInv ==
    /\ StoreInv
    /\ \A a \in artifacts : a.content \in Checkpoint /\ a.baseline \in Checkpoint
    /\ budget \in [uploaded : 0..MaxUploaded, operations : 0..MaxOperations]

-----------------------------------------------------------------------------
\* The references of a record, or of none, are a number within the bound.
LEMMA RefsType ==
    ASSUME NEW c, NEW r, RecordOK(c, r)
    PROVE  r.refs \in 0..MaxRefs
  <1>1. CASE r = None
    <2>1. r.refs = 0
      BY <1>1 DEF None
    <2> QED
      BY <2>1, StoreConstants
  <1>2. CASE r \in Record(c)
    BY <1>2 DEF Record
  <1> QED
    BY <1>1, <1>2 DEF RecordOK

\* A record is not the absence of one.
LEMMA RecordIsSome ==
    ASSUME NEW c, NEW r \in Record(c)
    PROVE  r # None
  <1>1. r.known = TRUE
    BY DEF Record
  <1>2. None.known = FALSE
    BY DEF None
  <1> QED
    BY <1>1, <1>2

\* needs_repair answers for every policy.
LEMMA RepairType ==
    ASSUME NEW c \in Content, NEW r
    PROVE  needs_repair(c, r) \in BOOLEAN
  <1>1. Policy[c] \in {"Ephemeral", "Reconstructible", "Replicated", "ExternalDurable"}
    BY StoreConstants
  <1>2. HealthyExternal(c, r) \in BOOLEAN
    BY DEF HealthyExternal
  <1>3. (HealthyCopies(c, r) < MinReplicas) \in BOOLEAN
    OBVIOUS
  <1>4. CASE Policy[c] \in {"Ephemeral", "Reconstructible"}
    BY <1>4 DEF needs_repair
  <1>5. CASE Policy[c] = "Replicated"
    BY <1>5, <1>3 DEF needs_repair
  <1>6. CASE Policy[c] = "ExternalDurable"
    BY <1>6, <1>2 DEF needs_repair
  <1> QED
    BY <1>1, <1>4, <1>5, <1>6

\* One changed record keeps a catalog well typed and within max_records.
LEMMA ChangedCatalog ==
    ASSUME Typed(records), Few(records), NEW c \in Content, NEW r \in Record(c),
           records[c] # None \/ Cardinality(Catalogued) < MaxRecords
    PROVE  LET new == [records EXCEPT ![c] = r] IN Typed(new) /\ Few(new)
  <1> DEFINE new == [records EXCEPT ![c] = r]
  <1>1. /\ new[c] = r
        /\ \A d \in Content \ {c} : new[d] = records[d]
        /\ new = [d \in Content |-> new[d]]
    BY DEF Typed
  <1>2. Typed(new)
    BY <1>1 DEF Typed, RecordOK
  <1>3. Entries(new) = Catalogued \cup {c}
    BY <1>1, RecordIsSome DEF Entries, Catalogued
  <1>4. IsFiniteSet(Catalogued) /\ Cardinality(Catalogued) <= MaxRecords
    BY DEF Few, Entries, Catalogued
  <1>5. Cardinality(Catalogued) \in Nat /\ MaxRecords \in Nat
    BY <1>4, FS_CardinalityType, StoreConstants
  <1>6. /\ IsFiniteSet(Catalogued \cup {c})
        /\ Cardinality(Catalogued \cup {c}) =
             IF c \in Catalogued THEN Cardinality(Catalogued) ELSE Cardinality(Catalogued) + 1
    BY <1>4, FS_AddElement
  <1>7. c \in Catalogued \/ Cardinality(Catalogued) < MaxRecords
    BY DEF Catalogued
  <1>8. Cardinality(Catalogued \cup {c}) <= MaxRecords
    BY <1>4, <1>5, <1>6, <1>7
  <1>9. Few(new)
    BY <1>3, <1>6, <1>8 DEF Few
  <1> QED
    BY <1>2, <1>9

\* So does a catalog that has forgotten some contents.
LEMMA ForgottenCatalog ==
    ASSUME Typed(records), Few(records), NEW R \in SUBSET Content
    PROVE  Typed(Without(R)) /\ Few(Without(R))
  <1>1. Typed(Without(R))
    BY DEF Typed, Without, RecordOK
  <1>2. Entries(Without(R)) \subseteq Entries(records)
    BY DEF Entries, Without
  <1>3. /\ IsFiniteSet(Entries(Without(R)))
        /\ Cardinality(Entries(Without(R))) <= Cardinality(Entries(records))
    BY <1>2, FS_Subset DEF Few
  <1>4. Cardinality(Entries(Without(R))) \in Nat /\ Cardinality(Entries(records)) \in Nat
        /\ MaxRecords \in Nat
    BY <1>3, FS_CardinalityType, StoreConstants DEF Few
  <1> QED
    BY <1>1, <1>3, <1>4 DEF Few

\* persist writes the new catalog, or fails and leaves the file as it was; either way both
\* are as they should be if the new catalog is, for the contents present afterwards.
LEMMA Persisted ==
    ASSUME NEW new, NEW ok \in BOOLEAN, Persist(new, ok),
           NEW h, NEW present, NEW S, stranded' = StillThere(new, S, ok),
           CatalogInv(new, h, present \cup S), CatalogInv(saved, h, present \cup S) \/ ok
    PROVE  /\ CatalogInv(records', h, present \cup stranded')
           /\ CatalogInv(saved', h, present \cup stranded')
           /\ stranded' \subseteq S
  <1>1. CASE ok
    <2>1. records' = new /\ saved' = new /\ stranded' = {c \in S : new[c] # None}
      BY <1>1 DEF Persist, StillThere
    <2>2. Kept(new, present \cup stranded')
      BY <2>1 DEF CatalogInv, Kept
    <2> QED
      BY <2>1, <2>2 DEF CatalogInv
  <1>2. CASE ~ok
    <2>1. records' = new /\ saved' = saved /\ stranded' = S
      BY <1>2 DEF Persist, StillThere
    <2> QED
      BY <1>2, <2>1
  <1> QED
    BY <1>1, <1>2

\* A change of one record keeps the invariant when nobody holds more references than it
\* has afterwards.
LEMMA Updated ==
    ASSUME StoreInv, NEW c \in Content, NEW r \in Record(c), NEW ok \in BOOLEAN,
           Update(c, r, ok), UNCHANGED <<store, epoch>>,
           records[c] # None \/ (c \in manifests /\ Cardinality(Catalogued) < MaxRecords),
           held' \in [Content -> Nat],
           \A d \in Content \ {c} : held'[d] = held[d],
           held'[c] <= r.refs, held'[c] <= saved[c].refs \/ ok
    PROVE  StoreInv'
  <1> DEFINE new == [records EXCEPT ![c] = r]
  <1>1. Typed(new) /\ Few(new)
    BY ChangedCatalog DEF StoreInv, CatalogInv
  <1>2. new[c] = r /\ \A d \in Content \ {c} : new[d] = records[d]
    BY DEF StoreInv, CatalogInv, Typed
  <1>3. Counted(held', new)
    BY <1>2 DEF StoreInv, CatalogInv, Counted
  <1>4. Kept(new, manifests \cup stranded)
    BY <1>2 DEF StoreInv, CatalogInv, Kept
  <1>5. CatalogInv(saved, held', manifests \cup stranded) \/ ok
    BY DEF StoreInv, CatalogInv, Counted
  <1>6. Persist(new, ok) /\ stranded' = StillThere(new, stranded, ok)
    BY DEF Update
  <1>7. /\ CatalogInv(records', held', manifests \cup stranded')
        /\ CatalogInv(saved', held', manifests \cup stranded')
        /\ stranded' \subseteq stranded
    <2>1. CatalogInv(new, held', manifests \cup stranded)
      BY <1>1, <1>3, <1>4 DEF CatalogInv
    <2> HIDE DEF new
    <2> QED
      BY <2>1, <1>5, <1>6, Persisted
  <1> QED
    BY <1>7 DEF StoreInv, CommittedReadable, Readable, store

-----------------------------------------------------------------------------
\* Removing contents leaves every chunk that another manifest refers to.
LEMMA SweptKeeps ==
    ASSUME StoreInv, NEW R \in SUBSET Content
    PROVE  /\ Swept(R) \subseteq chunks
           /\ \A c \in manifests \ R : ChunksOf[c] \subseteq Swept(R)
  BY DEF StoreInv, CommittedReadable, Readable, Swept, KeptChunks, Referenced

\* What can be collected is not referred to.
LEMMA CollectableUnheld ==
    ASSUME StoreInv, NEW c \in Collectable
    PROVE  c \in Content /\ held[c] = 0
  BY DEF StoreInv, CatalogInv, Counted, Collectable, Catalogued

\* Forgetting contents that nobody refers to keeps the counts.
LEMMA ForgottenCounted ==
    ASSUME StoreInv, NEW R \in SUBSET Collectable
    PROVE  /\ Counted(held, Without(R))
           /\ \A present : Kept(records, present) => Kept(Without(R), present)
           /\ \A c \in R : Without(R)[c] = None
           /\ R \subseteq Content
  BY CollectableUnheld
     DEF StoreInv, CatalogInv, Counted, Kept, Without, None, Collectable, Catalogued

\* A collection that comes to its end, whether or not the file follows.
LEMMA CollectKeeps ==
    ASSUME StoreInv, NEW G \in SUBSET Content, NEW ok \in BOOLEAN, collect_garbage(G, ok)
    PROVE  StoreInv'
  <1>1. G \in SUBSET Collectable /\ manifests' = manifests \ G /\ chunks' = Swept(G)
        /\ UNCHANGED <<uploads, held, epoch>>
    BY DEF collect_garbage
  <1>2. Typed(Without(G)) /\ Few(Without(G))
    BY ForgottenCatalog DEF StoreInv, CatalogInv
  <1>3. manifests \cup stranded \subseteq (manifests \ G) \cup (stranded \cup G)
    OBVIOUS
  <1>4. /\ CatalogInv(Without(G), held, (manifests \ G) \cup (stranded \cup G))
        /\ CatalogInv(saved, held, (manifests \ G) \cup (stranded \cup G))
    BY <1>1, <1>2, <1>3, ForgottenCounted DEF StoreInv, CatalogInv, Kept
  <1>5. Persist(Without(G), ok) /\ stranded' = StillThere(Without(G), stranded \cup G, ok)
    BY DEF collect_garbage
  <1>6. /\ CatalogInv(records', held', manifests' \cup stranded')
        /\ CatalogInv(saved', held', manifests' \cup stranded')
        /\ stranded' \subseteq stranded \cup G
    <2>1. PICK new : new = Without(G)
      OBVIOUS
    <2>2. PICK S : S = stranded \cup G
      OBVIOUS
    <2>3. PICK present : present = manifests \ G
      OBVIOUS
    <2>4. /\ Persist(new, ok) /\ stranded' = StillThere(new, S, ok)
          /\ CatalogInv(new, held, present \cup S) /\ CatalogInv(saved, held, present \cup S)
      BY <1>4, <1>5, <2>1, <2>2, <2>3
    <2>5. /\ CatalogInv(records', held, present \cup stranded')
          /\ CatalogInv(saved', held, present \cup stranded')
          /\ stranded' \subseteq S
      BY <2>4, Persisted
    <2> QED
      BY <1>1, <2>2, <2>3, <2>5
  <1> QED
    BY <1>1, <1>6, SweptKeeps DEF StoreInv, CommittedReadable, Readable

\* A collection that stops half way: its last content may be gone with any of the chunks
\* that only it referred to.
LEMMA CollectStopsKeeps ==
    ASSUME StoreInv, NEW R \in SUBSET Content, NEW c \in Content, collect_garbage_stops(R, c)
    PROVE  StoreInv'
  <1>1. R \in SUBSET Collectable /\ records' = Without(R) /\ UNCHANGED <<uploads, saved, held, epoch>>
    BY DEF collect_garbage_stops
  <1>2. Typed(Without(R)) /\ Few(Without(R))
    BY ForgottenCatalog DEF StoreInv, CatalogInv
  <1>3. PICK Q \in SUBSET Content :
           /\ Q = R \/ Q = R \cup {c}
           /\ manifests' = manifests \ Q
           /\ stranded' = stranded \cup Q
           /\ Swept(Q) \subseteq chunks' /\ chunks' \subseteq chunks
    <2>1. CASE /\ manifests' = manifests \ R
               /\ chunks' = Swept(R)
               /\ stranded' = stranded \cup R
      BY <2>1, SweptKeeps
    <2>2. CASE /\ manifests' = manifests \ (R \cup {c})
               /\ \E left \in SUBSET (Swept(R) \ Swept(R \cup {c})) : chunks' = Swept(R \cup {c}) \cup left
               /\ stranded' = stranded \cup R \cup {c}
      <3>1. Swept(R) \subseteq chunks /\ Swept(R \cup {c}) \subseteq chunks
        BY SweptKeeps
      <3>2. Swept(R \cup {c}) \subseteq chunks' /\ chunks' \subseteq chunks
        BY <2>2, <3>1
      <3>3. stranded' = stranded \cup (R \cup {c})
        BY <2>2
      <3> QED
        BY <2>2, <3>2, <3>3
    <2> QED
      BY <2>1, <2>2 DEF collect_garbage_stops
  <1>4. manifests \cup stranded \subseteq manifests' \cup stranded'
    BY <1>3
  <1>5. /\ CatalogInv(records', held', manifests' \cup stranded')
        /\ CatalogInv(saved', held', manifests' \cup stranded')
    BY <1>1, <1>2, <1>4, ForgottenCounted DEF StoreInv, CatalogInv, Kept
  <1>6. CommittedReadable'
    BY <1>3, SweptKeeps DEF CommittedReadable, Readable
  <1> QED
    BY <1>1, <1>3, <1>5, <1>6 DEF StoreInv

\* Storing a content, and steps that only add chunks or uploads, keep the invariant.
LEMMA StoredKeeps ==
    ASSUME StoreInv, UNCHANGED catalog, epoch' \in Nat,
           chunks \subseteq chunks', chunks' \subseteq Chunk, uploads' \subseteq Content,
           NEW M \in SUBSET Content, \A c \in M : ChunksOf[c] \subseteq chunks',
           manifests' = manifests \cup M, stranded' = stranded \ M
    PROVE  StoreInv'
  <1>1. manifests \cup stranded \subseteq manifests' \cup stranded'
    OBVIOUS
  <1>2. /\ CatalogInv(records', held', manifests' \cup stranded')
        /\ CatalogInv(saved', held', manifests' \cup stranded')
    BY <1>1 DEF StoreInv, CatalogInv, Kept, catalog
  <1> QED
    BY <1>2 DEF StoreInv, CommittedReadable, Readable, catalog

-----------------------------------------------------------------------------
\* A content without a record has no references.
LEMMA UnknownUnheld ==
    ASSUME StoreInv, NEW c \in Content, records[c] = None
    PROVE  held[c] = 0
  <1>1. held[c] \in Nat /\ held[c] <= 0
    BY DEF StoreInv, CatalogInv, Counted, None
  <1> QED
    BY <1>1

\* register of a stored content.
LEMMA RegisterKeeps ==
    ASSUME StoreInv, NEW c \in Content, NEW refs \in {0, 1}, NEW retain \in 0..MaxEpoch,
           NEW healthy \in SUBSET Target[c], NEW ok \in BOOLEAN,
           register(c, refs, retain, healthy, ok)
    PROVE  StoreInv'
  <1> DEFINE health == [t \in Target[c] |-> IF t \in healthy THEN "Healthy" ELSE "Pending"]
             r == [refs |-> refs, retain |-> retain, health |-> health, repair |-> FALSE, known |-> TRUE]
             rr == [r EXCEPT !.repair = needs_repair(c, r)]
  <1>1. rr.refs = refs /\ rr \in Record(c)
    <2>1. health \in [Target[c] -> {"Pending", "Healthy", "Damaged"}]
      OBVIOUS
    <2>2. refs \in 0..MaxRefs
      BY StoreConstants
    <2>3. r \in Record(c)
      BY <2>1, <2>2 DEF Record
    <2>4. needs_repair(c, r) \in BOOLEAN
      BY RepairType
    <2> HIDE DEF health, r
    <2>5. rr \in Record(c) /\ rr.refs = r.refs
      BY <2>3, <2>4 DEF Record
    <2>6. r.refs = refs
      BY DEF r
    <2> QED
      BY <2>5, <2>6
  <1>2. /\ c \in manifests /\ records[c] = None
        /\ Cardinality(Catalogued) < MaxRecords
        /\ Update(c, rr, ok)
        /\ held' = [held EXCEPT ![c] = IF ok THEN held[c] + refs ELSE held[c]]
        /\ UNCHANGED <<store, epoch>>
    BY DEF register
  <1> HIDE DEF health, r, rr
  <1>3. held[c] = 0
    BY <1>2, UnknownUnheld
  <1>4. held \in [Content -> Nat] /\ held[c] <= saved[c].refs
    BY DEF StoreInv, CatalogInv, Counted
  <1>5. /\ held' \in [Content -> Nat]
        /\ \A d \in Content \ {c} : held'[d] = held[d]
        /\ held'[c] <= rr.refs
        /\ held'[c] <= saved[c].refs \/ ok
    BY <1>1, <1>2, <1>3, <1>4
  <1> QED
    BY <1>1, <1>2, <1>5, Updated

\* The record of a catalogued content, and its references.
LEMMA KnownRecord ==
    ASSUME StoreInv, NEW c \in Content, records[c] # None
    PROVE  /\ records[c] \in Record(c)
           /\ held \in [Content -> Nat]
           /\ held[c] <= records[c].refs /\ held[c] <= saved[c].refs
           /\ records[c].refs \in 0..MaxRefs /\ saved[c].refs \in 0..MaxRefs
  BY RefsType DEF StoreInv, CatalogInv, Typed, RecordOK, Counted

\* record_replica.
LEMMA ReplicaKeeps ==
    ASSUME StoreInv, NEW c \in Content, NEW t \in Target[c],
           NEW health \in {"Healthy", "Damaged"}, NEW ok \in BOOLEAN,
           record_replica(c, t, health, ok)
    PROVE  StoreInv'
  <1> DEFINE r == [records[c] EXCEPT !.health[t] = health]
             rr == [r EXCEPT !.repair = needs_repair(c, r)]
  <1>1. records[c] # None /\ Update(c, rr, ok) /\ UNCHANGED <<store, epoch, held>>
    BY DEF record_replica
  <1>2. r \in Record(c) /\ r.refs = records[c].refs
    BY <1>1, KnownRecord DEF Record
  <1> HIDE DEF r
  <1>3. rr \in Record(c) /\ rr.refs = r.refs
    BY <1>2, RepairType DEF Record
  <1>4. records[c] # None \/ (c \in manifests /\ Cardinality(Catalogued) < MaxRecords)
    BY <1>1
  <1>5. /\ held' \in [Content -> Nat]
        /\ \A d \in Content \ {c} : held'[d] = held[d]
        /\ held'[c] <= rr.refs
        /\ held'[c] <= saved[c].refs \/ ok
    BY <1>1, <1>2, <1>3, KnownRecord
  <1> HIDE DEF rr
  <1> QED
    BY <1>1, <1>3, <1>4, <1>5, Updated

\* add_reference.
LEMMA AddKeeps ==
    ASSUME StoreInv, NEW c \in Content, NEW ok \in BOOLEAN, add_reference(c, ok)
    PROVE  StoreInv'
  <1> DEFINE r == [records[c] EXCEPT !.refs = records[c].refs + 1]
  <1>1. /\ records[c] # None /\ records[c].refs < MaxRefs
        /\ Update(c, r, ok) /\ UNCHANGED <<store, epoch>>
        /\ held' = [held EXCEPT ![c] = IF ok THEN held[c] + 1 ELSE held[c]]
    BY DEF add_reference
  <1>2. r \in Record(c) /\ r.refs = records[c].refs + 1
    <2>1. records[c] \in Record(c) /\ records[c].refs + 1 \in 0..MaxRefs
      BY <1>1, KnownRecord, StoreConstants
    <2> QED
      BY <2>1 DEF Record
  <1> HIDE DEF r
  <1>3. /\ held' \in [Content -> Nat]
        /\ \A d \in Content \ {c} : held'[d] = held[d]
        /\ held'[c] <= r.refs
        /\ held'[c] <= saved[c].refs \/ ok
    BY <1>1, <1>2, KnownRecord
  <1>4. records[c] # None \/ (c \in manifests /\ Cardinality(Catalogued) < MaxRecords)
    BY <1>1
  <1> QED
    BY <1>1, <1>2, <1>3, <1>4, Updated

\* release_reference: the caller gives its reference up, whatever the call returns.
LEMMA ReleaseKeeps ==
    ASSUME StoreInv, NEW c \in Content, NEW retain \in 0..MaxEpoch, NEW ok \in BOOLEAN,
           release_reference(c, retain, ok)
    PROVE  StoreInv'
  <1> DEFINE old == records[c]
             r == [old EXCEPT !.refs = LessRefs(old.refs),
                              !.retain = IF retain > old.retain THEN retain ELSE old.retain]
  <1>1. /\ records[c] # None /\ held[c] > 0
        /\ Update(c, r, ok) /\ UNCHANGED <<store, epoch>>
        /\ held' = [held EXCEPT ![c] = held[c] - 1]
    BY DEF release_reference
  <1>2. old \in Record(c) /\ old.refs > 0 /\ old.refs \in 0..MaxRefs
    BY <1>1, KnownRecord
  <1>3. LessRefs(old.refs) = old.refs - 1 /\ LessRefs(old.refs) \in 0..MaxRefs
    BY <1>2, StoreConstants DEF LessRefs
  <1>4. r \in Record(c) /\ r.refs = old.refs - 1
    BY <1>2, <1>3 DEF Record
  <1> HIDE DEF r
  <1>5. /\ held' \in [Content -> Nat]
        /\ \A d \in Content \ {c} : held'[d] = held[d]
        /\ held'[c] <= r.refs
        /\ held'[c] <= saved[c].refs \/ ok
    BY <1>1, <1>2, <1>4, KnownRecord
  <1>6. records[c] # None \/ (c \in manifests /\ Cardinality(Catalogued) < MaxRecords)
    BY <1>1
  <1> QED
    BY <1>1, <1>4, <1>5, <1>6, Updated

\* begin_upload, write_chunk and complete_upload.
LEMMA UploadKeeps ==
    ASSUME StoreInv, NEW c \in Content,
           begin_upload(c) \/ complete_upload(c) \/ \E k \in Chunk : write_chunk(c, k)
    PROVE  StoreInv'
  <1>0. /\ chunks \subseteq Chunk /\ uploads \subseteq Content /\ epoch \in Nat
        /\ ChunksOf[c] \subseteq Chunk
    BY StoreConstants DEF StoreInv
  <1>1. CASE begin_upload(c)
    <2>1. /\ manifests' = manifests \cup {} /\ stranded' = stranded \ {}
          /\ {} \in SUBSET Content /\ \A d \in {} : ChunksOf[d] \subseteq chunks'
      BY <1>1 DEF begin_upload
    <2>2. /\ UNCHANGED catalog /\ epoch' \in Nat /\ uploads' \subseteq Content
          /\ chunks \subseteq chunks' /\ chunks' \subseteq Chunk
      BY <1>0, <1>1 DEF begin_upload
    <2> QED
      BY <2>1, <2>2, StoredKeeps
  <1>2. CASE complete_upload(c)
    <2>1. /\ manifests' = manifests \cup {c} /\ stranded' = stranded \ {c}
          /\ {c} \in SUBSET Content /\ \A d \in {c} : ChunksOf[d] \subseteq chunks'
      BY <1>2 DEF complete_upload, Complete
    <2>2. /\ UNCHANGED catalog /\ epoch' \in Nat /\ uploads' \subseteq Content
          /\ chunks \subseteq chunks' /\ chunks' \subseteq Chunk
      BY <1>0, <1>2 DEF complete_upload
    <2> QED
      BY <2>1, <2>2, StoredKeeps
  <1>3. ASSUME NEW k \in Chunk, write_chunk(c, k) PROVE StoreInv'
    <2>1. /\ manifests' = manifests \cup {} /\ stranded' = stranded \ {}
          /\ {} \in SUBSET Content /\ \A d \in {} : ChunksOf[d] \subseteq chunks'
      BY <1>3 DEF write_chunk
    <2>2. /\ UNCHANGED catalog /\ epoch' \in Nat /\ uploads' \subseteq Content
          /\ chunks \subseteq chunks' /\ chunks' \subseteq Chunk
      BY <1>0, <1>3 DEF write_chunk
    <2> QED
      BY <2>1, <2>2, StoredKeeps
  <1> QED
    BY <1>1, <1>2, <1>3

\* The store and the catalog are as they should be initially.
LEMMA StoreInitially == StoreInit => StoreInv
  <1> SUFFICES ASSUME StoreInit PROVE StoreInv
    OBVIOUS
  <1>1. Entries(records) = {} /\ Entries(saved) = {}
    BY DEF StoreInit, Entries
  <1>2. Few(records) /\ Few(saved)
    BY <1>1, FS_EmptySet, StoreConstants DEF Few
  <1>3. Typed(records) /\ Typed(saved)
    BY DEF StoreInit, Typed, RecordOK
  <1>4. Counted(held, records) /\ Counted(held, saved)
    BY DEF StoreInit, Counted, None
  <1> QED
    BY <1>2, <1>3, <1>4 DEF StoreInit, StoreInv, CatalogInv, Kept, CommittedReadable

\* Every step of the store and the catalog keeps the invariant.
LEMMA StoreStep == StoreInv /\ [StoreNext]_cvars => StoreInv'
  <1> SUFFICES ASSUME StoreInv, [StoreNext]_cvars PROVE StoreInv'
    OBVIOUS
  <1>1. CASE reopen
    BY <1>1 DEF reopen, store, StoreInv, CommittedReadable, Readable
  <1>2. CASE NextEpoch
    <2>1. epoch' \in Nat
      BY <1>2 DEF NextEpoch, StoreInv
    <2> QED
      BY <1>2, <2>1 DEF NextEpoch, store, catalog, StoreInv, CommittedReadable, Readable
  <1>3. CASE UNCHANGED cvars
    BY <1>3 DEF cvars, store, catalog, StoreInv, CommittedReadable, Readable
  <1> QED
    BY <1>1, <1>2, <1>3, UploadKeeps, RegisterKeeps, ReplicaKeeps, AddKeeps, ReleaseKeeps,
       CollectKeeps, CollectStopsKeeps DEF StoreNext

-----------------------------------------------------------------------------
(* Checkpoints and plans.                                                    *)

\* put_bytes keeps the invariant of the store.
LEMMA PutKeeps ==
    ASSUME StoreInv, NEW c \in Content, PutBytes(c), UNCHANGED <<catalog, epoch>>
    PROVE  StoreInv'
  <1>0. /\ chunks \subseteq Chunk /\ uploads \subseteq Content /\ epoch \in Nat
        /\ ChunksOf[c] \subseteq Chunk
    BY StoreConstants DEF StoreInv
  <1>1. CASE c \in manifests
    <2>1. UNCHANGED <<chunks, uploads, manifests, stranded, records, saved, held, epoch>>
      BY <1>1 DEF PutBytes, store, catalog
    <2> QED
      BY <2>1 DEF StoreInv, CommittedReadable, Readable
  <1>2. CASE c \notin manifests
    <2>1. /\ manifests' = manifests \cup {c} /\ stranded' = stranded \ {c}
          /\ {c} \in SUBSET Content /\ \A d \in {c} : ChunksOf[d] \subseteq chunks'
      BY <1>2 DEF PutBytes
    <2>2. /\ UNCHANGED catalog /\ epoch' \in Nat /\ uploads' \subseteq Content
          /\ chunks \subseteq chunks' /\ chunks' \subseteq Chunk
      BY <1>0, <1>2 DEF PutBytes
    <2> QED
      BY <2>1, <2>2, StoredKeeps
  <1> QED
    BY <1>1, <1>2

\* A call within the budget leaves it within its limits.
LEMMA ChargedType ==
    ASSUME NEW c \in Content, WithinBudget(c),
           budget \in [uploaded : 0..MaxUploaded, operations : 0..MaxOperations]
    PROVE  Charged(c) \in [uploaded : 0..MaxUploaded, operations : 0..MaxOperations]
  <1>1. MissingBytes(c) \in Nat
    <2>1. IsFiniteSet(ChunksOf[c] \ chunks)
      BY StoreConstants, FS_Difference
    <2> QED
      BY <2>1, FS_CardinalityType DEF MissingBytes
  <1>2. MaxUploaded \in Nat /\ MaxOperations \in Nat
    BY RecoveryConstants
  <1>3. Uploaded(c) \in Nat /\ Uploaded(c) <= MissingBytes(c)
    BY <1>1 DEF Uploaded
  <1>4. budget.uploaded + Uploaded(c) \in 0..MaxUploaded /\ budget.operations + 1 \in 0..MaxOperations
    BY <1>1, <1>2, <1>3 DEF WithinBudget
  <1> QED
    BY <1>4 DEF Charged

\* CheckpointManager::persist keeps the invariant, whether or not the lineage is accepted.
LEMMA PersistKeeps ==
    ASSUME RecoveryInv, NEW c \in Checkpoint, NEW previous \in Previous, persist(c, previous)
    PROVE  RecoveryInv'
  <1>1. c \in Content
    BY RecoveryConstants
  <1>2. StoreInv'
    BY <1>1, PutKeeps DEF RecoveryInv, persist
  <1>3. budget' \in [uploaded : 0..MaxUploaded, operations : 0..MaxOperations]
    BY <1>1, ChargedType DEF RecoveryInv, persist
  <1>4. ASSUME NEW a \in artifacts' PROVE a.content \in Checkpoint /\ a.baseline \in Checkpoint
    <2>1. CASE a \in artifacts
      BY <2>1 DEF RecoveryInv
    <2>2. CASE a = Baseline(c)
      BY <2>2 DEF Baseline
    <2>3. ASSUME NEW p \in artifacts, a = After(c, p)
          PROVE  a.content \in Checkpoint /\ a.baseline \in Checkpoint
      BY <2>3 DEF After, RecoveryInv
    <2>4. previous = {} \/ \E p \in artifacts : previous = {p}
      BY DEF Previous
    <2>5. \/ artifacts' = artifacts
          \/ artifacts' = artifacts \cup {Baseline(c)}
          \/ \E p \in artifacts : artifacts' = artifacts \cup {After(c, p)}
      BY <2>4 DEF persist
    <2> QED
      BY <2>1, <2>2, <2>3, <2>5
  <1> QED
    BY <1>2, <1>3, <1>4 DEF RecoveryInv

\* The invariant of checkpoints, store and catalog holds in every reachable state.
LEMMA RecoveryInvariant == RecoverySpec => []RecoveryInv
  <1>1. RecoveryInit => RecoveryInv
    <2> SUFFICES ASSUME RecoveryInit PROVE RecoveryInv
      OBVIOUS
    <2>1. 0 \in 0..MaxUploaded /\ 0 \in 0..MaxOperations
      BY RecoveryConstants
    <2> QED
      BY <2>1, StoreInitially DEF RecoveryInit, RecoveryInv
  <1>2. RecoveryInv /\ [RecoveryNext]_<<cvars, rvars>> => RecoveryInv'
    <2> SUFFICES ASSUME RecoveryInv, [RecoveryNext]_<<cvars, rvars>> PROVE RecoveryInv'
      OBVIOUS
    <2>1. CASE StoreNext /\ UNCHANGED rvars
      BY <2>1, StoreStep DEF RecoveryInv, rvars
    <2>2. ASSUME NEW c \in Checkpoint, NEW previous \in Previous, persist(c, previous)
          PROVE  RecoveryInv'
      BY <2>2, PersistKeeps
    <2>3. CASE UNCHANGED <<cvars, rvars>>
      BY <2>3, StoreStep DEF RecoveryInv, rvars
    <2> QED
      BY <2>1, <2>2, <2>3 DEF RecoveryNext
  <1> QED
    BY <1>1, <1>2, PTL DEF RecoverySpec

\* The directories, the catalog within max_records, the references and the budget of
\* checkpoints keep their types in every reachable state.
THEOREM RecoveryTypeCorrect == RecoverySpec => []TypeOK
  <1>1. RecoveryInv => TypeOK
    <2> SUFFICES ASSUME RecoveryInv PROVE TypeOK
      OBVIOUS
    <2>1. Entries(records) = Catalogued
      BY DEF Entries, Catalogued
    <2>2. ASSUME NEW c \in Content PROVE held[c] \in 0..MaxRefs
      <3>1. records[c].refs \in 0..MaxRefs
        BY RefsType DEF RecoveryInv, StoreInv, CatalogInv, Typed
      <3>2. held[c] \in Nat /\ held[c] <= records[c].refs /\ MaxRefs \in Nat
        BY StoreConstants DEF RecoveryInv, StoreInv, CatalogInv, Counted
      <3> QED
        BY <3>1, <3>2
    <2>3. held \in [Content -> 0..MaxRefs]
      BY <2>2 DEF RecoveryInv, StoreInv
    <2>4. StoreTypeOK
      BY <2>1, <2>3 DEF RecoveryInv, StoreInv, CatalogInv, Few, Typed, StoreTypeOK
    <2> QED
      BY <2>4 DEF RecoveryInv, TypeOK
  <1> QED
    BY RecoveryInvariant, <1>1, PTL

\* Whatever was collected while a content was uploaded or afterwards, however far a
\* collection came and whatever write of the catalog failed: what the store has committed
\* it can read in whole.
THEOREM CommittedStaysReadable == RecoverySpec => []CommittedReadable
  <1>1. RecoveryInv => CommittedReadable
    BY DEF RecoveryInv, StoreInv
  <1> QED
    BY RecoveryInvariant, <1>1, PTL

\* A content that somebody refers to is in the store and in the catalog, in memory and
\* after a restart, unless a collection has removed it and failed to forget it.
THEOREM ReferencesKeepContents == RecoverySpec => []HeldStored
  <1>1. RecoveryInv => HeldStored
    <2> SUFFICES ASSUME RecoveryInv, NEW c \in Content, held[c] > 0
                 PROVE  /\ held[c] <= records[c].refs /\ held[c] <= saved[c].refs
                        /\ c \in stranded \/ Readable(c)
      BY DEF HeldStored
    <2>1. held[c] <= records[c].refs /\ held[c] <= saved[c].refs /\ held[c] \in Nat
      BY DEF RecoveryInv, StoreInv, CatalogInv, Counted
    <2>2. records[c] # None
      BY <2>1 DEF None
    <2>3. c \in manifests \cup stranded
      BY <2>2 DEF RecoveryInv, StoreInv, CatalogInv, Kept
    <2> QED
      BY <2>1, <2>3 DEF RecoveryInv, StoreInv, CommittedReadable
  <1> QED
    BY RecoveryInvariant, <1>1, PTL

=============================================================================
