---------------------------- MODULE AuditSegments ----------------------------
(***************************************************************************)
(* The segments of the audit log's events and the Merkle proofs over them.   *)
(* As in AuditLog, a hash is the data it is of.                              *)
(***************************************************************************)
EXTENDS AuditLog, FiniteSets

CONSTANT MaxPerSegment      \* max_audit_events_per_segment

ASSUME SegmentConstants == MaxPerSegment \in Nat \ {0}

\* build_segment: the hashes of the first MaxPerSegment events numbered `start` or more.
Leaves(start) ==
    LET from == {i \in DOMAIN events : events[i].sequence >= start}
        Place(i) == Cardinality({j \in from : j <= i})
        length == IF Cardinality(from) < MaxPerSegment THEN Cardinality(from) ELSE MaxPerSegment
    IN  [n \in 1..length |-> HashOf(events[CHOOSE i \in from : Place(i) = n])]

\* next_merkle_level: the last of an odd number is paired with itself.
NextLevel(level) ==
    [i \in 1..((Len(level) + 1) \div 2) |->
        <<level[2 * i - 1], IF 2 * i <= Len(level) THEN level[2 * i] ELSE level[2 * i - 1]>>]

\* merkle_root: `level` after every round of its loop, the number of rounds, and the root.
Levels(leaves) ==
    LET level[n \in 0..Len(leaves)] == IF n = 0 THEN leaves ELSE NextLevel(level[n - 1]) IN level

Rounds(leaves) ==
    LET levels == Levels(leaves)
    IN  CHOOSE n \in 0..Len(leaves) :
            Len(levels[n]) = 1 /\ \A m \in 0..(n - 1) : Len(levels[m]) # 1

MerkleRoot(leaves) == Levels(leaves)[Rounds(leaves)][1]

\* Defect: the sibling of the last of an odd number is the one before it.
SiblingBefore(length, i) == IF i % 2 = 1 /\ i < length THEN i + 1 ELSE i - 1

Sibling(length, i) == IF i % 2 = 1 THEN (IF i + 1 <= length THEN i + 1 ELSE length) ELSE i - 1

\* inclusion_proof: `current` after every round, and the siblings from the leaf up, each with
\* whether it is on the left.
Currents(leaves, i) ==
    LET current[n \in 0..Len(leaves)] == IF n = 0 THEN i ELSE (current[n - 1] + 1) \div 2 IN current

InclusionProof(leaves, i) ==
    LET levels == Levels(leaves)
        currents == Currents(leaves, i)
    IN  [n \in 1..Rounds(leaves) |->
            LET level == levels[n - 1]
                current == currents[n - 1]
                s == Sibling(Len(level), current)
            IN  [hash |-> level[s], left |-> s < current]]

\* verify_inclusion: the hash after every sibling; the last one is compared with the root.
Hashes(leaf, siblings) ==
    LET hash[n \in 0..Len(siblings)] ==
          IF n = 0 THEN leaf
          ELSE IF siblings[n].left THEN <<siblings[n].hash, hash[n - 1]>>
                                   ELSE <<hash[n - 1], siblings[n].hash>>
    IN  hash

VerifyInclusion(leaf, siblings, root) == Hashes(leaf, siblings)[Len(siblings)] = root

-----------------------------------------------------------------------------
(* Properties.                                                               *)

\* The proof of every event of a segment leads to its root, and leads there from
\* no other event, for segments of every length.
ProofsVerify ==
    \A start \in 1..Len(events) :
        LET leaves == Leaves(start)
            root == MerkleRoot(leaves)
        IN  \A i \in DOMAIN leaves :
               LET p == InclusionProof(leaves, i)
               IN  \A j \in DOMAIN leaves : VerifyInclusion(leaves[j], p, root) <=> i = j

=============================================================================
