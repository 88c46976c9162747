-------------------------- MODULE SchedulingProofs --------------------------
(***************************************************************************)
(* What the placement, the admission of a node and its budgets guarantee,    *)
(* for any cluster, any works and any limits.                                *)
(***************************************************************************)
EXTENDS Placement, NodeBudgets, Sums

-----------------------------------------------------------------------------
(* The admission: sums of what reservations need.                            *)

\* What a node may remember of a request.
Rsv == [work : Work, until : Nat, at : Nat]

Amount(R, s) == MapThenSumSet(LAMBDA r : Need[r.work][s], R)

NeedAt(s) == [r \in Rsv |-> Need[r.work][s]]

\* The amounts of the model are the sums that the module Sums is about.
LEMMA AmountIsSum ==
    ASSUME NEW R \in SUBSET Rsv, IsFiniteSet(R), NEW s \in Resource
    PROVE  Amount(R, s) = Sum(NeedAt(s), R)
  <1> DEFINE step(g, t) == IF t = {} THEN 0 ELSE Need[Chosen(t).work][s] + g[t \ {Chosen(t)}]
             G == CHOOSE g : g = [t \in SUBSET R |-> step(g, t)]
             H == CHOOSE g : g = [t \in SUBSET R |-> Unfolded(NeedAt(s), g, t)]
  <1>1. Amount(R, s) = G[R] /\ Sum(NeedAt(s), R) = H[R]
    BY SumIsValue DEF Amount, MapThenSumSet, MapThenFoldSet, Chosen
  <1>2. PICK h : h = [t \in SUBSET R |-> Unfolded(NeedAt(s), h, t)]
    BY SumFunctionExists
  <1>3. \A g, t : t \in SUBSET R => step(g, t) = Unfolded(NeedAt(s), g, t)
    BY DEF Chosen, Unfolded, NeedAt
  <1>4. h = [t \in SUBSET R |-> step(h, t)]
    BY <1>2, <1>3
  <1>5. H = [t \in SUBSET R |-> Unfolded(NeedAt(s), H, t)]
    BY <1>2
  <1>6. G = [t \in SUBSET R |-> step(G, t)]
    BY <1>4
  <1> HIDE DEF G, H, step
  <1>7. Solves(NeedAt(s), G, R)
    BY <1>3, <1>6 DEF Solves
  <1>8. Solves(NeedAt(s), H, R)
    BY <1>5 DEF Solves
  <1>9. R \subseteq R
    OBVIOUS
  <1>10. G[R] = H[R]
    BY <1>7, <1>8, <1>9, SumFunctionUnique
  <1> QED
    BY <1>1, <1>10

\* Amounts are numbers, those of a part are at most those of the whole, and one more
\* reservation adds what its work needs.
LEMMA Amounts ==
    ASSUME NEW R \in SUBSET Rsv, IsFiniteSet(R), NEW s \in Resource
    PROVE  /\ Amount(R, s) \in Nat
           /\ \A T \in SUBSET R : Amount(T, s) \in Nat /\ Amount(T, s) <= Amount(R, s)
           /\ \A r \in Rsv : /\ Need[r.work][s] \in Nat
                             /\ r \notin R => Amount(R \cup {r}, s) = Need[r.work][s] + Amount(R, s)
  <1>1. \A r \in Rsv : NeedAt(s)[r] = Need[r.work][s] /\ Need[r.work][s] \in Nat
    BY AdmissionConstants DEF NeedAt, Rsv
  <1>2. \A r \in Rsv : NeedAt(s)[r] \in Nat
    BY <1>1
  <1>3. \A T \in SUBSET R : T \in SUBSET Rsv /\ IsFiniteSet(T)
    BY FS_Subset
  <1>4. \A T \in SUBSET R : Amount(T, s) = Sum(NeedAt(s), T)
    BY <1>3, AmountIsSum
  <1>5. \A T \in SUBSET R : Sum(NeedAt(s), T) \in Nat
    BY <1>2, <1>3, SumType
  <1>6. \A T \in SUBSET R : Sum(NeedAt(s), T) <= Sum(NeedAt(s), R)
    BY <1>2, SumMonotone
  <1>7. ASSUME NEW r \in Rsv, r \notin R
        PROVE  Amount(R \cup {r}, s) = Need[r.work][s] + Amount(R, s)
    <2>1. IsFiniteSet(R \cup {r}) /\ R \cup {r} \in SUBSET Rsv
      BY FS_AddElement
    <2>2. Amount(R \cup {r}, s) = Sum(NeedAt(s), R \cup {r})
      BY <2>1, AmountIsSum
    <2>3. \A x \in R \cup {r} : NeedAt(s)[x] \in Nat
      BY <1>2
    <2>4. Sum(NeedAt(s), R \cup {r}) = NeedAt(s)[r] + Sum(NeedAt(s), R)
      BY <1>7, <2>3, SumAdd
    <2> QED
      BY <1>1, <1>4, <2>2, <2>4
  <1> QED
    BY <1>1, <1>4, <1>5, <1>6, <1>7

-----------------------------------------------------------------------------
(* The inductive invariant of the placement.                                 *)

Candidates == {c \in [node : Node, version : Nat] : c.version \in Version(c.node)}

Seen == {u \in [node : Node, capability : Nat, resource : Nat] :
            u.capability \in Version(u.node) /\ u.resource \in Version(u.node)}

AdmissionTypeOK ==
    /\ now \in Nat
    /\ capability \in [Node -> Nat] /\ resource \in [Node -> Nat]
    /\ \A n \in Node : capability[n] \in Version(n) /\ resource[n] \in Version(n)
    /\ reserved \in [Node -> SUBSET Rsv]
    /\ \A n \in Node : IsFiniteSet(reserved[n])

PlacementTypeOK ==
    /\ sent \subseteq Seen
    /\ nodes \in [Node -> [capability : Nat, resource : Nat]]
    /\ \A n \in Known : nodes[n].capability \in Version(n) /\ nodes[n].resource \in Version(n)
    /\ by_key \in [Key -> SUBSET Node]
    /\ plan \in [Work -> Seq(Candidates)]

\* Every candidate of a plan had the keys of the work at the version that it is asked for.
PlansCapable ==
    \A w \in Work : \A i \in DOMAIN plan[w] :
        Requires[w] \subseteq Provides[plan[w][i].node][plan[w][i].version]

\* LocalReserveKept, of one node and one resource.
Within(n, s, R) ==
    /\ Amount(R, s) <= Total[s]
    /\ Amount({r \in R : IsRemote(n, r.work)}, s) <= Total[s] - ReservedLocal[s]

ReserveKept == \A n \in Node, s \in Resource : Within(n, s, reserved[n])

PlacementInv ==
    /\ AdmissionTypeOK
    /\ PlacementTypeOK
    /\ IndexExact
    /\ PlansCapable
    /\ AdmittedCapable
    /\ ReserveKept

\* The initial states satisfy the invariant.
LEMMA PlacementInvInit == Init => PlacementInv
  <1> SUFFICES ASSUME Init PROVE PlacementInv
    OBVIOUS
  <1> USE DEF Init, AdmissionInit
  <1>0. \A n \in Node : 1 \in Version(n)
    BY AdmissionConstants DEF Version
  <1>1. AdmissionTypeOK
    BY <1>0, FS_EmptySet DEF AdmissionTypeOK
  <1>2. Known = {}
    BY DEF Known, Unknown
  <1>3. PlacementTypeOK
    <2>1. sent \subseteq Seen
      BY <1>0 DEF Seen, Snapshot
    <2> QED
      BY <1>2, <2>1 DEF PlacementTypeOK, Unknown
  <1>4. IndexExact
    BY <1>2 DEF IndexExact
  <1>5. PlansCapable /\ AdmittedCapable
    BY DEF PlansCapable, AdmittedCapable
  <1>6. ReserveKept
    <2> SUFFICES ASSUME NEW n \in Node, NEW s \in Resource PROVE Within(n, s, {})
      BY DEF ReserveKept
    <2>1. {} \in SUBSET Rsv /\ IsFiniteSet({}) /\ NeedAt(s) = NeedAt(s)
      BY FS_EmptySet
    <2>2. Amount({}, s) = Sum(NeedAt(s), {})
      BY <2>1, AmountIsSum
    <2>3. Sum(NeedAt(s), {}) = 0
      BY <2>1, SumUnfolds
    <2>4. {r \in {} : IsRemote(n, r.work)} = {}
      OBVIOUS
    <2>5. Total[s] \in Nat /\ ReservedLocal[s] \in 0..Total[s]
      BY AdmissionConstants
    <2>6. Amount({r \in {} : IsRemote(n, r.work)}, s) = 0
      BY <2>2, <2>3, <2>4
    <2> QED
      BY <2>2, <2>3, <2>5, <2>6 DEF Within
  <1> QED
    BY <1>1, <1>3, <1>4, <1>5, <1>6 DEF PlacementInv

\* Limits that hold of the same reservations still hold.
LEMMA ReserveUnchanged ==
    ASSUME ReserveKept, reserved' = reserved
    PROVE  ReserveKept'
  <1> SUFFICES ASSUME NEW n \in Node, NEW s \in Resource PROVE Within(n, s, reserved'[n])
    BY DEF ReserveKept
  <1> QED
    BY DEF ReserveKept

\* Fewer reservations stay within the limits.
LEMMA FewerWithin ==
    ASSUME NEW n \in Node, NEW s \in Resource, NEW R \in SUBSET Rsv, IsFiniteSet(R),
           Within(n, s, R), NEW T \in SUBSET R
    PROVE  Within(n, s, T)
  <1> DEFINE remote(X) == {r \in X : IsRemote(n, r.work)}
  <1>1. Amount(T, s) \in Nat /\ Amount(R, s) \in Nat /\ Amount(T, s) <= Amount(R, s)
    BY Amounts
  <1>2. /\ remote(R) \in SUBSET Rsv /\ IsFiniteSet(remote(R))
        /\ remote(T) \in SUBSET remote(R)
    BY FS_Subset
  <1> HIDE DEF remote
  <1>3. /\ Amount(remote(T), s) \in Nat /\ Amount(remote(R), s) \in Nat
        /\ Amount(remote(T), s) <= Amount(remote(R), s)
    BY <1>2, Amounts
  <1>4. Total[s] \in Nat /\ ReservedLocal[s] \in Nat
    BY AdmissionConstants
  <1>5. Amount(R, s) <= Total[s] /\ Amount(remote(R), s) <= Total[s] - ReservedLocal[s]
    BY DEF Within, remote
  <1>6. Amount(T, s) <= Total[s] /\ Amount(remote(T), s) <= Total[s] - ReservedLocal[s]
    BY <1>1, <1>3, <1>4, <1>5
  <1> QED
    BY <1>6 DEF Within, remote

\* The action admit keeps the limits: the sums are those of what has not expired, less
\* the reservation that is replaced, and the new one fits by the guard.
LEMMA AdmitWithin ==
    ASSUME AdmissionTypeOK, ReserveKept, NEW n \in Node, NEW w \in Work, NEW v \in Nat,
           NEW u \in Nat, Accepts(n, Request(w, v, u)), NEW s \in Resource
    PROVE  Within(n, s, {r \in Unexpired(n) : r.work # w} \cup {Reservation(n, Request(w, v, u))})
  <1> DEFINE q == Request(w, v, u)
             new == Reservation(n, q)
             K == {r \in Unexpired(n) : r.work # w}
             remote(X) == {r \in X : IsRemote(n, r.work)}
  <1>1. /\ reserved[n] \in SUBSET Rsv /\ IsFiniteSet(reserved[n])
        /\ Unexpired(n) \in SUBSET reserved[n] /\ K \in SUBSET Unexpired(n)
    BY DEF AdmissionTypeOK, Unexpired
  <1>2. new \in Rsv /\ new.work = w /\ q.work = w
    BY DEF AdmissionTypeOK, Reservation, Request, Rsv
  <1>3. new \notin K
    BY <1>2
  <1>4. /\ Unexpired(n) \in SUBSET Rsv /\ IsFiniteSet(Unexpired(n))
        /\ K \in SUBSET Rsv /\ IsFiniteSet(K) /\ K \in SUBSET reserved[n]
    BY <1>1, FS_Subset
  <1>5. Used(n, s) = Amount(Unexpired(n), s)
    BY DEF Used, Amount
  <1>6. Amount(Unexpired(n), s) + Need[w][s] <= Limit(n, w, s)
    BY <1>2, <1>5 DEF Accepts
  <1>7. /\ Amount(K, s) \in Nat /\ Amount(Unexpired(n), s) \in Nat
        /\ Amount(K, s) <= Amount(Unexpired(n), s)
    BY <1>1, <1>4, Amounts
  <1>8. Need[w][s] \in Nat /\ Amount(K \cup {new}, s) = Need[w][s] + Amount(K, s)
    BY <1>2, <1>3, <1>4, Amounts
  <1>9. Total[s] \in Nat /\ ReservedLocal[s] \in Nat
    BY AdmissionConstants
  <1>10. /\ K \cup {new} \in SUBSET Rsv /\ IsFiniteSet(K \cup {new})
         /\ remote(K \cup {new}) \in SUBSET (K \cup {new})
    BY <1>2, <1>4, FS_AddElement
  <1>11. /\ Amount(remote(K \cup {new}), s) \in Nat
         /\ Amount(remote(K \cup {new}), s) <= Amount(K \cup {new}, s)
    BY <1>10, Amounts
  <1> HIDE DEF K, new, q
  <1>12. CASE IsRemote(n, w)
    <2>1. Limit(n, w, s) = Total[s] - ReservedLocal[s]
      BY <1>12 DEF Limit
    <2>2. /\ Amount(K \cup {new}, s) <= Total[s]
          /\ Amount(remote(K \cup {new}), s) <= Total[s] - ReservedLocal[s]
      <3> HIDE DEF remote
      <3> QED
        BY <1>6, <1>7, <1>8, <1>9, <1>11, <2>1
    <2> QED
      BY <2>2 DEF Within, K, new, q
  <1>13. CASE ~IsRemote(n, w)
    <2>1. Limit(n, w, s) = Total[s]
      BY <1>9, <1>13 DEF Limit
    <2>2. Amount(K \cup {new}, s) <= Total[s]
      BY <1>6, <1>7, <1>8, <1>9, <2>1
    <2>3. remote(K \cup {new}) = remote(K)
      BY <1>2, <1>13
    <2>4. Within(n, s, reserved[n])
      BY DEF ReserveKept
    <2>5. Within(n, s, K)
      BY <1>1, <1>4, <2>4, FewerWithin
    <2>6. Amount(remote(K), s) <= Total[s] - ReservedLocal[s]
      BY <2>5 DEF Within
    <2>7. Amount(remote(K \cup {new}), s) <= Total[s] - ReservedLocal[s]
      <3> HIDE DEF remote
      <3> QED
        BY <2>3, <2>6
    <2> QED
      BY <2>2, <2>7 DEF Within, K, new, q
  <1> QED
    BY <1>12, <1>13

\* A snapshot that is not older replaces what the index has of its node, and of no other.
LEMMA UpdateKeeps ==
    ASSUME PlacementInv, NEW u \in sent, update_node(u)
    PROVE  PlacementInv'
  <1> USE DEF PlacementInv
  <1>1. /\ u.node \in Node /\ u.capability \in Nat /\ u.resource \in Nat
        /\ u.capability \in Version(u.node) /\ u.resource \in Version(u.node)
    BY DEF PlacementTypeOK, Seen
  <1>2. u.capability # 0
    BY <1>1, AdmissionConstants DEF Version
  <1>3. /\ nodes' = [nodes EXCEPT ![u.node] = [capability |-> u.capability, resource |-> u.resource]]
        /\ nodes' \in [Node -> [capability : Nat, resource : Nat]]
        /\ nodes'[u.node].capability = u.capability /\ nodes'[u.node].resource = u.resource
        /\ \A n \in Node \ {u.node} : nodes'[n] = nodes[n]
    BY <1>1 DEF update_node, PlacementTypeOK
  <1>4. Known' = Known \cup {u.node}
    BY <1>1, <1>2, <1>3 DEF Known, Unknown
  <1>5. AdmissionTypeOK' /\ AdmittedCapable' /\ PlansCapable' /\ ReserveKept'
    BY ReserveUnchanged DEF update_node, avars, AdmissionTypeOK, AdmittedCapable, PlansCapable
  <1>6. ASSUME NEW k \in Key
        PROVE  by_key'[k] = {n \in Known' : k \in Provides[n][nodes'[n].capability]}
    <2>1. by_key'[k] = (by_key[k] \ (IF k \in KeysOf(u.node, nodes[u.node]) THEN {u.node} ELSE {}))
                         \cup (IF k \in Provides[u.node][u.capability] THEN {u.node} ELSE {})
      BY DEF update_node, Reindexed
    <2>2. by_key[k] = {n \in Known : k \in Provides[n][nodes[n].capability]}
      BY DEF IndexExact
    <2>3. u.node \in by_key[k] => k \in KeysOf(u.node, nodes[u.node])
      BY <2>2 DEF KeysOf, Known
    <2>4. ASSUME NEW n \in Node
          PROVE  n \in by_key'[k] <=> n \in Known' /\ k \in Provides[n][nodes'[n].capability]
      <3>1. CASE n = u.node
        BY <1>3, <1>4, <2>1, <2>3, <3>1
      <3>2. CASE n # u.node
        BY <1>3, <1>4, <2>1, <2>2, <3>2
      <3> QED
        BY <3>1, <3>2
    <2>5. by_key'[k] \subseteq Node
      BY <1>1, <2>1, <2>2 DEF Known
    <2> QED
      BY <2>4, <2>5 DEF Known
  <1>7. IndexExact'
    BY <1>6 DEF IndexExact
  <1>8. PlacementTypeOK'
    <2>1. by_key' \in [Key -> SUBSET Node]
      <3>1. by_key' = [k \in Key |-> by_key'[k]]
        BY DEF update_node, Reindexed
      <3>2. \A k \in Key : by_key'[k] \subseteq Node
        BY <1>6 DEF Known
      <3> QED
        BY <3>1, <3>2
    <2>2. \A n \in Known' : nodes'[n].capability \in Version(n) /\ nodes'[n].resource \in Version(n)
      BY <1>1, <1>3, <1>4 DEF PlacementTypeOK, Known
    <2> QED
      BY <1>3, <2>1, <2>2 DEF PlacementTypeOK, update_node
  <1> QED
    BY <1>5, <1>7, <1>8

\* A plan has candidates that pass the hard filters, with the versions they pass them at.
LEMMA ScheduleKeeps ==
    ASSUME PlacementInv, NEW w \in Work, schedule(w)
    PROVE  PlacementInv'
  <1> USE DEF PlacementInv
  <1>0. PICK some \in SUBSET Placeable(w) \ {{}} : \E order \in SetToSeqs(some) :
            plan' = [plan EXCEPT ![w] = [i \in DOMAIN order |-> Candidate(order[i])]]
    BY DEF schedule
  <1>1. PICK order \in SetToSeqs(some) :
            plan' = [plan EXCEPT ![w] = [i \in DOMAIN order |-> Candidate(order[i])]]
    BY <1>0
  <1>2. \A n \in some : /\ n \in Known /\ n \in Node
                        /\ Requires[w] \subseteq Provides[n][nodes[n].capability]
    BY DEF Placeable, Coarse, CandidateIds, HardNodeFilter, Known
  <1>3. Cardinality(some) \in Nat
    BY <1>2, AdmissionConstants, FS_Subset, FS_CardinalityType
  <1>4. order \in [1..Cardinality(some) -> some]
    BY DEF SetToSeqs
  <1> DEFINE p == [i \in DOMAIN order |-> Candidate(order[i])]
  <1>5. \A n \in some : Candidate(n) \in Candidates
    BY <1>2 DEF Candidate, Candidates, PlacementTypeOK
  <1>6. p \in Seq(Candidates) /\ DOMAIN p = DOMAIN order
    BY <1>3, <1>4, <1>5
  <1>7. \A i \in DOMAIN p : Requires[w] \subseteq Provides[p[i].node][p[i].version]
    BY <1>2, <1>4 DEF Candidate
  <1>8. plan' = [plan EXCEPT ![w] = p]
    BY <1>1
  <1> HIDE DEF p
  <1>9. PlansCapable'
    <2> SUFFICES ASSUME NEW x \in Work, NEW i \in DOMAIN plan'[x]
                 PROVE  Requires[x] \subseteq Provides[plan'[x][i].node][plan'[x][i].version]
      BY DEF PlansCapable
    <2>1. plan'[w] = p /\ \A y \in Work \ {w} : plan'[y] = plan[y]
      BY <1>8 DEF PlacementTypeOK
    <2>2. CASE x = w
      BY <1>7, <2>1, <2>2
    <2>3. CASE x # w
      BY <2>1, <2>3 DEF PlansCapable
    <2> QED
      BY <2>2, <2>3
  <1>10. PlacementTypeOK'
    BY <1>6, <1>8 DEF PlacementTypeOK, schedule, Known
  <1> QED
    BY <1>9, <1>10, ReserveUnchanged
       DEF schedule, avars, AdmissionTypeOK, IndexExact, Known, AdmittedCapable

\* A node that is asked remembers the request only at the version that the plan was made for.
LEMMA AskKeeps ==
    ASSUME PlacementInv, NEW w \in Work, Ask(w)
    PROVE  PlacementInv'
  <1> USE DEF PlacementInv
  <1> DEFINE c == Head(plan[w])
             n == c.node
             q == Request(w, c.version, now + Validity)
             K == {r \in Unexpired(n) : r.work # w}
             R == IF Accepts(n, q) THEN K \cup {Reservation(n, q)} ELSE Unexpired(n)
  <1>1. plan[w] # <<>> /\ plan[w] \in Seq(Candidates) /\ c = plan[w][1] /\ 1 \in DOMAIN plan[w]
    BY DEF Ask, PlacementTypeOK
  <1>2. c \in Candidates /\ Requires[w] \subseteq Provides[n][c.version]
    BY <1>1 DEF PlansCapable
  <1>3. n \in Node /\ c.version \in Nat
    BY <1>2 DEF Candidates
  <1>4. /\ q.work = w /\ q.version = c.version /\ q.until = now + Validity
        /\ now + Validity \in Nat
    BY AdmissionConstants DEF Request, AdmissionTypeOK
  <1>5. reserved' = [reserved EXCEPT ![n] = R]
    BY <1>4 DEF Ask, admit
  <1>6. Unexpired(n) \in SUBSET reserved[n] /\ K \in SUBSET reserved[n]
    BY DEF Unexpired
  <1>7. reserved[n] \in SUBSET Rsv /\ IsFiniteSet(reserved[n])
    BY <1>3 DEF AdmissionTypeOK
  <1>8. Reservation(n, q) \in Rsv /\ Reservation(n, q).work = w /\ Reservation(n, q).at = capability[n]
    BY <1>3, <1>4 DEF Reservation, Rsv, AdmissionTypeOK
  <1>9. R \in SUBSET Rsv /\ IsFiniteSet(R)
    <2>1. K \in SUBSET Rsv /\ IsFiniteSet(K) /\ Unexpired(n) \in SUBSET Rsv /\ IsFiniteSet(Unexpired(n))
      BY <1>6, <1>7, FS_Subset
    <2>2. IsFiniteSet(K \cup {Reservation(n, q)})
      BY <2>1, FS_AddElement
    <2> QED
      BY <1>8, <2>1, <2>2
  <1>10. \A r \in R : Requires[r.work] \subseteq Provides[n][r.at]
    <2>1. \A r \in reserved[n] : Requires[r.work] \subseteq Provides[n][r.at]
      BY <1>3 DEF AdmittedCapable
    <2>2. Accepts(n, q) => Requires[w] \subseteq Provides[n][capability[n]]
      BY <1>2, <1>4 DEF Accepts, VersionMatches
    <2> QED
      BY <1>6, <1>8, <2>1, <2>2
  <1>11. ASSUME NEW s \in Resource PROVE Within(n, s, R)
    <2>1. CASE Accepts(n, q)
      <3>1. Within(n, s, K \cup {Reservation(n, q)})
        BY <1>3, <1>4, <2>1, AdmitWithin
      <3> QED
        BY <2>1, <3>1
    <2>2. CASE ~Accepts(n, q)
      <3>1. Within(n, s, reserved[n])
        BY <1>3 DEF ReserveKept
      <3>2. Within(n, s, Unexpired(n))
        BY <1>3, <1>6, <1>7, <3>1, FewerWithin
      <3> QED
        BY <2>2, <3>2
    <2> QED
      BY <2>1, <2>2
  <1>12. plan' = [plan EXCEPT ![w] = IF Accepts(n, q) THEN <<>> ELSE Tail(@)]
    BY DEF Ask
  <1>13. UNCHANGED <<now, capability, resource, sent, nodes, by_key>>
    BY DEF Ask
  <1> HIDE DEF R, K, q, c
  <1>14. reserved' \in [Node -> SUBSET Rsv] /\ reserved'[n] = R /\ \A m \in Node \ {n} : reserved'[m] = reserved[m]
    BY <1>3, <1>5, <1>9 DEF AdmissionTypeOK
  <1>15. AdmissionTypeOK'
    BY <1>9, <1>13, <1>14 DEF AdmissionTypeOK
  <1>16. AdmittedCapable'
    <2> SUFFICES ASSUME NEW m \in Node, NEW r \in reserved'[m]
                 PROVE  Requires[r.work] \subseteq Provides[m][r.at]
      BY DEF AdmittedCapable
    <2>1. CASE m = n
      BY <1>10, <1>14, <2>1
    <2>2. CASE m # n
      BY <1>14, <2>2 DEF AdmittedCapable
    <2> QED
      BY <2>1, <2>2
  <1>17. ReserveKept'
    <2> SUFFICES ASSUME NEW m \in Node, NEW s \in Resource PROVE Within(m, s, reserved'[m])
      BY DEF ReserveKept
    <2>1. CASE m = n
      BY <1>11, <1>14, <2>1
    <2>2. CASE m # n
      BY <1>14, <2>2 DEF ReserveKept
    <2> QED
      BY <2>1, <2>2
  <1>18. \A x \in Work : /\ plan'[x] \in Seq(Candidates)
                         /\ \A i \in DOMAIN plan'[x] :
                               Requires[x] \subseteq Provides[plan'[x][i].node][plan'[x][i].version]
    <2> SUFFICES ASSUME NEW x \in Work
                 PROVE  /\ plan'[x] \in Seq(Candidates)
                        /\ \A i \in DOMAIN plan'[x] :
                              Requires[x] \subseteq Provides[plan'[x][i].node][plan'[x][i].version]
      OBVIOUS
    <2>1. plan[x] \in Seq(Candidates)
      BY DEF PlacementTypeOK
    <2>2. \A i \in DOMAIN plan[x] : Requires[x] \subseteq Provides[plan[x][i].node][plan[x][i].version]
      BY DEF PlansCapable
    <2>3. CASE plan'[x] = plan[x]
      BY <2>1, <2>2, <2>3
    <2>4. CASE plan'[x] = <<>>
      BY <2>4
    <2>5. CASE x = w /\ plan'[x] = Tail(plan[x])
      <3>1. Tail(plan[x]) \in Seq(Candidates)
        BY <1>1, <2>1, <2>5
      <3>2. \A i \in DOMAIN Tail(plan[x]) : i + 1 \in DOMAIN plan[x] /\ Tail(plan[x])[i] = plan[x][i + 1]
        BY <1>1, <2>1, <2>5
      <3> QED
        BY <2>2, <2>5, <3>1, <3>2
    <2> QED
      BY <1>12, <2>3, <2>4, <2>5 DEF PlacementTypeOK
  <1>19. PlacementTypeOK'
    <2>1. plan' = [x \in Work |-> plan'[x]]
      BY <1>12 DEF PlacementTypeOK
    <2>2. plan' \in [Work -> Seq(Candidates)]
      BY <1>18, <2>1
    <2> QED
      BY <1>13, <2>2 DEF PlacementTypeOK, Known
  <1> QED
    BY <1>13, <1>15, <1>16, <1>17, <1>18, <1>19 DEF IndexExact, Known, PlansCapable

\* Reservations that are released or expire leave fewer.
LEMMA FewerKeep ==
    ASSUME PlacementInv, UNCHANGED <<pvars, now, capability, resource>>, NEW n \in Node,
           NEW T \in SUBSET reserved[n], reserved' = [reserved EXCEPT ![n] = T]
    PROVE  PlacementInv'
  <1> USE DEF PlacementInv, pvars
  <1>1. reserved[n] \in SUBSET Rsv /\ IsFiniteSet(reserved[n])
    BY DEF AdmissionTypeOK
  <1>2. /\ reserved' \in [Node -> SUBSET Rsv] /\ reserved'[n] = T
        /\ \A m \in Node \ {n} : reserved'[m] = reserved[m]
    BY <1>1 DEF AdmissionTypeOK
  <1>3. AdmissionTypeOK'
    BY <1>1, <1>2, FS_Subset DEF AdmissionTypeOK
  <1>4. AdmittedCapable'
    <2> SUFFICES ASSUME NEW m \in Node, NEW r \in reserved'[m]
                 PROVE  Requires[r.work] \subseteq Provides[m][r.at]
      BY DEF AdmittedCapable
    <2>1. r \in reserved[m]
      BY <1>2
    <2> QED
      BY <2>1 DEF AdmittedCapable
  <1>5. ReserveKept'
    <2> SUFFICES ASSUME NEW m \in Node, NEW s \in Resource PROVE Within(m, s, reserved'[m])
      BY DEF ReserveKept
    <2>1. CASE m = n
      <3>1. Within(n, s, reserved[n])
        BY DEF ReserveKept
      <3>2. Within(n, s, T)
        BY <1>1, <3>1, FewerWithin
      <3> QED
        BY <1>2, <2>1, <3>2
    <2>2. CASE m # n
      BY <1>2, <2>2 DEF ReserveKept
    <2> QED
      BY <2>1, <2>2
  <1> QED
    BY <1>3, <1>4, <1>5 DEF PlacementTypeOK, IndexExact, Known, PlansCapable

\* A node that changes sends a snapshot of its new state.
LEMMA ChangesKeep ==
    ASSUME PlacementInv, NEW n \in Node, NodeChanges(n)
    PROVE  PlacementInv'
  <1> USE DEF PlacementInv
  <1>1. MaxVersion[n] \in Nat /\ capability[n] \in 1..MaxVersion[n] /\ resource[n] \in 1..MaxVersion[n]
    BY AdmissionConstants DEF AdmissionTypeOK, Version
  <1>2. /\ capability' \in [Node -> Nat] /\ resource' \in [Node -> Nat]
        /\ \A m \in Node : capability'[m] \in Version(m) /\ resource'[m] \in Version(m)
    <2>1. CASE /\ capability[n] < MaxVersion[n] /\ capability' = [capability EXCEPT ![n] = @ + 1]
               /\ resource' = resource
      BY <1>1, <2>1 DEF AdmissionTypeOK, Version
    <2>2. CASE /\ resource[n] < MaxVersion[n] /\ resource' = [resource EXCEPT ![n] = @ + 1]
               /\ capability' = capability
      BY <1>1, <2>2 DEF AdmissionTypeOK, Version
    <2> QED
      BY <2>1, <2>2 DEF NodeChanges, update_local_state
  <1>3. UNCHANGED <<now, reserved, nodes, by_key, plan>>
    BY DEF NodeChanges, update_local_state
  <1>4. sent' \subseteq Seen
    BY <1>2 DEF NodeChanges, Seen, PlacementTypeOK
  <1> QED
    BY <1>2, <1>3, <1>4, ReserveUnchanged
       DEF AdmissionTypeOK, PlacementTypeOK, IndexExact, Known, PlansCapable, AdmittedCapable

\* Every step keeps the invariant.
LEMMA PlacementInvStep == PlacementInv /\ [Next]_vars => PlacementInv'
  <1> SUFFICES ASSUME PlacementInv, [Next]_vars PROVE PlacementInv'
    OBVIOUS
  <1>1. ASSUME NEW u \in sent, update_node(u) PROVE PlacementInv'
    BY <1>1, UpdateKeeps
  <1>2. ASSUME NEW w \in Work, schedule(w) PROVE PlacementInv'
    BY <1>2, ScheduleKeeps
  <1>3. ASSUME NEW w \in Work, Ask(w) PROVE PlacementInv'
    BY <1>3, AskKeeps
  <1>4. ASSUME NEW n \in Node, NodeChanges(n) PROVE PlacementInv'
    BY <1>4, ChangesKeep
  <1>5. ASSUME NEW n \in Node, NEW w \in Work, release(n, w), UNCHANGED pvars PROVE PlacementInv'
    <2> DEFINE T == {r \in reserved[n] : r.work # w}
    <2>1. reserved' = [reserved EXCEPT ![n] = T] /\ T \in SUBSET reserved[n]
      BY <1>5 DEF release
    <2>2. UNCHANGED <<pvars, now, capability, resource>>
      BY <1>5 DEF release
    <2> HIDE DEF T
    <2> QED
      BY <2>1, <2>2, FewerKeep
  <1>6. ASSUME NEW n \in Node, expire(n), UNCHANGED pvars PROVE PlacementInv'
    <2>1. reserved' = [reserved EXCEPT ![n] = Unexpired(n)] /\ Unexpired(n) \in SUBSET reserved[n]
      BY <1>6 DEF expire, Unexpired
    <2>2. UNCHANGED <<pvars, now, capability, resource>>
      BY <1>6 DEF expire
    <2> QED
      BY <2>1, <2>2, FewerKeep
  <1>7. ASSUME Tick, UNCHANGED pvars PROVE PlacementInv'
    BY <1>7, ReserveUnchanged
       DEF PlacementInv, Tick, pvars, AdmissionTypeOK, PlacementTypeOK, IndexExact, Known, PlansCapable,
           AdmittedCapable
  <1>8. CASE UNCHANGED vars
    BY <1>8, ReserveUnchanged
       DEF PlacementInv, vars, avars, pvars, AdmissionTypeOK, PlacementTypeOK, IndexExact, Known,
           PlansCapable, AdmittedCapable
  <1> QED
    BY <1>1, <1>2, <1>3, <1>4, <1>5, <1>6, <1>7, <1>8 DEF Next

\* The invariant holds in every reachable state.
LEMMA PlacementInvariant == Spec => []PlacementInv
  BY PlacementInvInit, PlacementInvStep, PTL DEF Spec

\* No step puts a plan ahead of what the scheduler knows of its nodes.
LEMMA NotAheadStep ==
    ASSUME PlacementInv, PlansNotAhead, [Next]_vars
    PROVE  PlansNotAhead'
  <1>1. PlacementTypeOK
    BY DEF PlacementInv
  <1>2. \A w \in Work : plan[w] \in Seq(Candidates)
    BY <1>1 DEF PlacementTypeOK
  <1>3. \A n \in Node : nodes[n].capability \in Nat
    BY <1>1 DEF PlacementTypeOK
  <1>4. ASSUME NEW s \in sent, update_node(s) PROVE PlansNotAhead'
    <2> SUFFICES ASSUME NEW w \in Work, NEW i \in DOMAIN plan[w]
                 PROVE  plan[w][i].version <= nodes'[plan[w][i].node].capability
      BY <1>4 DEF PlansNotAhead, update_node
    <2>1. plan[w][i] \in Candidates
      BY <1>2
    <2>2. PICK n \in Node : n = plan[w][i].node
      BY <2>1 DEF Candidates
    <2>3. plan[w][i].version \in Nat /\ plan[w][i].version <= nodes[n].capability
      BY <2>1, <2>2 DEF Candidates, PlansNotAhead
    <2>4. s.node \in Node /\ s.capability \in Nat
      BY <1>1 DEF PlacementTypeOK, Seen
    <2>5. nodes[s.node].capability <= s.capability
      BY <1>3, <1>4, <2>4 DEF update_node, Stale
    <2>6. nodes' = [nodes EXCEPT ![s.node] = [capability |-> s.capability, resource |-> s.resource]]
      BY <1>4 DEF update_node
    <2>7. CASE n = s.node
      <3>1. nodes'[n].capability = s.capability
        BY <1>1, <2>6, <2>7 DEF PlacementTypeOK
      <3> QED
        BY <1>3, <2>2, <2>3, <2>4, <2>5, <2>7, <3>1
    <2>8. CASE n # s.node
      <3>1. nodes'[n] = nodes[n]
        BY <1>1, <2>2, <2>6, <2>8 DEF PlacementTypeOK
      <3> QED
        BY <2>2, <2>3, <3>1
    <2> QED
      BY <2>7, <2>8
  <1>5. ASSUME NEW w \in Work, schedule(w) PROVE PlansNotAhead'
    <2>1. PICK some \in SUBSET Placeable(w) : \E order \in SetToSeqs(some) :
              plan' = [plan EXCEPT ![w] = [i \in DOMAIN order |-> Candidate(order[i])]]
      BY <1>5 DEF schedule
    <2>2. PICK order \in SetToSeqs(some) :
              plan' = [plan EXCEPT ![w] = [i \in DOMAIN order |-> Candidate(order[i])]]
      BY <2>1
    <2>3. order \in [1..Cardinality(some) -> some]
      BY DEF SetToSeqs
    <2>4. \A n \in some : n \in Node
      BY DEF Placeable, Coarse, CandidateIds, Known
    <2> DEFINE p == [i \in DOMAIN order |-> Candidate(order[i])]
    <2>5. \A i \in DOMAIN p : p[i].version = nodes[p[i].node].capability /\ p[i].node \in Node
      BY <2>3, <2>4 DEF Candidate
    <2>6. plan' = [plan EXCEPT ![w] = p]
      BY <2>2
    <2> HIDE DEF p
    <2>7. plan'[w] = p /\ \A x \in Work \ {w} : plan'[x] = plan[x]
      BY <1>1, <2>6 DEF PlacementTypeOK
    <2>8. ASSUME NEW x \in Work, NEW i \in DOMAIN plan'[x]
          PROVE  plan'[x][i].version <= nodes[plan'[x][i].node].capability
      <3>1. CASE x = w
        BY <1>3, <2>5, <2>7, <3>1
      <3>2. CASE x # w
        BY <2>7, <3>2 DEF PlansNotAhead
      <3> QED
        BY <3>1, <3>2
    <2> QED
      BY <1>5, <2>8 DEF PlansNotAhead, schedule
  <1>6. ASSUME NEW w \in Work, Ask(w) PROVE PlansNotAhead'
    <2>1. /\ plan[w] # <<>> /\ nodes' = nodes
          /\ \E p \in {<<>>, Tail(plan[w])} : plan' = [plan EXCEPT ![w] = p]
      BY <1>6 DEF Ask
    <2>2. PICK p \in {<<>>, Tail(plan[w])} : plan' = [plan EXCEPT ![w] = p]
      BY <2>1
    <2>3. \A i \in DOMAIN p : i + 1 \in DOMAIN plan[w] /\ p[i] = plan[w][i + 1]
      BY <1>2, <2>1
    <2>4. plan'[w] = p /\ \A x \in Work \ {w} : plan'[x] = plan[x]
      BY <1>1, <2>2 DEF PlacementTypeOK
    <2>5. ASSUME NEW x \in Work, NEW i \in DOMAIN plan'[x]
          PROVE  plan'[x][i].version <= nodes[plan'[x][i].node].capability
      <3>1. CASE x = w
        BY <2>3, <2>4, <3>1 DEF PlansNotAhead
      <3>2. CASE x # w
        BY <2>4, <3>2 DEF PlansNotAhead
      <3> QED
        BY <3>1, <3>2
    <2> QED
      BY <2>1, <2>5 DEF PlansNotAhead
  <1>7. CASE UNCHANGED <<nodes, plan>>
    BY <1>7 DEF PlansNotAhead
  <1> QED
    BY <1>4, <1>5, <1>6, <1>7 DEF Next, NodeChanges, pvars, vars

\* PlacementScheduler never knows less of a node than a plan that is under way was made from:
\* a snapshot that is behind in either of its versions is refused, in whatever order they come.
THEOREM PlansStayBehind == Spec => []PlansNotAhead
  <1>1. Init => PlansNotAhead
    BY DEF Init, PlansNotAhead
  <1>2. PlacementInv /\ PlansNotAhead /\ [Next]_vars => PlansNotAhead'
    BY NotAheadStep
  <1> QED
    BY <1>1, <1>2, PlacementInvariant, PTL DEF Spec

\* Whatever snapshots replaced one another, late, twice or out of order, the inverted
\* index of PlacementScheduler is exactly what the snapshots it keeps say.
THEOREM IndexIsExact == Spec => []IndexExact
  <1>1. PlacementInv => IndexExact
    BY DEF PlacementInv
  <1> QED
    BY <1>1, PlacementInvariant, PTL

\* A node that holds a reservation had the capabilities of the work when it accepted it,
\* however old the snapshot behind the plan was: admit compares the versions.
THEOREM AdmittedAreCapable == Spec => []AdmittedCapable
  <1>1. PlacementInv => AdmittedCapable
    BY DEF PlacementInv
  <1> QED
    BY <1>1, PlacementInvariant, PTL

\* LocalAdmissionController never promises more of a resource than the node has, nor to
\* work from elsewhere more than it does not keep for itself.
THEOREM ReserveIsKept == Spec => []LocalReserveKept
  <1>1. PlacementInv => LocalReserveKept
    BY DEF PlacementInv, ReserveKept, Within, Amount, LocalReserveKept
  <1> QED
    BY <1>1, PlacementInvariant, PTL

-----------------------------------------------------------------------------
(* The budgets of a node.                                                    *)

InState(x) == {d \in Transfer : transfer[d] = x}

LinkOK(l) ==
    /\ DOMAIN l = {"data", "control", "active", "queued", "pressure", "reconnecting"}
    /\ l.data \in Nat /\ l.control \in Nat /\ l.active \in Nat /\ l.queued \in Nat

BudgetsTypeOK ==
    /\ transfer \in [Transfer -> {"new", "queued", "active", "done"}]
    /\ LinkOK(link)
    /\ sampler \in [accepted : Nat, events : [Class -> Nat]]
    /\ recorded \in [Class -> Nat] /\ delivered \in [Class -> Nat]
    /\ IsFiniteSet(InState("queued")) /\ IsFiniteSet(InState("active"))

\* AccountsExact, its sum and its sets by name.
Accounts ==
    /\ link.queued = Sum(Bytes, InState("queued"))
    /\ link.active = Cardinality(InState("active"))
    /\ link.active <= MaxTransfers
    /\ link.data + ControlReserve <= MaxBytesPerTick
    /\ recorded["Correctness"] = delivered["Correctness"] + sampler.events["Correctness"]

BudgetsInv == BudgetsTypeOK /\ Accounts

\* The limits and the sizes are numbers.
LEMMA BudgetNumbers ==
    /\ MaxBytesPerTick \in Nat /\ ControlReserve \in Nat /\ ControlReserve <= MaxBytesPerTick
    /\ MaxTransfers \in Nat
    /\ \A d \in Transfer : Bytes[d] \in Nat
  BY BudgetConstants

\* The initial states satisfy the invariant.
LEMMA BudgetsInvInit == BudgetsInit => BudgetsInv
  <1> SUFFICES ASSUME BudgetsInit PROVE BudgetsInv
    OBVIOUS
  <1>1. InState("queued") = {} /\ InState("active") = {}
    BY DEF BudgetsInit, InState
  <1>2. IsFiniteSet({}) /\ Cardinality({}) = 0
    BY FS_EmptySet
  <1>3. Sum(Bytes, {}) = 0
    BY <1>2, SumUnfolds
  <1>4. BudgetsTypeOK
    BY <1>1, <1>2 DEF BudgetsInit, BudgetsTypeOK, None, Class, LinkOK
  <1>5. Accounts
    BY <1>1, <1>2, <1>3, BudgetNumbers DEF BudgetsInit, Accounts, None, Class
  <1> QED
    BY <1>4, <1>5 DEF BudgetsInv

\* Steps that leave the transfers and the counters of data alone keep the accounts.
LEMMA OtherBudgetSteps ==
    ASSUME BudgetsInv, UNCHANGED transfer, LinkOK(link'),
           link'.queued = link.queued, link'.active = link.active, link'.data <= link.data,
           UNCHANGED telemetry
    PROVE  BudgetsInv'
  <1>1. \A x : InState(x)' = InState(x)
    BY DEF InState
  <1>2. BudgetsTypeOK'
    BY <1>1 DEF BudgetsInv, BudgetsTypeOK, telemetry
  <1>3. link'.data \in Nat /\ link.data \in Nat
    BY DEF BudgetsInv, BudgetsTypeOK, LinkOK
  <1>4. link'.data + ControlReserve <= MaxBytesPerTick
    BY <1>3, BudgetNumbers DEF BudgetsInv, Accounts
  <1>5. Accounts'
    BY <1>1, <1>4 DEF BudgetsInv, Accounts, telemetry
  <1> QED
    BY <1>2, <1>5 DEF BudgetsInv

\* The three steps of a transfer keep the accounts.
LEMMA TransferSteps ==
    ASSUME BudgetsInv, NEW d \in Transfer, enqueue_data(d) \/ start_data(d) \/ complete_data(d)
    PROVE  BudgetsInv'
  <1> DEFINE Q == InState("queued")
             A == InState("active")
  <1> USE DEF BudgetsInv
  <1>1. /\ IsFiniteSet(Q) /\ IsFiniteSet(A) /\ Q \subseteq Transfer /\ A \subseteq Transfer
        /\ Cardinality(A) \in Nat
    BY FS_CardinalityType DEF BudgetsTypeOK, InState
  <1>2. Sum(Bytes, Q) \in Nat /\ Bytes[d] \in Nat
    BY <1>1, BudgetNumbers, SumType
  <1>3. /\ LinkOK(link)
        /\ link.data \in Nat /\ link.queued \in Nat /\ link.active \in Nat
        /\ transfer \in [Transfer -> {"new", "queued", "active", "done"}]
    BY DEF BudgetsTypeOK, LinkOK
  <1>4. UNCHANGED <<sampler, recorded, delivered>>
    BY DEF enqueue_data, start_data, complete_data, telemetry
  <1>5. CASE enqueue_data(d)
    <2>1. InState("queued")' = Q \cup {d} /\ InState("active")' = A /\ d \notin Q
      BY <1>3, <1>5 DEF enqueue_data, InState
    <2>2. \A x \in Q \cup {d} : Bytes[x] \in Nat
      BY <1>1, BudgetNumbers
    <2>3. Sum(Bytes, Q \cup {d}) = Bytes[d] + Sum(Bytes, Q)
      BY <1>1, <2>1, <2>2, SumAdd
    <2>4. IsFiniteSet(Q \cup {d})
      BY <1>1, FS_AddElement
    <2>5. /\ link'.queued = link.queued + Bytes[d] /\ link'.active = link.active /\ link'.data = link.data
          /\ LinkOK(link')
      BY <1>2, <1>3, <1>5 DEF enqueue_data, LinkOK
    <2>6. BudgetsTypeOK'
      BY <1>1, <1>3, <1>4, <1>5, <2>1, <2>4, <2>5 DEF BudgetsTypeOK, enqueue_data
    <2>7. link'.queued = Sum(Bytes, InState("queued")')
      <3>1. link'.queued = Sum(Bytes, Q) + Bytes[d]
        BY <2>5 DEF Accounts
      <3>2. link'.queued = Sum(Bytes, Q \cup {d})
        BY <1>2, <2>3, <3>1
      <3> QED
        BY <2>1, <3>2
    <2>8. Accounts'
      BY <1>4, <2>1, <2>5, <2>7 DEF Accounts
    <2> QED
      BY <2>6, <2>8
  <1>6. CASE start_data(d)
    <2>1. InState("queued")' = Q \ {d} /\ InState("active")' = A \cup {d} /\ d \in Q /\ d \notin A
      BY <1>3, <1>6 DEF start_data, InState
    <2>2. \A x \in Q : Bytes[x] \in Nat
      BY <1>1, BudgetNumbers
    <2>3. Sum(Bytes, Q) = Bytes[d] + Sum(Bytes, Q \ {d})
      BY <1>1, <2>1, <2>2, SumSplit
    <2>4. IsFiniteSet(Q \ {d}) /\ IsFiniteSet(A \cup {d}) /\ Cardinality(A \cup {d}) = Cardinality(A) + 1
      BY <1>1, <2>1, FS_RemoveElement, FS_AddElement
    <2>5. Sum(Bytes, Q \ {d}) \in Nat
      BY <2>2, <2>4, SumType
    <2>6. /\ link'.queued = link.queued - Bytes[d] /\ link'.active = link.active + 1
          /\ link'.data = link.data + Bytes[d]
          /\ link'.control = link.control /\ link'.pressure = link.pressure
          /\ link'.reconnecting = link.reconnecting
          /\ link' = [link EXCEPT !.queued = link.queued - Bytes[d], !.data = link.data + Bytes[d],
                                  !.active = link.active + 1]
      BY <1>3, <1>6 DEF start_data, Dequeued, LinkOK
    <2>7. link.queued - Bytes[d] = Sum(Bytes, Q \ {d})
      BY <1>2, <2>3, <2>5 DEF Accounts
    <2>8. LinkOK(link')
      BY <1>2, <1>3, <2>5, <2>6, <2>7 DEF LinkOK
    <2>9. BudgetsTypeOK'
      <3>1. transfer' \in [Transfer -> {"new", "queued", "active", "done"}]
        BY <1>3, <1>6 DEF start_data
      <3>2. IsFiniteSet(InState("queued")') /\ IsFiniteSet(InState("active")')
        BY <2>1, <2>4
      <3> QED
        BY <1>4, <2>8, <3>1, <3>2 DEF BudgetsTypeOK
    <2>10. link.active < MaxTransfers /\ link.data + Bytes[d] <= MaxBytesPerTick - ControlReserve
      BY <1>6 DEF start_data, DataLimit
    <2>11. link'.active <= MaxTransfers /\ link'.data + ControlReserve <= MaxBytesPerTick
      BY <1>2, <1>3, <2>6, <2>10, BudgetNumbers
    <2>12. link'.queued = Sum(Bytes, InState("queued")') /\ link'.active = Cardinality(InState("active")')
      BY <2>1, <2>4, <2>6, <2>7 DEF Accounts
    <2>13. Accounts'
      BY <1>4, <2>11, <2>12 DEF Accounts
    <2> QED
      BY <2>9, <2>13
  <1>7. CASE complete_data(d)
    <2>1. InState("queued")' = Q /\ InState("active")' = A \ {d} /\ d \in A
      BY <1>3, <1>7 DEF complete_data, InState
    <2>2. IsFiniteSet(A \ {d}) /\ Cardinality(A \ {d}) = Cardinality(A) - 1
      BY <1>1, <2>1, FS_RemoveElement
    <2>3. /\ link'.queued = link.queued /\ link'.active = link.active - 1 /\ link'.data = link.data
          /\ link' = [link EXCEPT !.active = link.active - 1] /\ link.active - 1 \in Nat
      BY <1>3, <1>7 DEF complete_data, LinkOK
    <2>4. LinkOK(link')
      BY <1>3, <2>3 DEF LinkOK
    <2>5. BudgetsTypeOK'
      BY <1>1, <1>3, <1>4, <1>7, <2>1, <2>2, <2>4 DEF BudgetsTypeOK, complete_data
    <2>6. link'.active <= MaxTransfers
      BY <1>3, <2>3, BudgetNumbers DEF Accounts
    <2>7. link'.active = Cardinality(InState("active")') /\ link'.queued = Sum(Bytes, InState("queued")')
      BY <2>1, <2>2, <2>3 DEF Accounts
    <2>8. Accounts'
      BY <1>4, <2>3, <2>6, <2>7 DEF Accounts
    <2> QED
      BY <2>5, <2>8
  <1> QED
    BY <1>5, <1>6, <1>7

\* Events and pulses keep the telemetry's account of correctness events.
LEMMA TelemetrySteps ==
    ASSUME BudgetsInv, pulse \/ \E c \in Class : record(c)
    PROVE  BudgetsInv'
  <1> USE DEF BudgetsInv
  <1>0. UNCHANGED <<transfer, link>>
    BY DEF record, pulse
  <1>1. \A x : InState(x)' = InState(x)
    BY <1>0 DEF InState
  <1>2. /\ sampler.accepted \in Nat /\ sampler.events \in [Class -> Nat]
        /\ recorded \in [Class -> Nat] /\ delivered \in [Class -> Nat] /\ "Correctness" \in Class
        /\ sampler \in [accepted : Nat, events : [Class -> Nat]]
    BY DEF BudgetsTypeOK, Class
  <1>3. recorded["Correctness"] = delivered["Correctness"] + sampler.events["Correctness"]
    BY DEF Accounts
  <1>4. /\ sampler' \in [accepted : Nat, events : [Class -> Nat]]
        /\ recorded' \in [Class -> Nat] /\ delivered' \in [Class -> Nat]
        /\ recorded'["Correctness"] = delivered'["Correctness"] + sampler'.events["Correctness"]
    <2>1. ASSUME NEW c \in Class, record(c)
          PROVE  /\ sampler' \in [accepted : Nat, events : [Class -> Nat]]
                 /\ recorded' \in [Class -> Nat] /\ delivered' \in [Class -> Nat]
                 /\ recorded'["Correctness"] = delivered'["Correctness"] + sampler'.events["Correctness"]
      <3>1. recorded' = [recorded EXCEPT ![c] = recorded[c] + 1] /\ delivered' = delivered
        BY <2>1 DEF record
      <3>2. CASE Sampled(c)
        <4>1. /\ sampler'.accepted = sampler.accepted + 1
              /\ sampler'.events = [sampler.events EXCEPT ![c] = sampler.events[c] + 1]
              /\ sampler' \in [accepted : Nat, events : [Class -> Nat]]
          <5>1. sampler' = [sampler EXCEPT !.accepted = @ + 1, !.events[c] = @ + 1]
            BY <2>1, <3>2 DEF record
          <5>2. /\ sampler'.accepted = sampler.accepted + 1
                /\ sampler'.events = [sampler.events EXCEPT ![c] = sampler.events[c] + 1]
                /\ sampler' = [accepted |-> sampler'.accepted, events |-> sampler'.events]
            BY <1>2, <5>1
          <5>3. sampler'.accepted \in Nat /\ sampler'.events \in [Class -> Nat]
            BY <1>2, <5>2
          <5> QED
            BY <5>2, <5>3
        <4>2. CASE c = "Correctness"
          BY <1>2, <1>3, <3>1, <4>1, <4>2
        <4>3. CASE c # "Correctness"
          BY <1>2, <1>3, <3>1, <4>1, <4>3
        <4> QED
          BY <4>2, <4>3
      <3>3. CASE ~Sampled(c)
        <4>1. sampler' = sampler /\ c # "Correctness"
          BY <2>1, <3>3 DEF record, Sampled
        <4> QED
          BY <1>2, <1>3, <3>1, <4>1
      <3> QED
        BY <3>2, <3>3
    <2>2. CASE pulse
      <3>1. /\ recorded' = recorded /\ sampler' = [accepted |-> 0, events |-> None]
            /\ delivered' = [c \in Class |-> delivered[c] + sampler.events[c]]
        BY <2>2 DEF pulse
      <3>2. None \in [Class -> Nat] /\ None["Correctness"] = 0
        BY <1>2 DEF None
      <3> QED
        BY <1>2, <1>3, <3>1, <3>2
    <2> QED
      BY <2>1, <2>2
  <1>5. BudgetsTypeOK'
    BY <1>0, <1>1, <1>4 DEF BudgetsTypeOK
  <1>6. Accounts'
    BY <1>0, <1>1, <1>4 DEF Accounts
  <1> QED
    BY <1>5, <1>6

\* Every step keeps the accounts.
LEMMA BudgetsInvStep == BudgetsInv /\ [BudgetsNext]_bvars => BudgetsInv'
  <1> SUFFICES ASSUME BudgetsInv, [BudgetsNext]_bvars PROVE BudgetsInv'
    OBVIOUS
  <1>0. /\ LinkOK(link)
        /\ link.data \in Nat /\ link.control \in Nat
    BY DEF BudgetsInv, BudgetsTypeOK, LinkOK
  <1>1. ASSUME NEW p \in Buckets, NEW r \in BOOLEAN, update_pressure(p, r) PROVE BudgetsInv'
    <2>2. link' = [link EXCEPT !.pressure = p, !.reconnecting = r] /\ UNCHANGED <<transfer, telemetry>>
      BY <1>1 DEF update_pressure
    <2>3. /\ LinkOK(link')
          /\ link'.queued = link.queued /\ link'.active = link.active /\ link'.data <= link.data
      BY <1>0, <2>2 DEF LinkOK
    <2> QED
      BY <2>2, <2>3, OtherBudgetSteps
  <1>2. CASE admit_control
    <2>1. /\ LinkOK(link')
          /\ link'.queued = link.queued /\ link'.active = link.active /\ link'.data <= link.data
      BY <1>0, <1>2 DEF admit_control, LinkOK
    <2> QED
      BY <1>2, <2>1, OtherBudgetSteps DEF admit_control
  <1>3. CASE next_tick
    <2>1. /\ LinkOK(link')
          /\ link'.queued = link.queued /\ link'.active = link.active /\ link'.data <= link.data
      BY <1>0, <1>3 DEF next_tick, NextTick, LinkOK
    <2> QED
      BY <1>3, <2>1, OtherBudgetSteps DEF next_tick
  <1>4. CASE UNCHANGED bvars
    <2>1. /\ LinkOK(link')
          /\ link'.queued = link.queued /\ link'.active = link.active /\ link'.data <= link.data
      BY <1>0, <1>4 DEF bvars
    <2> QED
      BY <1>4, <2>1, OtherBudgetSteps DEF bvars, telemetry
  <1> QED
    BY <1>1, <1>2, <1>3, <1>4, TransferSteps, TelemetrySteps DEF BudgetsNext

\* The counters of NetworkBudgetController are what is queued and active, data leaves the
\* bytes of control messages alone in every tick, and TelemetrySampler loses no
\* correctness event, at whatever pressure.
THEOREM AccountsAreExact == BudgetsSpec => []AccountsExact
  <1>1. BudgetsInv => AccountsExact
    BY DEF BudgetsInv, Accounts, AccountsExact, Sum, InState
  <1> QED
    BY <1>1, BudgetsInvInit, BudgetsInvStep, PTL DEF BudgetsSpec

=============================================================================
