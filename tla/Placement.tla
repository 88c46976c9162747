----------------------------- MODULE Placement -----------------------------
(***************************************************************************)
(* PlacementScheduler: an index of the nodes by capability, built from       *)
(* snapshots that arrive late and out of order, and plans that are made from *)
(* it.  A plan is tried node by node; each node admits the work or refuses   *)
(* it (NodeAdmission), with the state it has by then.                        *)
(*                                                                           *)
(* Abstractions.  A key of the index is a capability bit or a plugin with    *)
(* its generation.  Health, identity, trust, OS, ABI and memory of a node    *)
(* are the works that it suits at a resource version.  A node offers one     *)
(* variant.  Predictions are floating-point numbers that change with every   *)
(* observation: which candidates meet the SLO, are profitable, and in which  *)
(* order of cost, is left open.                                              *)
(***************************************************************************)
EXTENDS NodeAdmission, Sequences, SequencesExt

CONSTANTS
    Key,
    Provides,       \* the keys of a node at every capability version
    Requires,       \* the keys that a work needs, those of its variant included
    Suits,          \* the works a node is fit for at every resource version
    Localized,      \* how many inputs of a work a node has
    DefaultLocal,   \* works that stay on their home node
    Rank,           \* the order of the node ids
    TopK            \* the smaller of top_k and max_scheduler_operations

ASSUME PlacementConstants ==
    /\ Requires \in [Work -> SUBSET Key]
    /\ \A n \in Node : /\ Provides[n] \in [Version(n) -> SUBSET Key]
                       /\ Suits[n] \in [Version(n) -> SUBSET Work]
    /\ Localized \in [Work -> [Node -> Nat]]
    /\ DefaultLocal \subseteq Work
    /\ Rank \in [Node -> Nat] /\ \A m, n \in Node : Rank[m] = Rank[n] => m = n
    /\ TopK \in Nat \ {0}

VARIABLES
    sent,       \* snapshots on their way; each may arrive late, or twice
    nodes,      \* the snapshot of every node that the scheduler knows
    by_key,     \* by_capability_bit and by_plugin_generation
    plan        \* the candidates of every work that are still to be asked

pvars == <<sent, nodes, by_key, plan>>
vars == <<avars, pvars>>

Unknown == [capability |-> 0, resource |-> 0]

Snapshot(n) == [node |-> n, capability |-> capability[n], resource |-> resource[n]]

Init ==
    /\ AdmissionInit
    /\ sent = {Snapshot(n) : n \in Node}
    /\ nodes = [n \in Node |-> Unknown]
    /\ by_key = [k \in Key |-> {}]
    /\ plan = [w \in Work |-> <<>>]

Known == {n \in Node : nodes[n] # Unknown}

-----------------------------------------------------------------------------
KeysOf(n, s) == IF s = Unknown THEN {} ELSE Provides[n][s.capability]

\* Defect: only the resource version is compared.
StaleByResource(s) == nodes[s.node].resource > s.resource

Stale(s) == nodes[s.node].capability > s.capability \/ nodes[s.node].resource > s.resource

\* Defect: the keys of the snapshot before are not removed.
ReindexedOver(s) ==
    [k \in Key |-> IF k \in Provides[s.node][s.capability] THEN by_key[k] \cup {s.node} ELSE by_key[k]]

\* CapabilityIndex::remove, then the keys of the new snapshot.
Reindexed(s) ==
    LET removed == [k \in Key |-> by_key[k] \ (IF k \in KeysOf(s.node, nodes[s.node]) THEN {s.node} ELSE {})]
    IN  [k \in Key |-> IF k \in Provides[s.node][s.capability] THEN removed[k] \cup {s.node} ELSE removed[k]]

update_node(s) ==
    /\ ~Stale(s)
    /\ by_key' = Reindexed(s)
    /\ nodes' = [nodes EXCEPT ![s.node] = [capability |-> s.capability, resource |-> s.resource]]
    /\ UNCHANGED <<avars, sent, plan>>

-----------------------------------------------------------------------------
\* candidate_ids_for.
CandidateIds(w) == {n \in Known : \A k \in Requires[w] : n \in by_key[k]}

\* hard_node_filter and hard_variant_filter.
HardNodeFilter(n, w) ==
    /\ w \in Suits[n][nodes[n].resource]
    /\ Requires[w] \subseteq Provides[n][nodes[n].capability]

CoarseCost(n, w) == PressureOf[n][nodes[n].resource] - 5 * Localized[w][n]

\* Nodes with the same cost stay in the order of their ids.
Before(m, n, w) ==
    \/ CoarseCost(m, w) < CoarseCost(n, w)
    \/ CoarseCost(m, w) = CoarseCost(n, w) /\ Rank[m] < Rank[n]

Coarse(w) ==
    LET fit == {n \in CandidateIds(w) : HardNodeFilter(n, w)}
    IN  {n \in fit : Cardinality({m \in fit : Before(m, n, w)}) < TopK}

Placeable(w) == IF w \in DefaultLocal THEN Coarse(w) \cap {Home[w]} ELSE Coarse(w)

Candidate(n) == [node |-> n, version |-> nodes[n].capability]

\* NewTask, AdmissionRejected or SessionMigrationRequested.  With no candidate
\* the call fails and nothing changes.
schedule(w) ==
    /\ plan[w] = <<>>
    /\ \E some \in SUBSET Placeable(w) \ {{}} : \E order \in SetToSeqs(some) :
          plan' = [plan EXCEPT ![w] = [i \in DOMAIN order |-> Candidate(order[i])]]
    /\ UNCHANGED <<avars, sent, nodes, by_key>>

\* The next candidate is asked; the fallbacks are for when it refuses.
Ask(w) ==
    /\ plan[w] # <<>>
    /\ LET c == Head(plan[w])
           q == Request(w, c.version, now + Validity)
       IN  /\ admit(c.node, q)
           /\ plan' = [plan EXCEPT ![w] = IF Accepts(c.node, q) THEN <<>> ELSE Tail(@)]
    /\ UNCHANGED <<now, capability, resource, sent, nodes, by_key>>

NodeChanges(n) ==
    /\ update_local_state(n)
    /\ sent' = sent \cup {[node |-> n, capability |-> capability'[n], resource |-> resource'[n]]}
    /\ UNCHANGED <<nodes, by_key, plan>>

Next ==
    \/ \E s \in sent : update_node(s)
    \/ \E w \in Work : schedule(w) \/ Ask(w)
    \/ \E n \in Node : NodeChanges(n)
    \/ \E n \in Node, w \in Work : release(n, w) /\ UNCHANGED pvars
    \/ \E n \in Node : expire(n) /\ UNCHANGED pvars
    \/ Tick /\ UNCHANGED pvars

Spec == Init /\ [][Next]_vars

-----------------------------------------------------------------------------
(* Properties.                                                               *)

\* The inverted index finds exactly the nodes whose snapshot has all the keys,
\* whatever snapshots replaced one another and in whatever order they came.
IndexExact ==
    \A k \in Key : by_key[k] = {n \in Known : k \in Provides[n][nodes[n].capability]}

\* The scheduler's knowledge of a node does not fall behind a plan that is under way: no
\* snapshot that arrives late or twice takes back capabilities that a plan was made from.
PlansNotAhead ==
    \A w \in Work : \A i \in DOMAIN plan[w] : plan[w][i].version <= nodes[plan[w][i].node].capability

\* docs/phase7-scheduling.md: the plan is made from an approximate
\* global state and corrected by the admission of the target.  A node that holds a
\* reservation had the capabilities of the work when it accepted it, however old
\* the snapshot behind the plan was.
AdmittedCapable ==
    \A n \in Node : \A r \in reserved[n] : Requires[r.work] \subseteq Provides[n][r.at]

=============================================================================
