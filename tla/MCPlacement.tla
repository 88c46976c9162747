---------------------------- MODULE MCPlacement ----------------------------
(* Two works of node n1 and one that stays on node n2, where capabilities    *)
(* come and go and the pressure rises; a third node is fit for one of them.  *)
(* The budgets of a node and the failure detector share no state with the    *)
(* placement: a behaviour exercises one of the three, and their product is   *)
(* not explored.  No fair action of a part is enabled in its initial state,  *)
(* so that fairness of one demands nothing of a behaviour of another.        *)
EXTENDS Placement, NodeBudgets, FailureDetector

MCInit == Init /\ BudgetsInit /\ DetectorInit

MCNext ==
    \/ Next /\ BudgetsInit /\ DetectorInit /\ UNCHANGED <<bvars, dvars>>
    \/ BudgetsNext /\ Init /\ DetectorInit /\ UNCHANGED <<vars, dvars>>
    \/ DetectorNext /\ Init /\ BudgetsInit /\ UNCHANGED <<vars, bvars>>

MCSpec == MCInit /\ [][MCNext]_<<vars, bvars, dvars>> /\ BudgetsFairness /\ DetectorFairness

Nodes == {"n1", "n2", "n3"}
Works == {"t1", "t2", "t3"}
Versions == [n \in Nodes |-> IF n = "n2" THEN 2 ELSE 1]
HomeOf == [w \in Works |-> IF w = "t3" THEN "n2" ELSE "n1"]
OneEach == [w \in Works |-> [s \in {"cpu", "memory"} |-> 1]]
Totals == [s \in {"cpu", "memory"} |-> 2]
Reserve == [s \in {"cpu", "memory"} |-> IF s = "cpu" THEN 1 ELSE 0]
Pressure == [n \in Nodes |-> CASE n = "n1" -> <<50>> [] n = "n2" -> <<40, 80>> [] n = "n3" -> <<45>>]
NodeKeys == [n \in Nodes |-> CASE n = "n1" -> <<{}>> [] n = "n2" -> <<{"cuda"}, {"metal"}>> [] n = "n3" -> <<{}>>]
WorkKeys == [w \in Works |-> IF w = "t1" THEN {"cuda"} ELSE {}]
Fit == [n \in Nodes |-> CASE n = "n1" -> <<Works>> [] n = "n2" -> <<Works, {"t1"}>> [] n = "n3" -> <<{"t2"}>>]
Inputs == [w \in Works |-> [n \in Nodes |-> IF w = "t2" /\ n = "n1" THEN 3 ELSE 0]]
Order == [n \in Nodes |-> CASE n = "n1" -> 1 [] n = "n2" -> 2 [] n = "n3" -> 3]

\* d3 is too large for the data bytes of a tick.
Data == {"d1", "d2", "d3"}
Sizes == [d \in Data |-> CASE d = "d1" -> 1 [] d = "d2" -> 2 [] d = "d3" -> 3]

MemberVersion == [n \in {"m1", "m2"} |-> IF n = "m1" THEN 2 ELSE 1]
=============================================================================
