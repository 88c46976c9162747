----------------------------- MODULE MCContent -----------------------------
(* Two checkpoints of a task that share a chunk.  One node keeps a copy of   *)
(* the first.                                                                *)
EXTENDS Recovery

Contents == {"first", "second"}
Pieces == [c \in Contents |-> IF c = "first" THEN {"x", "y"} ELSE {"y", "z"}]
Policies == [c \in Contents |-> IF c = "first" THEN "Replicated" ELSE "Reconstructible"]
Places == [c \in Contents |-> IF c = "first" THEN {"n1"} ELSE {}]
Numbers == [c \in Contents |-> IF c = "first" THEN 1 ELSE 2]
Generations == [c \in Contents |-> 1]
=============================================================================
