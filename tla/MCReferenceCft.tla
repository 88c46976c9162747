--------------------------- MODULE MCReferenceCft ---------------------------
(* ReferenceCft on small clusters.  The full nodes are interchangeable.      *)
EXTENDS ReferenceCft, TLC

FullNodes == Permutations(Full)
=============================================================================
