--------------------------- MODULE MCLocalization ---------------------------
(* Localization with contents of one digest, which have different formats.   *)
(* Liveness is checked, so the callers are not declared symmetric.           *)
EXTENDS Localization

OneDigest == [c \in Content |-> CHOOSE d \in Digest : TRUE]
=============================================================================
