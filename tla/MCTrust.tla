------------------------------ MODULE MCTrust ------------------------------
(* One node's identity, what is granted to it and what it produces, and the  *)
(* audit log.  The two share no state: a behaviour exercises one or the      *)
(* other, and the product is not explored.                                   *)
EXTENDS Trust, AuditSegments

Init == TrustInit /\ AuditInit

Next ==
    \/ TrustNext /\ AuditInit /\ UNCHANGED lvars
    \/ AuditNext /\ TrustInit /\ UNCHANGED tvars

Spec == Init /\ [][Next]_<<tvars, lvars>>

=============================================================================
