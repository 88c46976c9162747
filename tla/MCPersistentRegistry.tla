------------------------ MODULE MCPersistentRegistry ------------------------
(* PersistentRegistry on small instances.                                    *)
EXTENDS PersistentRegistry

OneReplica == <<"r1">>
TwoReplicas == <<"r1", "r2">>

\* Every content is recoverable from one healthy copy (Replicated, minimum 1).
OneCopy == [c \in Content |-> 1]

FastAndDurable == {Fast, Durable}
OnlyCritical == {Critical(3)}
=============================================================================
