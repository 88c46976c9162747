------------------------------- MODULE Trust -------------------------------
(***************************************************************************)
(* The trust plane: identities of nodes with generations of keys, resource   *)
(* authorizations and signed receipts that depend on them, and the isolation *)
(* of a node with what it produced.                                          *)
(*                                                                           *)
(* Abstractions.  A secret is a number that is never used twice, 0 once it   *)
(* is overwritten; a MAC verifies exactly under the secret it was made with, *)
(* and what the authority signed cannot be changed.  Callers pass the        *)
(* tracker's fencing epoch as the current one and a term that does not       *)
(* change; they give grants, identities and attestations a validity of       *)
(* Validity ticks.  Scopes, contents and attempts are not told apart, and    *)
(* neither are the trust levels above Quarantined: a node has one of those,  *)
(* or it is not trusted.                                                     *)
(***************************************************************************)
EXTENDS Naturals, FiniteSets

CONSTANTS
    Node, Task,
    Validity,               \* ticks that identities, grants and verdicts last
    MaxTick, MaxKeys,       \* bounds: the clock, secrets that are created
    MaxSigned,              \* bound: authorizations and receipts
    MaxIsolations           \* bound: how often nodes are isolated

ASSUME TrustConstants ==
    /\ Validity \in Nat \ {0}
    /\ {MaxTick, MaxKeys, MaxSigned, MaxIsolations} \subseteq Nat

VARIABLES
    now,
    identity,       \* NodeIdentityRegistry
    keys,           \* how many secrets were created
    verdict,        \* until when the last attestation of a node holds
    authorizations, \* the ids that ResourceAuthorizer has stored
    issued,         \* every authorization that was handed out
    receipts,       \* every receipt that was signed
    epoch,          \* fencing_epoch of CompromiseTracker
    tracked,        \* content_by_node and tasks_by_node
    period          \* how often the identity of a node was replaced or withdrawn

tvars == <<now, identity, keys, verdict, authorizations, issued, receipts, epoch,
           tracked, period>>

Unknown == [generation |-> 0, status |-> "Pending", secret |-> 0, until |-> 0, trusted |-> FALSE]

TrustInit ==
    /\ now = 0
    /\ identity = [n \in Node |-> Unknown]
    /\ keys = 0
    /\ verdict = [n \in Node |-> 0]
    /\ authorizations = {}
    /\ issued = {}
    /\ receipts = {}
    /\ epoch = 1
    /\ tracked = [n \in Node |-> {}]
    /\ period = [n \in Node |-> 0]

signatures == <<authorizations, issued, receipts>>

-----------------------------------------------------------------------------
(* NodeIdentityRegistry.                                                     *)

Known(n) == identity[n] # Unknown

\* identity_active_at.
Active(n) == identity[n].status = "Active" /\ identity[n].until >= now

\* Active, and trusted at all: the level is Untrusted or above.
Eligible(n) == Active(n) /\ identity[n].trusted

NewPeriod(n) == period' = [period EXCEPT ![n] = @ + 1]

\* A fresh secret and an Active identity of the given generation.
Installed(n, generation) ==
    /\ keys < MaxKeys
    /\ keys' = keys + 1
    /\ identity' = [identity EXCEPT ![n] = [generation |-> generation, status |-> "Active",
                                            secret |-> keys + 1, until |-> now + Validity,
                                            trusted |-> TRUE]]
    /\ NewPeriod(n)
    /\ UNCHANGED <<now, verdict, signatures, epoch, tracked>>

approve(n) ==
    /\ ~Known(n)
    /\ Installed(n, 1)

\* Defect: the generation stays.
NextGenerationSame(n) == identity[n].generation

NextGeneration(n) == identity[n].generation + 1

\* The new identity inherits the trust level, which must not be Quarantined.
rotate(n) ==
    /\ Known(n) /\ Eligible(n)
    /\ Installed(n, NextGeneration(n))

\* The identity is kept with another status, its secret is overwritten.
Withdrawn(n, status) ==
    /\ identity' = [identity EXCEPT ![n].status = status, ![n].secret = 0,
                                    ![n].trusted = @ /\ status # "Quarantined"]
    /\ IF identity[n].status = "Active" THEN NewPeriod(n) ELSE UNCHANGED period

revoke(n) ==
    /\ Known(n)
    /\ Withdrawn(n, "Revoked")
    /\ UNCHANGED <<now, keys, verdict, signatures, epoch, tracked>>

quarantine(n) ==
    /\ Known(n)
    /\ Withdrawn(n, "Quarantined")
    /\ UNCHANGED <<now, keys, verdict, signatures, epoch, tracked>>

set_trust_level(n, trusted) ==
    /\ identity[n].status = "Active"
    /\ identity' = [identity EXCEPT ![n].trusted = trusted]
    /\ UNCHANGED <<now, keys, verdict, signatures, epoch, tracked, period>>

\* AttestationVerifier::verify accepts evidence for the identity's key.
Attest(n) ==
    /\ Known(n)
    /\ verdict' = [verdict EXCEPT ![n] = now + Validity]
    /\ UNCHANGED <<now, identity, keys, signatures, epoch, tracked, period>>

readmit(n) ==
    /\ identity[n].status \in {"Revoked", "Quarantined"}
    /\ verdict[n] >= now /\ verdict[n] > 0
    /\ Installed(n, NextGeneration(n))

-----------------------------------------------------------------------------
(* ResourceAuthorizer and the receipts.                                      *)

IdOf(a) == [task |-> a.task, node |-> a.node, epoch |-> a.epoch, until |-> a.until]

Authorization(n, t) ==
    [task |-> t, node |-> n, generation |-> identity[n].generation, epoch |-> epoch,
     at |-> now, until |-> now + Validity, period |-> period[n]]

grant(n, t) ==
    /\ Known(n) /\ Eligible(n)
    /\ Cardinality(issued) < MaxSigned
    /\ authorizations' = authorizations \cup {IdOf(Authorization(n, t))}
    /\ issued' = issued \cup {Authorization(n, t)}
    /\ UNCHANGED <<now, identity, keys, verdict, receipts, epoch, tracked, period>>

\* ResourceAuthorizer::validate.
Validates(a) ==
    /\ a.epoch = epoch
    /\ a.at <= now /\ now <= a.until
    /\ IdOf(a) \in authorizations
    /\ Eligible(a.node)
    /\ identity[a.node].generation = a.generation

revoke_for_node(n) ==
    /\ authorizations' = {d \in authorizations : d.node # n}
    /\ authorizations' # authorizations
    /\ UNCHANGED <<now, identity, keys, verdict, issued, receipts, epoch, tracked, period>>

revoke_task(t) ==
    /\ authorizations' = {d \in authorizations : d.task # t}
    /\ authorizations' # authorizations
    /\ UNCHANGED <<now, identity, keys, verdict, issued, receipts, epoch, tracked, period>>

sign_execution_receipt(n, t) ==
    /\ Known(n) /\ Active(n)
    /\ Cardinality(receipts) < MaxSigned
    /\ receipts' = receipts \cup
         {[task |-> t, node |-> n, epoch |-> epoch, secret |-> identity[n].secret, period |-> period[n]]}
    /\ UNCHANGED <<now, identity, keys, verdict, authorizations, issued, epoch, tracked, period>>

\* verify_execution_receipt, and verify_state_binding likewise.
Verifies(r) ==
    /\ r.epoch = epoch
    /\ Active(r.node)
    /\ identity[r.node].secret = r.secret

-----------------------------------------------------------------------------
(* CompromiseTracker.                                                        *)

record_output(n, t) ==
    /\ t \notin tracked[n]
    /\ tracked' = [tracked EXCEPT ![n] = @ \cup {t}]
    /\ UNCHANGED <<now, identity, keys, verdict, signatures, epoch, period>>

\* The content and the tasks of the node are reported and forgotten.
isolate(n) ==
    /\ Known(n)
    /\ epoch <= MaxIsolations
    /\ Withdrawn(n, "Quarantined")
    /\ epoch' = epoch + 1
    /\ authorizations' = {d \in authorizations : d.node # n}
    /\ tracked' = [tracked EXCEPT ![n] = {}]
    /\ UNCHANGED <<now, keys, verdict, issued, receipts>>

TrustTick ==
    /\ now < MaxTick
    /\ now' = now + 1
    /\ UNCHANGED <<identity, keys, verdict, signatures, epoch, tracked, period>>

TrustNext ==
    \/ \E n \in Node : approve(n) \/ rotate(n) \/ revoke(n) \/ quarantine(n) \/ Attest(n) \/ readmit(n)
    \/ \E n \in Node, t \in Task : grant(n, t) \/ sign_execution_receipt(n, t) \/ record_output(n, t)
    \/ \E n \in Node : revoke_for_node(n) \/ isolate(n)
    \/ \E t \in Task : revoke_task(t)
    \/ \E n \in Node, trusted \in BOOLEAN : set_trust_level(n, trusted)
    \/ TrustTick

TrustSpec == TrustInit /\ [][TrustNext]_tvars

-----------------------------------------------------------------------------
(* Properties.                                                               *)

\* docs/phase8-trust-plane.md: a node comes back only under a higher generation, and
\* old grants are no longer valid.  An authorization that validates was granted, and
\* a receipt that verifies was signed, under the identity the node has now: no
\* rotation, revocation, quarantine, isolation or readmission happened in between,
\* in any order.
EarlierIdentityFenced ==
    /\ \A a \in issued : Validates(a) => a.period = period[a.node]
    /\ \A r \in receipts : Verifies(r) => r.period = period[r.node]

=============================================================================
