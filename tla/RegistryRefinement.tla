------------------------- MODULE RegistryRefinement -------------------------
(***************************************************************************)
(* PersistentRegistry implements TaskLedger: a transaction is published when *)
(* its commit frame is appended, and a crash falls back to what replay       *)
(* finds.  The two sides of the mapping are functions of the registry's      *)
(* state; they are kept in history variables so that replay is computed once *)
(* per state.                                                                *)
(***************************************************************************)
EXTENDS PersistentRegistry

VARIABLES
    current,     \* the records the registry shows, or will show once it is open
    fallbacks    \* the records of every crash image

Fallbacks(snap, frames, from) ==
    {ReplayOf(snap, frames)[n].state.records : n \in from..Len(frames)}

RefinementInit ==
    /\ Init
    /\ current = records
    /\ fallbacks = {records}

RefinementNext ==
    /\ Next
    /\ \E snap \in {snapshot'}, frames \in {wal'}, from \in {synced'} :
         /\ current' = IF up' THEN records' ELSE Replay(snap, frames).state.records
         /\ fallbacks' = Fallbacks(snap, frames, from)

RefinementSpec == RefinementInit /\ [][RefinementNext]_<<vars, current, fallbacks>>

Ledger == INSTANCE TaskLedger WITH records <- current, recoverable <- fallbacks

\* Every step of the registry, its failed writes, interrupted compactions,
\* crashes and restarts included, is a step of the ledger's atomic transactions
\* or changes nothing the ledger shows.
ImplementsLedger == Ledger!Spec

=============================================================================
