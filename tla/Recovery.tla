------------------------------ MODULE Recovery ------------------------------
(***************************************************************************)
(* The checkpoints of a task.  CheckpointManager puts them into the content  *)
(* store within a budget and chains their artifacts.                         *)
(*                                                                           *)
(* Abstractions.  One task.  A checkpoint is a content, with its sequence    *)
(* number and the plugin generation it was made by.  Every chunk is one      *)
(* byte.  restore reads one content of the store and changes nothing;        *)
(* RecoveryPlanner decides from a catalog whose entries nothing ties to the  *)
(* store of the target it names, and changes nothing either: both are left   *)
(* out.                                                                      *)
(***************************************************************************)
EXTENDS ContentStore

CONSTANTS
    Checkpoint,             \* the contents that are checkpoints
    Sequence, Generation,   \* of every checkpoint
    MaxUploaded, MaxOperations      \* CheckpointBudget

ASSUME RecoveryConstants ==
    /\ Checkpoint \subseteq Content
    /\ Sequence \in [Checkpoint -> Nat \ {0}] /\ Generation \in [Checkpoint -> Nat \ {0}]
    /\ {MaxUploaded, MaxOperations} \subseteq Nat \ {0}

VARIABLES
    artifacts,      \* the manifests that persist has returned
    budget          \* uploaded_bytes and operations of CheckpointManager

rvars == <<artifacts, budget>>

RecoveryInit ==
    /\ StoreInit
    /\ artifacts = {}
    /\ budget = [uploaded |-> 0, operations |-> 0]

-----------------------------------------------------------------------------
(* CheckpointManager.                                                        *)

\* missing_upload_bytes.
MissingBytes(c) == Cardinality(ChunksOf[c] \ chunks)

\* put_bytes: a content with a manifest is not looked at again.
PutBytes(c) ==
    IF c \in manifests THEN UNCHANGED <<store, stranded>>
    ELSE /\ chunks' = chunks \cup ChunksOf[c]
         /\ manifests' = manifests \cup {c}
         /\ uploads' = uploads \ {c}
         /\ stranded' = stranded \ {c}

Uploaded(c) == IF c \in manifests THEN 0 ELSE MissingBytes(c)

Baseline(c) == [content |-> c, baseline |-> c, previous |-> {}, complete |-> TRUE]

After(c, p) == [content |-> c, baseline |-> p.baseline, previous |-> {p.content}, complete |-> FALSE]

\* validate_checkpoint_lineage, and the two contents are in the store.
LineageOk(c, p) ==
    /\ Sequence[p.content] < Sequence[c]
    /\ Generation[p.content] = Generation[c]
    /\ {p.baseline, p.content} \subseteq manifests

\* Defect: what this call will upload is not counted.
WithinBudgetSoFar(c) == budget.operations < MaxOperations /\ budget.uploaded <= MaxUploaded

WithinBudget(c) ==
    /\ budget.operations < MaxOperations
    /\ budget.uploaded + MissingBytes(c) <= MaxUploaded

Charged(c) == [uploaded |-> budget.uploaded + Uploaded(c), operations |-> budget.operations + 1]

\* The bytes are stored before the lineage is looked at: a refused call has
\* uploaded them and is not charged for them.
persist(c, previous) ==
    /\ WithinBudget(c)
    /\ PutBytes(c)
    /\ \/ /\ previous = {}
          /\ artifacts' = artifacts \cup {Baseline(c)}
          /\ budget' = Charged(c)
       \/ \E p \in previous :
             IF LineageOk(c, p)
             THEN artifacts' = artifacts \cup {After(c, p)} /\ budget' = Charged(c)
             ELSE UNCHANGED <<artifacts, budget>>
    /\ UNCHANGED <<catalog, epoch, faults>>

\* The artifact that a caller passes, if any.
Previous == {{}} \cup {{a} : a \in artifacts}

RecoveryNext ==
    \/ StoreNext /\ UNCHANGED rvars
    \/ \E c \in Checkpoint, previous \in Previous : persist(c, previous)

RecoverySpec == RecoveryInit /\ [][RecoveryNext]_<<cvars, rvars>>

-----------------------------------------------------------------------------
(* Properties.                                                               *)

TypeOK ==
    /\ StoreTypeOK
    /\ \A a \in artifacts : a.content \in Checkpoint /\ a.baseline \in Checkpoint
    /\ budget.uploaded \in 0..MaxUploaded /\ budget.operations \in 0..MaxOperations

=============================================================================
