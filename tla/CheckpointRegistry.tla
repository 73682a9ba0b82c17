------------------------- MODULE CheckpointRegistry -------------------------
(***************************************************************************)
(* What CheckpointManager promises the training loop, with no partial      *)
(* directories, barriers, error files or crashes: a write-once registry    *)
(* that gains one WHOLE checkpoint at a time, every part of it produced by *)
(* one and the same launch, and that acknowledges to a rank only what the  *)
(* registry holds.                                                         *)
(***************************************************************************)
CONSTANTS
    Ranks,          \* the workers of one launch
    Generations,    \* the generations a checkpoint may be named for
    Attempts,       \* the launches that may produce one
    None

VARIABLES
    committed,      \* committed[g]: the checkpoint of generation g, or None
    told            \* told[r]: the last save acknowledged to rank r

registryVars == <<committed, told>>

(* A checkpoint whose rank states and shared state all come from launch a. *)
Whole(a, ok) == [ranks |-> [r \in Ranks |-> a], state |-> a, accepted |-> ok]

RegistryInit ==
    /\ committed = [g \in Generations |-> None]
    /\ told = [r \in Ranks |-> None]

(* A name is committed once, at once and for good. *)
Commit(g) ==
    /\ committed[g] = None
    /\ \E a \in Attempts, ok \in BOOLEAN :
          committed' = [committed EXCEPT ![g] = Whole(a, ok)]
    /\ UNCHANGED told

Acknowledge(r, g) ==
    /\ committed[g] # None
    /\ told' = [told EXCEPT ![r] = g]
    /\ UNCHANGED committed

(* A new launch has been told nothing yet. *)
Restart ==
    /\ told' = [r \in Ranks |-> None]
    /\ UNCHANGED committed

RegistryNext ==
    \/ \E g \in Generations : Commit(g) \/ \E r \in Ranks : Acknowledge(r, g)
    \/ Restart

RegistrySpec == RegistryInit /\ [][RegistryNext]_registryVars
=============================================================================
