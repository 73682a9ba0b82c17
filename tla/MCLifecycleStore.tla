-------------------------- MODULE MCLifecycleStore --------------------------
(* The small instance of LifecycleStore that TLC explores: two roots, one  *)
(* of which may be a copy of the other.                                    *)
EXTENDS LifecycleStore

MCSymmetry == Permutations(Procs) \cup Permutations(Roots)
                 \cup Permutations(Manifests) \cup Permutations(Authorities)
=============================================================================
