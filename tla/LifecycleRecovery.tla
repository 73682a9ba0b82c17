------------------------- MODULE LifecycleRecovery --------------------------
(* One root that nobody copies or rolls back: the store's normal life, in  *)
(* which processes die any number of times and then, at some moment, stop  *)
(* dying.                                                                  *)
EXTENDS LifecycleStore

VARIABLE calm       \* no process dies any more

Works == \/ \E p \in Procs : Step(p)
         \/ \E p \in Procs, r \in Roots, m \in Manifests : Call(p, r, m)
         \/ SignerNext

OneRootNext ==
    \/ Works /\ UNCHANGED calm
    \/ ~calm /\ (\E p \in Procs : Interrupt(p)) /\ UNCHANGED calm
    \/ ~calm /\ calm' = TRUE /\ UNCHANGED vars

OneRootInit == Init /\ calm = FALSE

(* The fail-closed checks never lock an honest store out: as long as no    *)
(* directory was copied or rolled back, a root between two operations is   *)
(* either readable or one recovery away from it.                           *)
NeverLockedOut ==
    \A r \in Roots, m \in Manifests :
        (lock[r] = None /\ manifest[r] = m)
            => LoadAccepts(r, m) \/ PendingAccepts(r, m)

(* In the life of one root, it stays within reach and every committed step  *)
(* was authorized.                                                          *)
RootIsSound == NeverLockedOut /\ AuthorizedHistory

=============================================================================
