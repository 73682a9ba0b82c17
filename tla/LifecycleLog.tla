---------------------------- MODULE LifecycleLog ----------------------------
(***************************************************************************)
(* What the lifecycle store promises its callers, with no files, locks,    *)
(* anchors or crashes: ONE append-only log of lifecycle events, grown one  *)
(* authorized transition at a time, and readers whose successive answers   *)
(* are ever longer prefixes of that log.                                   *)
(***************************************************************************)
EXTENDS Integers, Sequences

CONSTANTS
    Readers,              \* whoever calls the store
    Entry,                \* the entries a log may hold
    MayFollow(_, _)       \* MayFollow(chain, e): e is a legal next transition

VARIABLES
    log,                  \* the committed chain of entries
    view                  \* view[p]: the chain the store last showed to p

logVars == <<log, view>>

LogTypeOK ==
    /\ log \in Seq(Entry)
    /\ view \in [Readers -> Seq(Entry)]

LogInit ==
    /\ log = << >>
    /\ view = [p \in Readers |-> << >>]

(* One transition is committed: nothing before it changes. *)
Commit ==
    /\ \E e \in Entry :
          /\ MayFollow(log, e)
          /\ log' = Append(log, e)
    /\ UNCHANGED view

(* A caller is answered: it sees at least what it saw before and nothing   *)
(* that is not committed.                                                  *)
Observe(p) ==
    /\ \E n \in Len(view[p]) .. Len(log) :
          view' = [view EXCEPT ![p] = SubSeq(log, 1, n)]
    /\ UNCHANGED log

LogNext == Commit \/ \E p \in Readers : Observe(p)

LogSpec == LogInit /\ [][LogNext]_logVars
=============================================================================
