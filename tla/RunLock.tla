------------------------------ MODULE RunLock ------------------------------
(***************************************************************************)
(* RUNNING.lock (rexpolicy/flywheel/operations.py, RunOperations): how the *)
(* rank-zero processes of successive launches contend for a run directory. *)
(*                                                                         *)
(* A file is the process that created it and whether it has written its    *)
(* pid and host yet.  A process keeps writing to the file it opened, even  *)
(* when another process has unlinked it.                                   *)
(***************************************************************************)
EXTENDS Integers

CONSTANTS
    Procs,              \* rank-zero processes, one per launch
    Remote,             \* those of them on the other host
    None

(* What RUNNING.lock can be. *)
Files == [owner : Procs, written : BOOLEAN]

(* What is assumed of the constants where it matters: in the proofs. *)
LockAssumption == Remote \subseteq Procs /\ None \notin Procs /\ None \notin Files

VARIABLES
    lock,               \* RUNNING.lock, or None
    pc,                 \* where each process is
    attempt,            \* the two rounds of _acquire_run_lock
    seen                \* the owner the process read, None when unreadable

vars == <<lock, pc, attempt, seen>>

Acquiring == {"open", "read", "probe", "unlink", "write"}

Init ==
    /\ lock = None
    /\ pc = [p \in Procs |-> "idle"]
    /\ attempt = [p \in Procs |-> 0]
    /\ seen = [p \in Procs |-> None]

Goto(p, to) == pc' = [pc EXCEPT ![p] = to]

SameHost(p, q) == (p \in Remote) <=> (q \in Remote)

(* _pid_is_alive *)
Alive(p) == pc[p] \notin {"idle", "gone"}

-----------------------------------------------------------------------------
Launch(p) ==
    /\ pc[p] = "idle"
    /\ Goto(p, "open")
    /\ UNCHANGED <<lock, attempt, seen>>

(* O_CREAT | O_EXCL *)
Create(p) ==
    /\ pc[p] = "open" /\ lock = None
    /\ lock' = [owner |-> p, written |-> FALSE]
    /\ Goto(p, "write")
    /\ UNCHANGED <<attempt, seen>>

Exists(p) ==
    /\ pc[p] = "open" /\ lock # None
    /\ Goto(p, "read")
    /\ UNCHANGED <<lock, attempt, seen>>

(* A file that has vanished or is still empty is "unreadable". *)
Read(p) ==
    /\ pc[p] = "read"
    /\ seen' = [seen EXCEPT ![p] = IF lock # None /\ lock.written THEN lock.owner ELSE None]
    /\ Goto(p, "probe")
    /\ UNCHANGED <<lock, attempt>>

(* A plausible defect: the host is not compared. *)
Stale_AnyHost(p) == seen[p] # None /\ (SameHost(p, seen[p]) => ~Alive(seen[p]))

(* A plausible defect: a lock that exists is always respected. *)
Stale_Never(p) == FALSE

Stale(p) == seen[p] # None /\ SameHost(p, seen[p]) /\ ~Alive(seen[p])

Probe(p) ==
    /\ pc[p] = "probe"
    /\ Goto(p, IF attempt[p] = 0 /\ Stale(p) THEN "unlink" ELSE "refused")
    /\ UNCHANGED <<lock, attempt, seen>>

Unlink(p) ==
    /\ pc[p] = "unlink"
    /\ lock' = None
    /\ attempt' = [attempt EXCEPT ![p] = 1]
    /\ Goto(p, "open")
    /\ UNCHANGED seen

Write(p) ==
    /\ pc[p] = "write"
    /\ lock' = IF lock # None /\ lock.owner = p THEN [lock EXCEPT !.written = TRUE] ELSE lock
    /\ Goto(p, "owner")
    /\ UNCHANGED <<attempt, seen>>

(* close(): the owner unlinks whatever is there. *)
Close(p) ==
    /\ pc[p] = "owner"
    /\ lock' = None
    /\ Goto(p, "closed")
    /\ UNCHANGED <<attempt, seen>>

(* The process exits, after close(), after being refused, or by dying. *)
Exit(p) ==
    /\ Alive(p)
    /\ Goto(p, "gone")
    /\ UNCHANGED <<lock, attempt, seen>>

-----------------------------------------------------------------------------
Step(p) == \/ Create(p) \/ Exists(p) \/ Read(p) \/ Probe(p) \/ Unlink(p)
           \/ Write(p) \/ Close(p) \/ Exit(p)

Next == \E p \in Procs : Launch(p) \/ Step(p)

Spec == Init /\ [][Next]_vars

(* One start-up at a time: nobody launches while another launch has not    *)
(* been granted or refused the directory.                                  *)
SettledLaunch(p) == Launch(p) /\ \A q \in Procs : pc[q] \notin Acquiring

SerialNext == \E p \in Procs : SettledLaunch(p) \/ Step(p)

SerialSpec == Init /\ [][SerialNext]_vars

-----------------------------------------------------------------------------
TypeOK ==
    /\ lock \in Files \cup {None}
    /\ pc \in [Procs -> Acquiring \cup {"idle", "owner", "refused", "closed", "gone"}]
    /\ attempt \in [Procs -> {0, 1}]
    /\ seen \in [Procs -> Procs \cup {None}]

(* test_run_lock_refuses_a_second_rank_zero_owner: a run directory has one *)
(* rank-zero owner at a time.                                              *)
Exclusive == \A p, q \in Procs : pc[p] = "owner" /\ pc[q] = "owner" => p = q

(* Why it holds when start-ups do not overlap: an owner's own file stays,  *)
(* what a contender has read is what is still there until the owner goes   *)
(* away, and the second round of the takeover finds the name free.         *)
Serial == \A p, q \in Procs : pc[p] \in Acquiring /\ pc[q] \in Acquiring => p = q

OwnerHoldsFile ==
    \A p \in Procs :
        /\ pc[p] = "owner" => lock = [owner |-> p, written |-> TRUE]
        /\ pc[p] = "write" => lock = [owner |-> p, written |-> FALSE]

LooksAtOwner ==
    \A p \in Procs : pc[p] \in {"probe", "unlink"} /\ lock # None =>
        IF seen[p] = None THEN ~lock.written ELSE lock.owner = seen[p]

TakesOverTheDead ==
    \A p \in Procs :
        /\ pc[p] = "unlink" => Stale(p)
        /\ attempt[p] = 1 => pc[p] \notin {"idle", "read", "probe", "unlink"}
        /\ attempt[p] = 1 /\ pc[p] = "open" => lock = None

LockInv == TypeOK /\ Serial /\ OwnerHoldsFile /\ LooksAtOwner /\ TakesOverTheDead

(* A launch is turned away only by an owner that may be running: one alive *)
(* on this host or one on the other host; or by a file whose creator died  *)
(* before it wrote its pid, which no launch can tell from a live one.  In  *)
(* particular a stale lock of this host never blocks a restart.            *)
Refusal(p) ==
    pc[p] = "probe" /\ pc'[p] = "refused" =>
        \/ lock = None      \* the owner left between the two looks
        \/ ~lock.written
        \/ Alive(lock.owner)
        \/ ~SameHost(p, lock.owner)

RefusedOnlyForCause == [][\A p \in Procs : Refusal(p)]_vars
=============================================================================
