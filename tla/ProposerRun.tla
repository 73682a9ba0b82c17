---------------------------- MODULE ProposerRun ----------------------------
(***************************************************************************)
(* run_proposer (src/rexpolicy/tasking/authoring_runner.py): one run of    *)
(* the external proposer.  It is started as the leader of a process group  *)
(* of its own, and has started a helper that shares its two pipes; the     *)
(* caller reads the pipes up to a limit each and up to a deadline, kills   *)
(* the group if either is passed, and says how the run ended.              *)
(*                                                                         *)
(* A plain command is trusted with its helpers; a Bubblewrap command runs  *)
(* everything in a sandbox that dies with the leader, which is bwrap and   *)
(* keeps both pipes open.                                                  *)
(***************************************************************************)
EXTENDS Naturals, FiniteSetsExt

CONSTANTS
    Limit,              \* max_stdout_bytes and max_stderr_bytes
    MaxBytes,           \* bound: what is ever written to a pipe
    None

(* How a run may be said to have ended. *)
Outcomes == {"timeout", "stdout_limit", "stderr_limit", "completed", "nonzero_exit"}

ProposerAssumption == Limit \in Nat /\ None \notin Outcomes

Pipes == {"stdout", "stderr"}
Family == {"leader", "helper"}

VARIABLES
    sandboxed,          \* a BubblewrapProposerCommand
    escaped,            \* the helper is in a session of its own
    alive, holds,       \* the processes, and the pipe ends they hold
    exit,               \* how the leader ended
    pipe,               \* bytes in a pipe that are not read yet
    written,            \* history: bytes ever written to it
    kept,               \* the bytes in its buffer
    open,               \* pipes registered with the selector
    ready,              \* events of the last select that are not handled yet
    late,               \* the deadline has passed
    pc, status

family == <<alive, holds, exit>>
vars == <<sandboxed, escaped, family, pipe, written, kept, open, ready, late, pc, status>>

Init ==
    /\ sandboxed \in BOOLEAN /\ escaped \in BOOLEAN
    /\ sandboxed => ~escaped
    /\ alive = Family
    /\ holds = [p \in Family |-> Pipes]
    /\ exit = "running"
    /\ pipe = [s \in Pipes |-> 0] /\ written = pipe /\ kept = pipe
    /\ open = Pipes /\ ready = {}
    /\ late = FALSE
    /\ pc = "reading" /\ status = None

AtEnd == pc \in {"returned", "raised"}

-----------------------------------------------------------------------------
(* The proposer.                                                           *)

(* What dies with a set of processes.                                      *)
Doomed(D) == IF sandboxed /\ "leader" \in D THEN Family ELSE D

Die(D) ==
    /\ alive' = alive \ Doomed(D)
    /\ holds' = [p \in Family |-> IF p \in Doomed(D) THEN {} ELSE holds[p]]

Write(p, s) ==
    /\ p \in alive /\ s \in holds[p] /\ ~AtEnd /\ written[s] < MaxBytes
    /\ pipe' = [pipe EXCEPT ![s] = @ + 1]
    /\ written' = [written EXCEPT ![s] = @ + 1]
    /\ UNCHANGED <<sandboxed, escaped, family, kept, open, ready, late, pc, status>>

CloseEnd(p, s) ==
    /\ p \in alive /\ s \in holds[p]
    /\ sandboxed => p # "leader"
    /\ holds' = [holds EXCEPT ![p] = @ \ {s}]
    /\ UNCHANGED <<sandboxed, escaped, alive, exit, pipe, written, kept, open, ready, late,
                   pc, status>>

Exit(p) ==
    /\ p \in alive
    /\ Die({p})
    /\ IF p = "leader" THEN exit' \in {"zero", "nonzero"} ELSE UNCHANGED exit
    /\ UNCHANGED <<sandboxed, escaped, pipe, written, kept, open, ready, late, pc, status>>

DeadlinePasses ==
    /\ ~late /\ late' = TRUE
    /\ UNCHANGED <<sandboxed, escaped, family, pipe, written, kept, open, ready, pc, status>>

-----------------------------------------------------------------------------
(* The caller.                                                             *)

(* A pipe has something to read, or is at its end.                         *)
Readable(s) == pipe[s] > 0 \/ \A p \in Family : s \notin holds[p]

Select ==
    /\ pc = "reading" /\ open # {} /\ ~late
    /\ \E s \in open : Readable(s)
    /\ ready' = {s \in open : Readable(s)}
    /\ pc' = "handling"
    /\ UNCHANGED <<sandboxed, escaped, family, pipe, written, kept, open, late, status>>

(* The deadline has passed before select, or in it with no event.          *)
TimeOut ==
    /\ pc = "reading" /\ open # {} /\ late
    /\ status' = "timeout" /\ pc' = "stopping"
    /\ UNCHANGED <<sandboxed, escaped, family, pipe, written, kept, open, ready, late>>

Handled(s) ==
    /\ ready' = ready \ {s}
    /\ pc' = IF ready' = {} THEN "reading" ELSE "handling"

(* os.read returns part of what is there; one byte more than the limit is  *)
(* kept, as the sign that it was passed.                                   *)
ReadBytes(s) ==
    /\ pc = "handling" /\ s \in ready /\ pipe[s] > 0
    /\ \E n \in 1 .. pipe[s] :
          /\ pipe' = [pipe EXCEPT ![s] = @ - n]
          /\ kept' = [kept EXCEPT ![s] = Min({@ + n, Limit + 1})]
    /\ IF kept'[s] > Limit
       THEN /\ status' = IF s = "stdout" THEN "stdout_limit" ELSE "stderr_limit"
            /\ pc' = "stopping" /\ ready' = {}
       ELSE Handled(s) /\ UNCHANGED status
    /\ UNCHANGED <<sandboxed, escaped, family, written, open, late>>

ReadEnd(s) ==
    /\ pc = "handling" /\ s \in ready /\ pipe[s] = 0
    /\ open' = open \ {s}
    /\ Handled(s)
    /\ UNCHANGED <<sandboxed, escaped, family, pipe, written, kept, late, status>>

Group == IF escaped THEN {"leader"} ELSE Family

(* A plausible defect: process.kill() in place of os.killpg. *)
Terminate_LeaderOnly ==
    IF "leader" \notin alive THEN UNCHANGED family
    ELSE Die({"leader"}) /\ exit' = "killed"

(* _terminate: the group is killed, unless its leader has ended.           *)
Terminate ==
    IF "leader" \notin alive THEN UNCHANGED family
    ELSE Die(Group \cap alive) /\ exit' = "killed"

Stop ==
    /\ pc = "stopping"
    /\ Terminate
    /\ pc' = "returned"
    /\ UNCHANGED <<sandboxed, escaped, pipe, written, kept, open, ready, late, status>>

(* Both pipes have ended; process.wait() has no deadline.                  *)
StartWait ==
    /\ pc = "reading" /\ open = {}
    /\ pc' = "waiting"
    /\ UNCHANGED <<sandboxed, escaped, family, pipe, written, kept, open, ready, late, status>>

Wait ==
    /\ pc = "waiting" /\ "leader" \notin alive
    /\ status' = IF exit = "zero" THEN "completed" ELSE "nonzero_exit"
    /\ pc' = "returned"
    /\ UNCHANGED <<sandboxed, escaped, family, pipe, written, kept, open, ready, late>>

(* An exception or a signal handler raises: the finally clause.            *)
Interrupt ==
    /\ ~AtEnd
    /\ Terminate
    /\ pc' = "raised"
    /\ UNCHANGED <<sandboxed, escaped, pipe, written, kept, open, ready, late, status>>

Caller == Select \/ TimeOut \/ Stop \/ StartWait \/ Wait \/ \E s \in Pipes : ReadBytes(s) \/ ReadEnd(s)

Proposer ==
    \E p \in Family : Exit(p) \/ \E s \in Pipes : Write(p, s) \/ CloseEnd(p, s)

(* The call is over. *)
Over == AtEnd /\ UNCHANGED vars

Next == Caller \/ Interrupt \/ Proposer \/ DeadlinePasses \/ Over

(* Nothing is assumed of the proposer. *)
Spec == Init /\ [][Next]_vars /\ WF_vars(Caller) /\ WF_vars(DeadlinePasses)

-----------------------------------------------------------------------------
(* Properties. *)

TypeOK ==
    /\ alive \subseteq Family /\ \A p \in Family \ alive : holds[p] = {}
    /\ exit \in {"running", "zero", "nonzero", "killed"}
    /\ \A s \in Pipes : pipe[s] <= written[s] /\ kept[s] <= Limit + 1
    /\ ready \subseteq open /\ open \subseteq Pipes
    /\ status \in Outcomes \cup {None}

(* What is said of the run is so: an answer that counts is all that the    *)
(* proposer and its helper ever wrote, of a leader that ended by itself;   *)
(* and a run is cut short only past the deadline or a limit.               *)
StatusIsTrue ==
    pc = "returned" =>
        /\ status \in {"completed", "nonzero_exit"} =>
              /\ \A s \in Pipes : kept[s] = written[s] /\ \A p \in Family : s \notin holds[p]
              /\ exit = IF status = "completed" THEN "zero" ELSE "nonzero"
        /\ status = "timeout" => late
        /\ status = "stdout_limit" => kept["stdout"] = Limit + 1
        /\ status = "stderr_limit" => kept["stderr"] = Limit + 1

(* When the call is over the leader is dead, and a helper lives on only if *)
(* it has left the group, or if the leader had ended before the group was  *)
(* to be killed; of a sandbox nothing does.                                *)
NobodyIsLeft ==
    AtEnd =>
        /\ "leader" \notin alive
        /\ "helper" \in alive => ~sandboxed /\ (escaped \/ exit # "killed")

(* Once the deadline has passed, the call ends, except for a plain command *)
(* that has closed its pipes and runs on.                                  *)
HeldByPlainCommand == pc = "waiting" /\ "leader" \in alive /\ ~sandboxed

EndsByTheDeadline == late ~> AtEnd \/ HeldByPlainCommand
=============================================================================
