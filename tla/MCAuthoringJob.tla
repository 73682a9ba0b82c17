--------------------------- MODULE MCAuthoringJob ---------------------------
(***************************************************************************)
(* The job, and the moment between two calls from which on nothing is cut  *)
(* short any more and one operator makes the calls; or one run of the      *)
(* proposer, which the job takes as one step, by itself.  One of the two   *)
(* parts moves in a behaviour.                                             *)
(***************************************************************************)
EXTENDS AuthoringJob

CONSTANTS Limit, MaxBytes

VARIABLES
    part,
    calm,           \* no call is interrupted any more
    sandboxed, escaped, alive, holds, exit, pipe, written, kept, open, ready, late,
    runPc, status

jobVars == <<vars, calm>>
runVars ==
    <<sandboxed, escaped, alive, holds, exit, pipe, written, kept, open, ready, late,
      runPc, status>>

Run == INSTANCE ProposerRun WITH pc <- runPc

NoRun ==
    /\ sandboxed = None /\ escaped = None /\ alive = None /\ holds = None /\ exit = None
    /\ pipe = None /\ written = None /\ kept = None /\ open = None /\ ready = None
    /\ late = None /\ runPc = None /\ status = None

PartsInit ==
    /\ part \in {"job", "proposer"}
    /\ Init /\ calm = FALSE
    /\ IF part = "proposer" THEN Run!Init ELSE NoRun

Operator == CHOOSE p \in Procs : TRUE

CalmingNext ==
    \/ /\ Next /\ UNCHANGED calm
       /\ calm => \A p \in Procs : ~Interrupt(p) /\ (p # Operator => pc'[p] = "idle")
    \/ ~calm /\ lock = None /\ calm' = TRUE /\ UNCHANGED vars

PartsNext ==
    \/ part = "job" /\ CalmingNext /\ UNCHANGED <<part, runVars>>
    \/ part = "proposer" /\ Run!Next /\ UNCHANGED <<part, jobVars>>

(* A process takes its next step, and an operator who holds the pinned     *)
(* inputs runs the job again while it is not finished.  The caller of a    *)
(* proposer goes on, and time passes; nothing is assumed of the proposer.  *)
Fairness ==
    /\ \A p \in Procs : WF_jobVars(Step(p) /\ part = "job" /\ UNCHANGED calm)
    /\ \A in \in Inputs :
          SF_jobVars(Call(Operator, in) /\ part = "job" /\ UNCHANGED calm)
    /\ WF_runVars(part = "proposer" /\ Run!Caller)
    /\ WF_runVars(part = "proposer" /\ Run!DeadlinePasses)

LiveSpec == PartsInit /\ [][PartsNext]_<<part, jobVars, runVars>> /\ Fairness

(* An attempt that was launched and never completed, or a slot that never  *)
(* got its request.                                                        *)
Stuck ==
    \E o \in Ordinals :
        \/ slot[o].launched /\ slot[o].completion = None
        \/ slot[o].dir /\ slot[o].request = None

(* Wherever else a call was cut short, the job can be resumed to its end   *)
(* (automatic_task_authoring.md:31: "A failed or interrupted attempt       *)
(* remains in the durable single chain and can be resumed").               *)
ResumesToTheEnd == (calm /\ lock = None /\ ~Stuck) ~> (result # None)

(* One run of the proposer: what is said of how it ended is so, an answer  *)
(* that counts is all that was ever written; and nobody of its group or of *)
(* its sandbox outlives the call, but for what left the group or lost its  *)
(* leader (run_proposer).                                                  *)
ProposerIsTrue ==
    part = "proposer" => Run!TypeOK /\ Run!StatusIsTrue /\ Run!NobodyIsLeft

(* And past the deadline the call ends, except for a plain command that    *)
(* closed its pipes and runs on.                                           *)
ProposerEnds ==
    (part = "proposer" /\ late)
        ~> (part = "proposer" => Run!AtEnd \/ Run!HeldByPlainCommand)

(* Both kinds of call come to their end.                                   *)
CallsEnd == ResumesToTheEnd /\ ProposerEnds
=============================================================================
