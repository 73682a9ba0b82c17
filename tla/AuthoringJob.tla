---------------------------- MODULE AuthoringJob ----------------------------
(***************************************************************************)
(* run_durable_automatic_authoring of                                      *)
(* src/rexpolicy/tasking/authoring_job.py: one authoring job, kept in one  *)
(* directory, that any number of processes may run and resume.             *)
(*                                                                         *)
(* Every attempt has a slot, a directory that gains three immutable files  *)
(* in order: the request, the launch marker, the completion.  The proposer *)
(* is an external, paid call: it runs after the marker is durable and      *)
(* before the completion is, and what it answered is first published in    *)
(* the quarantine, whose descriptor comes after its payload.  A process    *)
(* may stop between any two of these steps; flock serialises the callers.  *)
(*                                                                         *)
(* A request names the attempt it follows, whose fingerprint determines    *)
(* all the earlier ones: it is the chain before it.  An attempt is the     *)
(* proposer's run that produced it and the decision taken on its answer.   *)
(***************************************************************************)
EXTENDS Integers, Sequences, FiniteSets

CONSTANTS
    Procs,              \* the processes that run or resume the job
    Inputs,             \* what a manifest pins: intent, brief, command, ...
    MaxAttempts,        \* authoring_policy.max_attempts
    None

Ordinals == 1 .. MaxAttempts

Statuses == {"candidate", "repair_requested", "rejected"}

Attempt == [run : Nat, status : Statuses]

ASSUME JobAssumption ==
    /\ MaxAttempts \in Nat \ {0}
    /\ None \notin Procs
    /\ None \notin Inputs
    /\ None \notin Attempt
    /\ None \notin Seq(Attempt)

VARIABLES
    manifest,           \* the job's manifest, or None
    slot,               \* slot[o]: the directory of attempt o
    payload,            \* quarantine entries whose payload is there
    described,          \* quarantine entries that have their descriptor
    result,             \* the job's result record, or None
    lock,               \* the process holding .authoring-job.lock, or None
    pc,                 \* pc[p]: where p is
    inputs,             \* inputs[p]: what p's caller pins
    chain,              \* chain[p]: the attempts p knows to be completed
    got,                \* got[p]: the attempt p's proposer run produced
    answer,             \* answer[p]: what p was last given, or None
    outcome,            \* outcome[p]: how p's last call ended
    runs,               \* history: the ordinals the proposer was run for
    lost                \* history: where a call was cut short

files == <<manifest, slot, payload, described, result>>
local == <<pc, inputs, chain, got, answer, outcome>>
vars == <<files, lock, local, runs, lost>>

Slot == [dir : BOOLEAN, request : Seq(Attempt) \cup {None}, launched : BOOLEAN,
         completion : Attempt \cup {None}]

Init ==
    /\ manifest = None
    /\ slot = [o \in Ordinals |-> [dir |-> FALSE, request |-> None,
                                   launched |-> FALSE, completion |-> None]]
    /\ payload = {}
    /\ described = {}
    /\ result = None
    /\ lock = None
    /\ pc = [p \in Procs |-> "idle"]
    /\ inputs = [p \in Procs |-> None]
    /\ chain = [p \in Procs |-> << >>]
    /\ got = [p \in Procs |-> None]
    /\ answer = [p \in Procs |-> None]
    /\ outcome = [p \in Procs |-> "none"]
    /\ runs = << >>
    /\ lost = {}

Terminal(status) == status \in {"candidate", "rejected"}

(* The attempt p is at. *)
Ordinal(p) == Len(chain[p]) + 1

(* A plausible defect: resuming goes on after a candidate. *)
Ended_Rejected(p) == chain[p] # << >> /\ chain[p][Len(chain[p])].status = "rejected"

(* The attempts p knows of have ended the chain. *)
Ended(p) == chain[p] # << >> /\ Terminal(chain[p][Len(chain[p])].status)

Goto(p, to) == pc' = [pc EXCEPT ![p] = to]

(* The call ends, and with it the flock. *)
Leave(p, how) ==
    /\ lock' = None
    /\ Goto(p, "idle")
    /\ outcome' = [outcome EXCEPT ![p] = how]
    /\ inputs' = [inputs EXCEPT ![p] = None]
    /\ chain' = [chain EXCEPT ![p] = << >>]
    /\ got' = [got EXCEPT ![p] = None]

(* The call raises: AmbiguousAuthoringAttemptError, or AuthoringJobDriftError,*)
(* a ValueError like that of the checks it stands beside.                    *)
Refuse(p, how) ==
    /\ Leave(p, how)
    /\ UNCHANGED <<files, answer, runs, lost>>

-----------------------------------------------------------------------------
(* Entering.                                                               *)

(* A plausible defect: the job is not locked. *)
Call_NoLock(p, in) ==
    /\ pc[p] = "idle"
    /\ lock' = p
    /\ inputs' = [inputs EXCEPT ![p] = in]
    /\ Goto(p, "open")
    /\ UNCHANGED <<files, chain, got, answer, outcome, runs, lost>>

(* _exclusive_job_lock is granted. *)
Call(p, in) ==
    /\ pc[p] = "idle"
    /\ lock = None
    /\ lock' = p
    /\ inputs' = [inputs EXCEPT ![p] = in]
    /\ Goto(p, "open")
    /\ UNCHANGED <<files, chain, got, answer, outcome, runs, lost>>

(* _validate_manifest publishes the manifest, or finds the pinned one. *)
Open(p) ==
    /\ pc[p] = "open"
    /\ manifest \in {None, inputs[p]}
    /\ manifest' = inputs[p]
    /\ Goto(p, "examine")
    /\ UNCHANGED <<slot, payload, described, result, lock, inputs, chain, got,
                   answer, outcome, runs, lost>>

OpenDrifted(p) ==
    /\ pc[p] = "open"
    /\ manifest \notin {None, inputs[p]}
    /\ Refuse(p, "drift")

-----------------------------------------------------------------------------
(* Reading the slots back, one per step, up to the first that is open.     *)

(* load_authoring_quarantine: an entry counts from its descriptor on, and  *)
(* then with all its payload.                                              *)
Quarantined(attempt) == attempt \in described /\ attempt \in payload

(* _load_completed_attempt: the request follows the chain read so far, and *)
(* the quarantine has what the completion names.                           *)
Loads(p, o) ==
    /\ slot[o].request = chain[p]
    /\ Quarantined(slot[o].completion)
    /\ slot[o].completion.status = "rejected" => o = MaxAttempts

Drifted(p) ==
    IF Ended(p) THEN \E o \in Ordinals : o > Len(chain[p]) /\ slot[o].dir
    ELSE \/ Ordinal(p) \notin Ordinals
         \/ LET s == slot[Ordinal(p)] IN
            /\ s.dir
            /\ \/ s.request = None
               \/ s.completion # None /\ ~(s.launched /\ Loads(p, Ordinal(p)))

(* validate_authoring_attempt_chain: only an attempt that was to be        *)
(* repaired has a successor, and no attempt is there twice.                *)
ValidChain(attempts) ==
    /\ \A i \in 1 .. Len(attempts) - 1 : attempts[i].status = "repair_requested"
    /\ \A i, j \in 1 .. Len(attempts) : attempts[i] = attempts[j] => i = j

(* A launch marker without a completion: the proposer may have run. *)
Ambiguous(p) ==
    /\ ~Ended(p)
    /\ slot[Ordinal(p)].launched /\ slot[Ordinal(p)].completion = None

ExamineDrifted(p) ==
    /\ pc[p] = "examine"
    /\ Drifted(p)
    /\ Refuse(p, "drift")

ExamineAmbiguous(p) ==
    /\ pc[p] = "examine"
    /\ ~Drifted(p)
    /\ Ambiguous(p)
    /\ Refuse(p, "ambiguous")

ExamineCompleted(p) ==
    /\ pc[p] = "examine"
    /\ ~Drifted(p) /\ ~Ended(p)
    /\ slot[Ordinal(p)].launched /\ slot[Ordinal(p)].completion # None
    /\ chain' = [chain EXCEPT ![p] = Append(@, slot[Ordinal(p)].completion)]
    /\ UNCHANGED <<files, lock, pc, inputs, got, answer, outcome, runs, lost>>

(* No directory, or a request nobody has launched. *)
ExamineOpen(p) ==
    /\ pc[p] = "examine"
    /\ ~Drifted(p) /\ ~Ended(p)
    /\ ~slot[Ordinal(p)].launched
    /\ IF ValidChain(chain[p])
       THEN /\ Goto(p, "slot")
            /\ UNCHANGED <<files, lock, inputs, chain, got, answer, outcome, runs, lost>>
       ELSE Refuse(p, "drift")

ExamineEnded(p) ==
    /\ pc[p] = "examine"
    /\ ~Drifted(p) /\ Ended(p)
    /\ Goto(p, "result")
    /\ UNCHANGED <<files, lock, inputs, chain, got, answer, outcome, runs, lost>>

-----------------------------------------------------------------------------
(* One attempt.                                                            *)

(* _attempt_directory: mkdir, without error if it is there. *)
MakeSlot(p) ==
    /\ pc[p] = "slot"
    /\ slot' = [slot EXCEPT ![Ordinal(p)].dir = TRUE]
    /\ Goto(p, "request")
    /\ UNCHANGED <<manifest, payload, described, result, lock, inputs, chain, got,
                   answer, outcome, runs, lost>>

(* A plausible defect: a request that is there already is an error. *)
PublishRequest_Once(p) ==
    /\ pc[p] = "request"
    /\ IF slot[Ordinal(p)].request = None
       THEN /\ slot' = [slot EXCEPT ![Ordinal(p)].request = chain[p]]
            /\ Goto(p, "mark")
            /\ UNCHANGED <<manifest, payload, described, result, lock, inputs, chain,
                           got, answer, outcome, runs, lost>>
       ELSE Refuse(p, "drift")

(* The request is published, or found as it would be now. *)
PublishRequest(p) ==
    /\ pc[p] = "request"
    /\ IF slot[Ordinal(p)].request \in {None, chain[p]}
       THEN /\ slot' = [slot EXCEPT ![Ordinal(p)].request = chain[p]]
            /\ Goto(p, "mark")
            /\ UNCHANGED <<manifest, payload, described, result, lock, inputs, chain,
                           got, answer, outcome, runs, lost>>
       ELSE Refuse(p, "drift")

(* launch_path.exists(), the last look before the proposer is committed to.*)
CheckMark(p) ==
    /\ pc[p] = "mark"
    /\ IF slot[Ordinal(p)].launched THEN Refuse(p, "ambiguous")
       ELSE /\ Goto(p, "launch")
            /\ UNCHANGED <<files, lock, inputs, chain, got, answer, outcome, runs, lost>>

(* A plausible defect: the proposer is run before the marker is written. *)
PublishMark_Unwritten(p) ==
    /\ pc[p] = "launch"
    /\ Goto(p, "propose")
    /\ UNCHANGED <<files, lock, inputs, chain, got, answer, outcome, runs, lost>>

(* The launch marker; one that has appeared meanwhile has the same content.*)
PublishMark(p) ==
    /\ pc[p] = "launch"
    /\ slot' = [slot EXCEPT ![Ordinal(p)].launched = TRUE]
    /\ Goto(p, "propose")
    /\ UNCHANGED <<manifest, payload, described, result, lock, inputs, chain, got,
                   answer, outcome, runs, lost>>

(* run_proposer, and what validate_static_candidate makes of its answer: a *)
(* proposer that fails or times out is an answer like an invalid one.      *)
Propose(p) ==
    /\ pc[p] = "propose"
    /\ runs' = Append(runs, Ordinal(p))
    /\ \E status \in {"candidate",
                      IF Ordinal(p) < MaxAttempts THEN "repair_requested" ELSE "rejected"} :
          got' = [got EXCEPT ![p] = [run |-> Len(runs) + 1, status |-> status]]
    /\ Goto(p, "payload")
    /\ UNCHANGED <<files, lock, inputs, chain, answer, outcome, lost>>

(* A plausible defect: the completion does not wait for the descriptor. *)
WritePayload_SkipsDescriptor(p) ==
    /\ pc[p] = "payload"
    /\ payload' = payload \cup {got[p]}
    /\ Goto(p, "complete")
    /\ UNCHANGED <<manifest, slot, described, result, lock, inputs, chain, got,
                   answer, outcome, runs, lost>>

(* write_authoring_quarantine: response, attempt, invocation, candidate. *)
WritePayload(p) ==
    /\ pc[p] = "payload"
    /\ payload' = payload \cup {got[p]}
    /\ Goto(p, "descriptor")
    /\ UNCHANGED <<manifest, slot, described, result, lock, inputs, chain, got,
                   answer, outcome, runs, lost>>

(* The descriptor is the quarantine's commit marker. *)
WriteDescriptor(p) ==
    /\ pc[p] = "descriptor"
    /\ described' = described \cup {got[p]}
    /\ Goto(p, "complete")
    /\ UNCHANGED <<manifest, slot, payload, result, lock, inputs, chain, got,
                   answer, outcome, runs, lost>>

(* The completion; the loop goes on with the next attempt, or ends. *)
PublishCompletion(p) ==
    /\ pc[p] = "complete"
    /\ IF slot[Ordinal(p)].completion \in {None, got[p]}
       THEN /\ slot' = [slot EXCEPT ![Ordinal(p)].completion = got[p]]
            /\ chain' = [chain EXCEPT ![p] = Append(@, got[p])]
            /\ got' = [got EXCEPT ![p] = None]
            /\ Goto(p, IF Terminal(got[p].status) THEN "result" ELSE "slot")
            /\ UNCHANGED <<manifest, payload, described, result, lock, inputs,
                           answer, outcome, runs, lost>>
       ELSE Refuse(p, "drift")

(* The chain is checked, and the result record published, or found as it   *)
(* would be now.                                                           *)
PublishResult(p) ==
    /\ pc[p] = "result"
    /\ IF ValidChain(chain[p]) /\ result \in {None, chain[p]}
       THEN /\ result' = chain[p]
            /\ answer' = [answer EXCEPT ![p] = chain[p]]
            /\ Leave(p, "answered")
            /\ UNCHANGED <<manifest, slot, payload, described, runs, lost>>
       ELSE Refuse(p, "drift")

(* The process dies, or a step raises: the flock is dropped, files stay. *)
Interrupt(p) ==
    /\ pc[p] # "idle"
    /\ Leave(p, "interrupted")
    /\ lost' = lost \cup {pc[p]}
    /\ UNCHANGED <<files, answer, runs>>

-----------------------------------------------------------------------------
Step(p) ==
    \/ Open(p) \/ OpenDrifted(p)
    \/ ExamineDrifted(p) \/ ExamineAmbiguous(p) \/ ExamineCompleted(p)
    \/ ExamineOpen(p) \/ ExamineEnded(p)
    \/ MakeSlot(p) \/ PublishRequest(p) \/ CheckMark(p) \/ PublishMark(p)
    \/ Propose(p) \/ WritePayload(p) \/ WriteDescriptor(p)
    \/ PublishCompletion(p) \/ PublishResult(p)

Next == \E p \in Procs : Step(p) \/ Interrupt(p) \/ \E in \in Inputs : Call(p, in)

Spec == Init /\ [][Next]_vars

-----------------------------------------------------------------------------
(* Properties.                                                             *)

Labels == {"idle", "open", "examine", "slot", "request", "mark", "launch", "propose",
           "payload", "descriptor", "complete", "result"}

(* The labels between a launch marker and the completion. *)
InFlight == {"propose", "payload", "descriptor", "complete"}

(* The types of the files, the processes and the history. *)
TypeOK ==
    /\ manifest \in Inputs \cup {None}
    /\ slot \in [Ordinals -> Slot]
    /\ payload \subseteq Attempt /\ described \subseteq Attempt
    /\ result \in Seq(Attempt) \cup {None}
    /\ lock \in Procs \cup {None}
    /\ pc \in [Procs -> Labels]
    /\ inputs \in [Procs -> Inputs \cup {None}]
    /\ chain \in [Procs -> Seq(Attempt)]
    /\ got \in [Procs -> Attempt \cup {None}]
    /\ answer \in [Procs -> Seq(Attempt) \cup {None}]
    /\ outcome \in [Procs -> {"none", "answered", "drift", "ambiguous", "interrupted"}]
    /\ runs \in Seq(Ordinals)
    /\ lost \subseteq Labels

(* The attempts that have a completion, in order of their slots. *)
Done == {o \in Ordinals : slot[o].completion # None}

Completed == [o \in Done |-> slot[o].completion]

(* One process at a time is inside; the others have let go of everything. *)
Locked ==
    \A p \in Procs :
        /\ pc[p] # "idle" <=> lock = p
        /\ pc[p] = "idle" => inputs[p] = None /\ chain[p] = << >> /\ got[p] = None

(* The first n slots are completed, by the first n proposer runs, and only *)
(* the last of them may end the chain; slot n+1 is the only other one that *)
(* is touched, and without its launch marker its proposer has not run.     *)
Journal(n) ==
    /\ Done = 1 .. n
    /\ Len(runs) \in {n, n + 1}
    /\ \A i \in 1 .. Len(runs) : runs[i] = i
    /\ Len(runs) = n + 1 => n < MaxAttempts /\ slot[n + 1].launched
    /\ \A o \in Ordinals :
          /\ o <= n => /\ slot[o].launched
                       /\ slot[o].completion.run = o
                       /\ slot[o].completion.status = "repair_requested" => o < MaxAttempts
                       /\ slot[o].completion.status = "rejected" => o = MaxAttempts
                       /\ o < n => ~Terminal(slot[o].completion.status)
          /\ slot[o].launched =>
                /\ o <= n + 1
                /\ o = n + 1 /\ n > 0 => ~Terminal(slot[n].completion.status)

(* What p has read is a beginning of the journal, all of it once p goes on *)
(* from it.                                                                *)
Reads(p, n) ==
    /\ Len(chain[p]) <= n
    /\ \A i \in 1 .. Len(chain[p]) : chain[p][i] = slot[i].completion
    /\ pc[p] \notin {"idle", "open", "examine"} => Len(chain[p]) = n
    /\ pc[p] = "open" => chain[p] = << >>
    /\ pc[p] = "result" => Ended(p)
    /\ pc[p] \in {"slot", "request", "mark", "launch"} \cup InFlight =>
           n < MaxAttempts /\ ~Ended(p)
    /\ pc[p] \in {"slot", "request", "mark", "launch"} => ~slot[n + 1].launched
    /\ pc[p] \in InFlight => slot[n + 1].launched
    /\ pc[p] = "propose" => Len(runs) = n
    /\ pc[p] \in {"payload", "descriptor", "complete"} =>
           /\ Len(runs) = n + 1
           /\ got[p] \in Attempt
           /\ got[p].run = n + 1
           /\ got[p].status = "repair_requested" => n + 1 < MaxAttempts
           /\ got[p].status = "rejected" => n + 1 = MaxAttempts

(* A result is the whole chain, which has ended. *)
Resulted(n) ==
    /\ result # None => /\ Len(result) = n /\ n > 0
                        /\ \A i \in 1 .. n : result[i] = slot[i].completion
                        /\ Terminal(slot[n].completion.status)
    /\ \A p \in Procs : answer[p] # None => answer[p] = result

(* The journal the processes leave behind, at every moment and wherever    *)
(* they were stopped, is one chain of completed attempts with at most one  *)
(* launch beyond its end, and each process inside works at that end: no    *)
(* stale view of the slots is ever acted on.                               *)
JobInv ==
    /\ TypeOK
    /\ Locked
    /\ \E n \in 0 .. MaxAttempts :
          /\ Journal(n)
          /\ \A p \in Procs : Reads(p, n)
          /\ Resulted(n)

(* However many processes run the job, and wherever they stop, the         *)
(* proposer is run at most once for each attempt, so never more often than *)
(* the budget allows, counting all restarts together                       *)
(* (test_unresolved_launch_marker_is_ambiguous_and_never_retried,          *)
(* test_attempt_budget_is_global_across_restarts).                         *)
OncePerAttempt ==
    \A i, j \in 1 .. Len(runs) : runs[i] = runs[j] => i = j

(* Whoever is answered is given the whole chain, which has ended: no       *)
(* attempt is made after an answer, and all answers agree                  *)
(* (test_terminal_rerun_is_idempotent_and_does_not_reinvoke).              *)
AnswersAreFinal ==
    \A p \in Procs : answer[p] # None =>
        /\ answer[p] = Completed
        /\ answer[p] = result
        /\ Terminal(answer[p][Len(answer[p])].status)

(* With the pinned inputs a call is refused only because of where an       *)
(* earlier one was cut short: a launch that left no completion, or an      *)
(* attempt directory that did not get its request.  From everywhere else   *)
(* the job is resumed.                                                     *)
RefusedOnlyForCause ==
    [][\A p \in Procs :
          /\ pc[p] # "idle" /\ outcome'[p] = "drift" /\ pc'[p] = "idle" =>
                 inputs[p] # manifest \/ "request" \in lost
          /\ pc[p] # "idle" /\ outcome'[p] = "ambiguous" /\ pc'[p] = "idle" =>
                 lost \cap InFlight # {}]_vars

(* automatic_task_authoring.md:48: "Reusing the same bundle and run        *)
(* directory resumes the chain; changing a pinned input is rejected as     *)
(* drift."  So drift is reported only of a changed input.                  *)
DriftMeansChangedInput ==
    [][\A p \in Procs :
          pc[p] # "idle" /\ outcome'[p] = "drift" /\ pc'[p] = "idle" =>
              inputs[p] # manifest]_vars

(* The job implements one chain of attempts. *)
Chain == INSTANCE AuthoringChain WITH
             Callers <- Procs, chain <- Completed, answer <- answer,
             running <- Len(runs) > Cardinality(Done)

ImplementsChain == Chain!ChainSpec
=============================================================================
