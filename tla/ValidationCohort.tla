-------------------------- MODULE ValidationCohort --------------------------
(***************************************************************************)
(* The grasp-lift validation cohort: runs that author it                   *)
(* (tools/run_stage0_grasp_lift_validation_authoring.py) and runs that     *)
(* select a checkpoint on it (tools/run_stage0_grasp_lift_no_z_selection.  *)
(* py), each run a process of its own, several at a time.  Before its      *)
(* seeds are simulated, and before its shards are read, a claim is created *)
(* with O_EXCL in a registry under the Git common directory                *)
(* (stage0/data/grasp_lift_validation_cohort.py, _claim.py).               *)
(*                                                                         *)
(* A run may raise at any step, be killed, or go down with the machine;    *)
(* then what was not yet flushed of a claim may be lost.                   *)
(***************************************************************************)
EXTENDS Naturals

CONSTANTS
    Authors, Selectors,     \* runs
    Outputs,                \* output directories of selection runs
    Choices,                \* what a claim commits to: implementation, candidates
    None

VARIABLES
    authoring,      \* the authoring claim of the cohort slot, or None
    selecting,      \* the selection claim of the cohort, or None
    cohort,         \* what the published cohort was authored with, or None
    output,         \* the output directories of selection runs
    seen,           \* history: how often the seeds were simulated, with what
    held,           \* history: how often the shards were opened, for what
    run             \* the runs: where they are, their choice and their output

vars == <<authoring, selecting, cohort, output, seen, held, run>>

Runs == Authors \cup Selectors

(* whole: all of the record was written.  durable: it survives the machine.*)
Claim == [by : Runs, of : Choices, whole : BOOLEAN, durable : BOOLEAN]

(* status.json of a selection output: its state, whose it is, and whether  *)
(* claim.json, selection.json and audit.json are there.                    *)
States == {"initialized", "preflight_complete", "claimed", "evaluating", "complete",
           "burned", "error"}

Output == [of : Selectors, state : States, files : SUBSET {"claim", "selection", "audit"}]

(* A run's SelectionOutput: created, and claimed. *)
Run == [at : {"idle", "prepared", "created", "preflight", "writing", "flushing",
              "claimed", "authored", "opened", "selected", "audited", "completed",
              "failing", "ended"},
        choice : Choices \cup {None}, dir : Outputs \cup {None},
        created : BOOLEAN, claimed : BOOLEAN]

(* What is assumed of the constants where it matters: in the proofs. *)
CohortAssumption ==
    /\ Authors \cap Selectors = {}
    /\ None \notin Claim /\ None \notin Output /\ None \notin Choices /\ None \notin Outputs

Idle == [at |-> "idle", choice |-> None, dir |-> None, created |-> FALSE, claimed |-> FALSE]

Never == [times |-> 0, of |-> None]

Init ==
    /\ authoring = None /\ selecting = None /\ cohort = None
    /\ output = [p \in Outputs |-> None]
    /\ seen = Never /\ held = Never
    /\ run = [r \in Runs |-> Idle]

At(r, here) == run[r].at = here

Goto(r, to) == run' = [run EXCEPT ![r].at = to]

(* The process raises; a selection run still has its handler to run. *)
Raise(r) == Goto(r, IF r \in Selectors THEN "failing" ELSE "ended")

Fresh(r, choice) == [by |-> r, of |-> choice, whole |-> FALSE, durable |-> FALSE]

(* verify_persisted_...: the file has the very bytes of the claim. *)
Holds(claim, choice) == claim # None /\ claim.whole /\ claim.of = choice

Again(h, choice) == [times |-> h.times + 1, of |-> choice]

-----------------------------------------------------------------------------
(* Authoring. *)

(* main: the output must not exist; then _persist_authoring_claim_once. *)
ClaimSeeds(a, choice) ==
    /\ At(a, "idle")
    /\ IF authoring # None THEN Raise(a) /\ UNCHANGED authoring
       ELSE /\ authoring' = Fresh(a, choice)
            /\ run' = [run EXCEPT ![a].at = "writing", ![a].choice = choice]
    /\ UNCHANGED <<selecting, cohort, output, seen, held>>

RefuseTarget(a) ==
    /\ At(a, "idle") /\ cohort # None
    /\ Raise(a)
    /\ UNCHANGED <<authoring, selecting, cohort, output, seen, held>>

WriteSeedClaim(a) ==
    /\ At(a, "writing")
    /\ authoring' = [authoring EXCEPT !.whole = TRUE]
    /\ Goto(a, "flushing")
    /\ UNCHANGED <<selecting, cohort, output, seen, held>>

FlushSeedClaim(a) ==
    /\ At(a, "flushing")
    /\ authoring' = [authoring EXCEPT !.durable = TRUE]
    /\ Goto(a, "claimed")
    /\ UNCHANGED <<selecting, cohort, output, seen, held>>

(* adapter.reset(seed=config.seeds) and the episodes. *)
SimulateSeeds(a) ==
    /\ At(a, "claimed")
    /\ seen' = Again(seen, run[a].choice)
    /\ Goto(a, "authored")
    /\ UNCHANGED <<authoring, selecting, cohort, output, held>>

(* The acceptance holds: manifest, status and commit, then the rename. *)
PublishCohort(a) ==
    /\ At(a, "authored")
    /\ cohort' = run[a].choice
    /\ Goto(a, "ended")
    /\ UNCHANGED <<authoring, selecting, output, seen, held>>

-----------------------------------------------------------------------------
(* Selection. *)

(* The output must not exist; prepare verifies the persisted authoring     *)
(* claim against the cohort's manifest.                                    *)
Prepare(s, choice, dir) ==
    /\ At(s, "idle")
    /\ IF output[dir] = None /\ cohort # None /\ Holds(authoring, cohort)
       THEN run' = [run EXCEPT ![s].at = "prepared", ![s].choice = choice, ![s].dir = dir]
       ELSE Raise(s)
    /\ UNCHANGED <<authoring, selecting, cohort, output, seen, held>>

Write(s, state, files) ==
    output' = [output EXCEPT ![run[s].dir].state = state, ![run[s].dir].files = @ \cup files]

Create(s) ==
    /\ At(s, "prepared")
    /\ IF output[run[s].dir] # None THEN Raise(s) /\ UNCHANGED output
       ELSE /\ output' = [output EXCEPT ![run[s].dir] =
                             [of |-> s, state |-> "initialized", files |-> {}]]
            /\ run' = [run EXCEPT ![s].at = "created", ![s].created = TRUE]
    /\ UNCHANGED <<authoring, selecting, cohort, seen, held>>

WritePreflight(s) ==
    /\ At(s, "created")
    /\ Write(s, "preflight_complete", {})
    /\ Goto(s, "preflight")
    /\ UNCHANGED <<authoring, selecting, cohort, seen, held>>

(* A plausible defect: output.claimed is set when the claim was persisted. *)
ClaimHeldOut_FlagsLate(s) ==
    /\ At(s, "preflight")
    /\ IF selecting # None THEN Raise(s) /\ UNCHANGED selecting
       ELSE selecting' = Fresh(s, run[s].choice) /\ Goto(s, "writing")
    /\ UNCHANGED <<authoring, cohort, output, seen, held>>

(* output.claimed = True, and then persist_claim. *)
ClaimHeldOut(s) ==
    /\ At(s, "preflight")
    /\ IF selecting # None
       THEN run' = [run EXCEPT ![s].claimed = TRUE, ![s].at = "failing"] /\ UNCHANGED selecting
       ELSE /\ run' = [run EXCEPT ![s].claimed = TRUE, ![s].at = "writing"]
            /\ selecting' = Fresh(s, run[s].choice)
    /\ UNCHANGED <<authoring, cohort, output, seen, held>>

WriteHeldOutClaim(s) ==
    /\ At(s, "writing")
    /\ selecting' = [selecting EXCEPT !.whole = TRUE]
    /\ Goto(s, "flushing")
    /\ UNCHANGED <<authoring, cohort, output, seen, held>>

(* A plausible defect: the claim is not flushed before it counts as made. *)
FlushHeldOutClaim_Later(s) ==
    /\ At(s, "flushing")
    /\ Goto(s, "claimed")
    /\ UNCHANGED <<authoring, selecting, cohort, output, seen, held>>

FlushHeldOutClaim(s) ==
    /\ At(s, "flushing")
    /\ selecting' = [selecting EXCEPT !.durable = TRUE]
    /\ Goto(s, "claimed")
    /\ UNCHANGED <<authoring, cohort, output, seen, held>>

(* verify_claim_receipt, claim.json, mark_claimed; load_validation verifies *)
(* again and opens the six shards.                                          *)
OpenHeldOut(s) ==
    /\ At(s, "claimed")
    /\ IF Holds(selecting, run[s].choice)
       THEN /\ Write(s, "claimed", {"claim"})
            /\ held' = Again(held, run[s].choice)
            /\ Goto(s, "opened")
       ELSE Raise(s) /\ UNCHANGED <<output, held>>
    /\ UNCHANGED <<authoring, selecting, cohort, seen>>

(* Every candidate is evaluated; selection.json is written once. *)
Select(s) ==
    /\ At(s, "opened")
    /\ Write(s, "evaluating", {"selection"})
    /\ Goto(s, "selected")
    /\ UNCHANGED <<authoring, selecting, cohort, seen, held>>

(* What was written is read back, the claim verified once more. *)
Audit(s) ==
    /\ At(s, "selected")
    /\ IF Holds(selecting, run[s].choice)
       THEN Write(s, "evaluating", {"audit"}) /\ Goto(s, "audited")
       ELSE Raise(s) /\ UNCHANGED output
    /\ UNCHANGED <<authoring, selecting, cohort, seen, held>>

MarkComplete(s) ==
    /\ At(s, "audited")
    /\ Write(s, "complete", {})
    /\ Goto(s, "completed")
    /\ UNCHANGED <<authoring, selecting, cohort, seen, held>>

Return(s) ==
    /\ At(s, "completed")
    /\ Goto(s, "ended")
    /\ UNCHANGED <<authoring, selecting, cohort, output, seen, held>>

(* mark_failed: nothing to say in a directory this run did not create. *)
MarkFailed(s) ==
    /\ At(s, "failing")
    /\ IF run[s].created THEN Write(s, IF run[s].claimed THEN "burned" ELSE "error", {})
       ELSE UNCHANGED output
    /\ Goto(s, "ended")
    /\ UNCHANGED <<authoring, selecting, cohort, seen, held>>

-----------------------------------------------------------------------------
(* Failures. *)

(* An exception out of a step. *)
Fails(r) ==
    /\ run[r].at \notin {"idle", "failing", "ended"}
    /\ Raise(r)
    /\ UNCHANGED <<authoring, selecting, cohort, output, seen, held>>

(* One out of writing or flushing a claim: what there is of it stays, and  *)
(* is flushed if it can be.                                                *)
FailsClaiming(r) ==
    /\ run[r].at \in {"writing", "flushing"}
    /\ IF r \in Authors
       THEN authoring' = [authoring EXCEPT !.durable = TRUE] /\ UNCHANGED selecting
       ELSE selecting' = [selecting EXCEPT !.durable = TRUE] /\ UNCHANGED authoring
    /\ Raise(r)
    /\ UNCHANGED <<cohort, output, seen, held>>

Kill(r) ==
    /\ run[r].at \notin {"idle", "ended"}
    /\ Goto(r, "ended")
    /\ UNCHANGED <<authoring, selecting, cohort, output, seen, held>>

(* What the disk has of a claim after the machine went down. *)
Surviving(claim) ==
    IF claim = None THEN {None}
    ELSE IF claim.durable THEN {claim}
    ELSE {None, [claim EXCEPT !.whole = FALSE, !.durable = TRUE],
          [claim EXCEPT !.durable = TRUE]}

PowerLoss ==
    /\ \E r \in Runs : run[r].at \notin {"idle", "ended"}
    /\ authoring' \in Surviving(authoring)
    /\ selecting' \in Surviving(selecting)
    /\ run' = [r \in Runs |-> IF At(r, "idle") THEN run[r] ELSE [run[r] EXCEPT !.at = "ended"]]
    /\ UNCHANGED <<cohort, output, seen, held>>

Author(a) ==
    \/ (\E c \in Choices : ClaimSeeds(a, c)) \/ RefuseTarget(a) \/ WriteSeedClaim(a) \/ FlushSeedClaim(a)
    \/ SimulateSeeds(a) \/ PublishCohort(a)

Selector(s) ==
    \/ (\E c \in Choices, p \in Outputs : Prepare(s, c, p)) \/ Create(s) \/ WritePreflight(s) \/ ClaimHeldOut(s)
    \/ WriteHeldOutClaim(s) \/ FlushHeldOutClaim(s) \/ OpenHeldOut(s)
    \/ Select(s) \/ Audit(s) \/ MarkComplete(s) \/ Return(s) \/ MarkFailed(s)

Next ==
    \/ PowerLoss
    \/ \E a \in Authors : Author(a)
    \/ \E s \in Selectors : Selector(s)
    \/ \E r \in Runs : Fails(r) \/ FailsClaiming(r) \/ Kill(r)

Spec == Init /\ [][Next]_vars

-----------------------------------------------------------------------------
(* Properties. *)

TypeOK ==
    /\ authoring \in Claim \cup {None} /\ selecting \in Claim \cup {None}
    /\ cohort \in Choices \cup {None}
    /\ output \in [Outputs -> Output \cup {None}]
    /\ seen.times \in Nat /\ held.times \in Nat
    /\ run \in [Runs -> Run]

Settled(claim) == IF claim # None /\ claim.whole /\ claim.durable THEN claim.of ELSE None

(* The seeds of a cohort are simulated once, after a claim that survives   *)
(* the machine and with the implementation it names; the cohort that is    *)
(* published is of that simulation.                                        *)
Authored == INSTANCE OneTimeTest WITH
    claimed <- Settled(authoring),
    openings <- seen.times, tested <- seen.of, result <- cohort

AuthoredOnce == Authored!Spec

(* The held-out shards are opened once, after a claim that survives the    *)
(* machine and for the candidates it names, and so is the selection.       *)
Selection ==
    LET P == {p \in Outputs : output[p] # None /\ "selection" \in output[p].files}
    IN  IF P = {} THEN None ELSE run[output[CHOOSE p \in P : TRUE].of].choice

Opened == INSTANCE OneTimeTest WITH
    claimed <- Settled(selecting),
    openings <- held.times, tested <- held.of, result <- Selection

OpenedOnce == Opened!Spec

(* status.json never invites a retry that cannot succeed or would open the *)
(* data again: "error", with "fresh output required", is never the status  *)
(* of a run whose claim is in the registry; "complete" is that of the run  *)
(* that claimed and opened the cohort, with all of its files.              *)
StatusIsHonest ==
    \A p \in Outputs : output[p] # None =>
        LET o == output[p] IN
        /\ o.state = "error" => (selecting = None \/ selecting.by # o.of)
        /\ o.state = "complete" =>
              /\ selecting # None /\ selecting.by = o.of /\ held.times = 1
              /\ o.files = {"claim", "selection", "audit"}
=============================================================================
