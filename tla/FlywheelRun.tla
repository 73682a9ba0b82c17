---------------------------- MODULE FlywheelRun ----------------------------
(***************************************************************************)
(* The generation loop of tools/run_flywheel_ddp.py (main), over all the   *)
(* launches of one run directory: collect, update, gate, checkpoint; STOP  *)
(* files and signals; rejection; crashes; resuming.                        *)
(*                                                                         *)
(* The ranks of a launch move through the loop in step (every decision is  *)
(* reduced or broadcast first), so the launch is one process here, and its *)
(* save() is one step, which is what module CheckpointSave justifies.      *)
(* Weights are abstracted to their history: a model is the sequence of     *)
(* launches that trained generations 1, 2, ... of it, so two models are    *)
(* equal exactly when the same launches trained them.  Held-out metrics    *)
(* are abstracted to the model they were measured on.                      *)
(***************************************************************************)
EXTENDS Integers, SequencesExt

CONSTANTS
    Ranks,              \* the workers of a launch
    Limits,             \* the values given to --max-generations
    CheckpointEvery,    \* --checkpoint-every
    EvalEvery,          \* --eval-every
    EvalAtStart,        \* --eval-at-start
    EvalAtEnd,          \* --eval-at-end
    MaxLaunches,        \* bound: launches of the run directory
    None

ASSUME RunAssumption ==
    /\ Limits \subseteq Nat \ {0}
    /\ \E n \in Limits : \A m \in Limits : m <= n
    /\ CheckpointEvery \in Nat \ {0}
    /\ EvalEvery \in Nat
    /\ EvalAtStart \in BOOLEAN /\ EvalAtEnd \in BOOLEAN
    /\ MaxLaunches \in Nat

VARIABLES
    ckpt,               \* ckpt[g]: checkpoint generation-g, or None
    lastGoodFile,       \* the generation last_good.json names, or None
    stop,               \* the STOP file exists
    launches,           \* how many launches there were
    pc,                 \* where the current launch is
    limit,              \* its --max-generations
    source,             \* the checkpoint it resumes from
    clearing,           \* ranks that have not yet cleared STOP
    signalled,          \* a worker received SIGINT or SIGTERM
    gen,                \* completed_generation
    model,              \* who trained what it holds
    archive,            \* committed Success Archive shards: <<launch, generation>>
    pending,            \* the generation's written, uncommitted shard
    lastGood,           \* last_good, or None
    accepted,           \* the gate's verdict on this generation
    stopAfter,          \* stop_after_generation
    status,             \* terminal status of the last launch that ended
    fault,              \* history: the launch met an error it is not to blame for
    sinceStop,          \* history: updates made while STOP was there
    rewound             \* history: a launch resumed from before the latest checkpoint

memory == <<gen, model, archive, pending, lastGood, accepted, stopAfter>>
disk == <<ckpt, lastGoodFile>>
launch == <<launches, limit, source, clearing, rewound>>
vars == <<disk, stop, launch, pc, signalled, memory, status, fault, sinceStop>>

Generations == 0 .. Max(Limits)

Models == UNION {[1 .. n -> 1 .. MaxLaunches] : n \in Generations}

Checkpoints ==
    [model : Models, accepted : BOOLEAN, lastGood : Models \cup {None},
     archive : SUBSET ((1 .. MaxLaunches) \X Generations), limit : Limits]

ASSUME NoneAssumption == None \notin Checkpoints

Init ==
    /\ ckpt = [g \in Generations |-> None]
    /\ lastGoodFile = None
    /\ stop = FALSE
    /\ launches = 0
    /\ pc = "down"
    /\ limit = 0
    /\ source = None
    /\ clearing = {}
    /\ signalled = FALSE
    /\ gen = 0
    /\ model = << >>
    /\ archive = {}
    /\ pending = {}
    /\ lastGood = None
    /\ accepted = TRUE
    /\ stopAfter = FALSE
    /\ status = "none"
    /\ fault = FALSE
    /\ sinceStop = 0
    /\ rewound = FALSE

Goto(to) == pc' = to /\ UNCHANGED status

Ends(how) == pc' = "down" /\ status' = how

-----------------------------------------------------------------------------
(* Launching.                                                              *)

Launch(to, n, from, ranks) ==
    /\ pc = "down"
    /\ launches < MaxLaunches
    /\ launches' = launches + 1
    /\ limit' = n
    /\ source' = from
    /\ clearing' = ranks
    /\ signalled' = FALSE
    /\ fault' = FALSE
    /\ sinceStop' = 0
    /\ Goto(to)
    /\ UNCHANGED <<disk, stop>>

(* A plain launch is refused in a directory that holds any artifact. *)
LaunchFresh(n) ==
    /\ launches = 0
    /\ Launch("baseline", n, None, {})
    /\ gen' = 0 /\ model' = << >> /\ archive' = {} /\ pending' = {}
    /\ lastGood' = IF EvalAtStart /\ EvalEvery > 0 THEN << >> ELSE None
    /\ accepted' = TRUE /\ stopAfter' = FALSE
    /\ UNCHANGED rewound

(* The generation-zero baseline, and its last_good.json. *)
SaveBaseline ==
    /\ pc = "baseline"
    /\ ckpt' = [ckpt EXCEPT ![0] = [model |-> model, accepted |-> TRUE,
                                    lastGood |-> lastGood, archive |-> archive,
                                    limit |-> limit]]
    /\ lastGoodFile' = IF lastGood # None THEN 0 ELSE lastGoodFile
    /\ Goto("top")
    /\ UNCHANGED <<stop, launch, signalled, memory, fault, sinceStop>>

(* A plausible defect: the gate's verdict is not looked at on resume. *)
Resumable_Rejected == {g \in Generations : ckpt[g] # None}

Resumable == {g \in Generations : ckpt[g] # None /\ ckpt[g].accepted}

ResumeLatest(n) ==
    /\ Resumable # {}
    /\ Launch("clearing", n, Max(Resumable), Ranks)
    /\ UNCHANGED <<memory, rewound>>

ResumeFrom(n, g) ==
    /\ g \in Resumable
    /\ Launch("clearing", n, g, Ranks)
    /\ rewound' = (rewound \/ g # Max(Resumable))
    /\ UNCHANGED memory

(* Every rank unlinks STOP for itself. *)
ClearStop(r) ==
    /\ pc = "clearing" /\ r \in clearing
    /\ stop' = FALSE
    /\ sinceStop' = 0
    /\ clearing' = clearing \ {r}
    /\ UNCHANGED <<disk, launches, limit, source, rewound, pc, signalled, memory, status,
                   fault>>

(* validate_manifest_compatible: the generation target cannot decrease. *)
LoadRefused ==
    /\ pc = "clearing" /\ clearing = {}
    /\ limit < ckpt[source].limit
    /\ Ends("failed")
    /\ fault' = TRUE
    /\ UNCHANGED <<disk, stop, launch, signalled, memory, sinceStop>>

(* A plausible defect: the archive is read from the latest checkpoint. *)
Load_LatestArchive ==
    /\ pc = "clearing" /\ clearing = {}
    /\ limit >= ckpt[source].limit
    /\ gen' = source
    /\ model' = ckpt[source].model
    /\ archive' = ckpt[Max(Resumable)].archive
    /\ lastGood' = ckpt[source].lastGood
    /\ pending' = {} /\ accepted' = TRUE /\ stopAfter' = FALSE
    /\ IF source + 1 > limit THEN Ends("completed") ELSE Goto("top")
    /\ UNCHANGED <<disk, stop, launch, signalled, fault, sinceStop>>

(* A plausible defect: last_good is read from last_good.json. *)
Load_LastGoodFile ==
    /\ pc = "clearing" /\ clearing = {}
    /\ limit >= ckpt[source].limit
    /\ gen' = source
    /\ model' = ckpt[source].model
    /\ archive' = ckpt[source].archive
    /\ lastGood' = ckpt[lastGoodFile].lastGood
    /\ pending' = {} /\ accepted' = TRUE /\ stopAfter' = FALSE
    /\ IF source + 1 > limit THEN Ends("completed") ELSE Goto("top")
    /\ UNCHANGED <<disk, stop, launch, signalled, fault, sinceStop>>

(* Model, optimizer, archive and last-good metrics come back together. *)
Load ==
    /\ pc = "clearing" /\ clearing = {}
    /\ limit >= ckpt[source].limit
    /\ gen' = source
    /\ model' = ckpt[source].model
    /\ archive' = ckpt[source].archive
    /\ lastGood' = ckpt[source].lastGood
    /\ pending' = {} /\ accepted' = TRUE /\ stopAfter' = FALSE
    /\ IF source + 1 > limit THEN Ends("completed") ELSE Goto("top")
    /\ UNCHANGED <<disk, stop, launch, signalled, fault, sinceStop>>

-----------------------------------------------------------------------------
(* One generation.                                                         *)

(* A plausible defect: only the signal is looked at. *)
StopRequested_SignalOnly == signalled

StopRequested == stop \/ signalled

(* The loop head: a request made so far ends the run here. *)
StopBefore ==
    /\ pc = "top"
    /\ StopRequested
    /\ Ends("stopped")
    /\ UNCHANGED <<disk, stop, launch, signalled, memory, fault, sinceStop>>

(* Collecting: write_generation leaves a shard that is not yet eligible,   *)
(* if there was any success.                                               *)
Collect ==
    /\ pc = "top"
    /\ ~StopRequested
    /\ pending' \in {{}, {<<launches, gen + 1>>}}
    /\ Goto("update")
    /\ UNCHANGED <<disk, stop, launch, signalled, gen, model, archive, lastGood,
                   accepted, stopAfter, fault, sinceStop>>

(* The synchronized update, then commit_shard. *)
Update ==
    /\ pc = "update"
    /\ model' = Append(model, launches)
    /\ archive' = archive \cup pending
    /\ pending' = {}
    /\ gen' = gen + 1
    /\ sinceStop' = IF stop THEN sinceStop + 1 ELSE 0
    /\ Goto("gate")
    /\ UNCHANGED <<disk, stop, launch, signalled, lastGood, accepted, stopAfter, fault>>

EvaluationDue == EvalEvery > 0 /\ (gen % EvalEvery = 0 \/ (EvalAtEnd /\ gen = limit))

(* The held-out evaluation against last_good, when due. *)
Gate ==
    /\ pc = "gate"
    /\ accepted' \in IF EvaluationDue /\ lastGood # None THEN BOOLEAN ELSE {TRUE}
    /\ lastGood' = IF EvaluationDue /\ accepted' THEN model ELSE lastGood
    /\ Goto("boundary")
    /\ UNCHANGED <<disk, stop, launch, signalled, gen, model, archive, pending,
                   stopAfter, fault, sinceStop>>

(* A plausible defect: only evaluated generations are checkpointed. *)
CheckpointDue_Evaluated(stopping) ==
    gen = limit \/ EvaluationDue \/ stopping \/ ~accepted

CheckpointDue(stopping) ==
    \/ gen % CheckpointEvery = 0
    \/ gen = limit
    \/ EvaluationDue
    \/ stopping
    \/ ~accepted

(* The second look at STOP, and whether to checkpoint. *)
Boundary ==
    /\ pc = "boundary"
    /\ stopAfter' = StopRequested
    /\ Goto(IF CheckpointDue(StopRequested) THEN "save" ELSE "verdict")
    /\ UNCHANGED <<disk, stop, launch, signalled, gen, model, archive, pending,
                   lastGood, accepted, fault, sinceStop>>

Save ==
    /\ pc = "save"
    /\ ckpt[gen] = None
    /\ ckpt' = [ckpt EXCEPT ![gen] = [model |-> model, accepted |-> accepted,
                                      lastGood |-> lastGood, archive |-> archive,
                                      limit |-> limit]]
    /\ Goto("saved")
    /\ UNCHANGED <<lastGoodFile, stop, launch, signalled, memory, fault, sinceStop>>

(* save() refuses to overwrite a complete generation. *)
SaveRefused ==
    /\ pc = "save"
    /\ ckpt[gen] # None
    /\ Ends("failed")
    /\ UNCHANGED <<disk, stop, launch, signalled, memory, fault, sinceStop>>

(* _write_last_good, for a candidate that was evaluated and accepted. *)
WriteLastGood ==
    /\ pc = "saved"
    /\ lastGoodFile' = IF accepted /\ EvaluationDue THEN gen ELSE lastGoodFile
    /\ Goto("verdict")
    /\ UNCHANGED <<ckpt, stop, launch, signalled, memory, fault, sinceStop>>

Verdict ==
    /\ pc = "verdict"
    /\ IF ~accepted THEN Ends("rejected")
       ELSE IF stopAfter THEN Ends("stopped")
       ELSE IF gen = limit THEN Ends("completed")
       ELSE Goto("top")
    /\ UNCHANGED <<disk, stop, launch, signalled, memory, fault, sinceStop>>

(* What a launch that died held in memory is gone. *)
Forget ==
    /\ gen' = 0 /\ model' = << >> /\ archive' = {} /\ pending' = {}
    /\ lastGood' = None /\ accepted' = TRUE /\ stopAfter' = FALSE

(* An I/O error, a health check or a lost GPU raises. *)
Fail ==
    /\ pc # "down"
    /\ Ends("failed")
    /\ fault' = TRUE
    /\ Forget
    /\ UNCHANGED <<disk, stop, launch, signalled, sinceStop>>

Kill ==
    /\ pc # "down"
    /\ Ends("killed")
    /\ Forget
    /\ UNCHANGED <<disk, stop, launch, signalled, fault, sinceStop>>

-----------------------------------------------------------------------------
(* The operator.                                                           *)
TouchStop ==
    /\ ~stop
    /\ stop' = TRUE
    /\ UNCHANGED <<disk, launch, pc, signalled, memory, status, fault, sinceStop>>

Signal ==
    /\ pc \notin {"down", "clearing"}
    /\ ~signalled
    /\ signalled' = TRUE
    /\ UNCHANGED <<disk, stop, launch, pc, memory, status, fault, sinceStop>>

-----------------------------------------------------------------------------
Loop == \/ SaveBaseline \/ (\E r \in Ranks : ClearStop(r)) \/ LoadRefused \/ Load
        \/ StopBefore \/ Collect \/ Update \/ Gate \/ Boundary
        \/ Save \/ SaveRefused \/ WriteLastGood \/ Verdict

Start == \/ \E n \in Limits : LaunchFresh(n) \/ ResumeLatest(n)
         \/ \E n \in Limits, g \in Generations : ResumeFrom(n, g)

Next == Loop \/ Start \/ Fail \/ Kill \/ TouchStop \/ Signal

Spec == Init /\ [][Next]_vars

-----------------------------------------------------------------------------
(* Type invariant of the run directory and of the launch.                  *)
TypeOK ==
    /\ DOMAIN ckpt = Generations
    /\ \A g \in Generations : ckpt[g] # None =>
          ckpt[g] \in Checkpoints /\ Len(ckpt[g].model) = g
    /\ lastGoodFile \in Generations \cup {None}
    /\ stop \in BOOLEAN /\ signalled \in BOOLEAN /\ fault \in BOOLEAN /\ rewound \in BOOLEAN
    /\ launches \in 0 .. MaxLaunches
    /\ limit \in Limits \cup {0} /\ source \in Generations \cup {None}
    /\ pc \in {"down", "baseline", "clearing", "top", "update", "gate",
               "boundary", "save", "saved", "verdict"}
    /\ gen \in Generations /\ model \in Models
    /\ pc \notin {"down", "clearing"} => gen = Len(model)
    /\ lastGood \in Models \cup {None}
    /\ archive \subseteq (1 .. MaxLaunches) \X Generations
    /\ pending \subseteq (1 .. MaxLaunches) \X Generations
    /\ accepted \in BOOLEAN /\ stopAfter \in BOOLEAN /\ sinceStop \in Nat

(* Complete checkpoints the gate let pass.                                 *)
AcceptedCheckpoints == {g \in Generations : ckpt[g] # None /\ ckpt[g].accepted}

(* No optimizer state the gate rejected is ever trained on: no accepted    *)
(* checkpoint, and no launch but the one that was rejected, holds a model  *)
(* that extends a rejected one (minimum_flywheel.md:219, and load()'s      *)
(* refusal of rejected candidates).                                        *)
RejectedNeverResumed ==
    \A r \in Generations : ckpt[r] # None /\ ~ckpt[r].accepted =>
        /\ \A g \in AcceptedCheckpoints : ~IsPrefix(ckpt[r].model, ckpt[g].model)
        /\ pc \notin {"down", "clearing", "saved", "verdict"} =>
               ~IsPrefix(ckpt[r].model, model)

(* The replay archive a launch holds is the one its weights were trained   *)
(* alongside: a committed shard comes from the launch that trained that    *)
(* generation of this model, never from an abandoned branch or a crashed   *)
(* generation (main restores both from one checkpoint).                    *)
ArchiveMatchesModel ==
    pc \notin {"down", "clearing"} =>
        \A s \in archive : s[2] \in DOMAIN model /\ model[s[2]] = s[1]

(* The metrics a candidate is compared with were measured on one of its    *)
(* own ancestors, and the file last_good.json names an accepted checkpoint *)
(* that was itself evaluated, across crashes and rewinds with              *)
(* --resume-from.                                                          *)
LastGoodIsAncestor ==
    /\ pc \notin {"down", "clearing"} /\ lastGood # None => IsPrefix(lastGood, model)
    /\ lastGoodFile # None =>
          /\ lastGoodFile \in AcceptedCheckpoints
          /\ ckpt[lastGoodFile].lastGood = ckpt[lastGoodFile].model

(* Whatever kills a launch, and wherever, at most --checkpoint-every       *)
(* finished generations of the model it holds are lost: an accepted        *)
(* checkpoint of an ancestor is that close.  So many are lost only when a  *)
(* generation that is a multiple of the interval is not saved yet, or is   *)
(* not accepted; otherwise fewer (the checkpoint_due condition, looked at  *)
(* only after the update and the gate).                                    *)
DueIsUnsaved ==
    /\ gen % CheckpointEvery = 0
    /\ pc \in {"gate", "boundary", "save"} \/ ~accepted

BoundedLoss ==
    pc \notin {"down", "clearing", "baseline"} =>
        \E g \in AcceptedCheckpoints :
            /\ IsPrefix(ckpt[g].model, model)
            /\ gen - g <= CheckpointEvery
            /\ gen - g = CheckpointEvery => DueIsUnsaved

(* A STOP file that is there is obeyed within one generation: the launch   *)
(* makes at most one more update (stop_requested at the loop head and at   *)
(* the boundary).                                                          *)
StopWithinOneGeneration == sinceStop <= 1

(* As long as no launch rewinds with --resume-from, the accepted           *)
(* checkpoints are one line of training: the older is an ancestor of the   *)
(* newer (latest_checkpoint, and load() of what it names).                 *)
OneLine ==
    ~rewound => \A g, h \in AcceptedCheckpoints : g <= h => IsPrefix(ckpt[g].model, ckpt[h].model)

(* What is trained on: never a rejected candidate, and one line of         *)
(* training where nobody rewinds.                                          *)
TrainingLine == RejectedNeverResumed /\ OneLine

(* bootstrap_ddp.md:104: on STOP "the workers finish the synchronized      *)
(* update, write a checkpoint even when that generation is not on the      *)
(* normal checkpoint interval, and then write their exit records".         *)
StoppedIsCheckpointed ==
    status = "stopped" /\ pc = "down" =>
        gen \in AcceptedCheckpoints /\ ckpt[gen].model = model

(* bootstrap_ddp.md:108: a run resumes from a complete checkpoint; that    *)
(* launch then fails only if something goes wrong in it, in a directory    *)
(* where nobody rewinds.                                                   *)
ResumedRunsFailOnlyForCause == status = "failed" /\ pc = "down" /\ ~rewound => fault
=============================================================================
