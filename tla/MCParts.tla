------------------------------ MODULE MCParts ------------------------------
(***************************************************************************)
(* The components that are checked alone: the archive of successes, the    *)
(* run lock, the update of the trainer, the promotion gate, the curriculum,*)
(* the control loop, the recovery of a lifecycle store, the memory of      *)
(* latents, and the modes of successes.  They share no state, and one of   *)
(* them moves in a behaviour; the variables of the others are None, but    *)
(* for the archive's.                                                      *)
(***************************************************************************)
EXTENDS SuccessArchive

CONSTANTS
    Procs, Remote,
    Ranks, MaxItems, Requested, BatchSize, Accumulation,
    Suite, Foreign, Distances, TolerableDrop, DistanceTolerance, MaxAccepted,
    MaxUnit, MasteredFloor, HardFloor, TotalSlots,
    Period, Frames, Horizon, ReplanHorizon, MaxOverlap, FrozenSteps, MaxSteps,
    Latencies, MaxTicks,
    StoreProcs, Roots, Manifests, Authorities, AuthorityKeys, BoundaryKeys, MaxSignatures,
    Successful, Latents, Capacity, Novelty, MaxDraw,
    Found, ModeLatents, Radius, MaxRecords, MergeSize

VARIABLES
    part,
    lock, lockPc, attempt, seen,
    items, broken, rankPc, call, value, synced, steps, micro, exposed, applied, cause,
    first, lastGood, accepted, rises, gatePc,
    requires, status, curriculumPc, visiting, visited, qualified, at, changed, slots,
    async, frame, latency, time, next, tick, control, future, worker, step, controlPc, why,
    manifest, journal, head, anchor, backup, storeLock, storePc, storeAt, snap, entry,
    result, issued, calm,
    entries, rotation, vetted, turn,
    index, batch, raised

lockVars == <<lock, lockPc, attempt, seen>>
trainerVars == <<items, broken, rankPc, call, value, synced, steps, micro, exposed, applied, cause>>
gateVars == <<first, lastGood, accepted, rises, gatePc>>
curriculumVars ==
    <<requires, status, curriculumPc, visiting, visited, qualified, at, changed, slots>>
controlVars ==
    <<async, frame, latency, time, next, tick, control, future, worker, step, controlPc, why>>
storeVars ==
    <<manifest, journal, head, anchor, backup, storeLock, storePc, storeAt, snap, entry,
      result, issued, calm>>
memoryVars == <<entries, rotation, vetted, turn>>
modeVars == <<index, batch, raised>>
allVars ==
    <<part, vars, lockVars, trainerVars, gateVars, curriculumVars, controlVars,
      storeVars, memoryVars, modeVars>>

Lock == INSTANCE RunLock WITH pc <- lockPc
Trainer == INSTANCE TrainerUpdate WITH pc <- rankPc
Gate == INSTANCE PromotionGate WITH pc <- gatePc
Units == INSTANCE Curriculum WITH pc <- curriculumPc, base <- status
Control == INSTANCE RtcControl WITH pc <- controlPc
Store == INSTANCE LifecycleRecovery
            WITH Procs <- StoreProcs, lock <- storeLock, pc <- storePc, at <- storeAt
Memory == INSTANCE LatentMemory WITH cursor <- rotation, Samples <- Successful
Occupied == INSTANCE SuccessOccupancy
                WITH Ids <- Found, Latents <- ModeLatents, BatchSize <- MergeSize

NoLock == lock = None /\ lockPc = None /\ attempt = None /\ seen = None

NoUpdate ==
    /\ items = None /\ broken = None /\ rankPc = None /\ call = None /\ value = None
    /\ synced = None /\ steps = None /\ micro = None /\ exposed = None /\ applied = None
    /\ cause = None

NoGate ==
    first = None /\ lastGood = None /\ accepted = None /\ rises = None /\ gatePc = None

NoCurriculum ==
    /\ requires = None /\ status = None /\ curriculumPc = None /\ visiting = None
    /\ visited = None /\ qualified = None /\ at = None /\ changed = None /\ slots = None

NoControl ==
    /\ async = None /\ frame = None /\ latency = None /\ time = None /\ next = None
    /\ tick = None /\ control = None /\ future = None /\ worker = None /\ step = None
    /\ controlPc = None /\ why = None

NoStore ==
    /\ manifest = None /\ journal = None /\ head = None /\ anchor = None /\ backup = None
    /\ storeLock = None /\ storePc = None /\ storeAt = None /\ snap = None /\ entry = None
    /\ result = None /\ issued = None /\ calm = None

NoMemory == entries = None /\ rotation = None /\ vetted = None /\ turn = None

NoModes == index = None /\ batch = None /\ raised = None

MCInit ==
    /\ part \in {"archive", "lock", "trainer", "gate", "curriculum", "control", "store",
                "memory", "modes"}
    /\ Init
    /\ IF part = "lock" THEN Lock!Init ELSE NoLock
    /\ IF part = "trainer" THEN Trainer!Init ELSE NoUpdate
    /\ IF part = "gate" THEN Gate!Init ELSE NoGate
    /\ IF part = "curriculum" THEN Units!Init ELSE NoCurriculum
    /\ IF part = "control" THEN Control!Init ELSE NoControl
    /\ IF part = "store" THEN Store!OneRootInit ELSE NoStore
    /\ IF part = "memory" THEN Memory!Init ELSE NoMemory
    /\ IF part = "modes" THEN Occupied!Init ELSE NoModes

MCNext ==
    \/ /\ part = "archive" /\ Next
       /\ UNCHANGED <<part, lockVars, trainerVars, gateVars, curriculumVars, controlVars,
                      storeVars, memoryVars, modeVars>>
    \/ /\ part = "lock" /\ Lock!SerialNext
       /\ UNCHANGED <<part, vars, trainerVars, gateVars, curriculumVars, controlVars,
                      storeVars, memoryVars, modeVars>>
    \/ /\ part = "trainer" /\ Trainer!Next
       /\ UNCHANGED <<part, vars, lockVars, gateVars, curriculumVars, controlVars,
                      storeVars, memoryVars, modeVars>>
    \/ /\ part = "gate" /\ Gate!Next
       /\ UNCHANGED <<part, vars, lockVars, trainerVars, curriculumVars, controlVars,
                      storeVars, memoryVars, modeVars>>
    \/ /\ part = "curriculum" /\ Units!Next
       /\ UNCHANGED <<part, vars, lockVars, trainerVars, gateVars, controlVars,
                      storeVars, memoryVars, modeVars>>
    \/ /\ part = "control" /\ Control!Next
       /\ UNCHANGED <<part, vars, lockVars, trainerVars, gateVars, curriculumVars,
                      storeVars, memoryVars, modeVars>>
    \/ /\ part = "store" /\ Store!OneRootNext
       /\ UNCHANGED <<part, vars, lockVars, trainerVars, gateVars, curriculumVars,
                      controlVars, memoryVars, modeVars>>
    \/ /\ part = "memory" /\ Memory!Next
       /\ UNCHANGED <<part, vars, lockVars, trainerVars, gateVars, curriculumVars,
                      controlVars, storeVars, modeVars>>
    \/ /\ part = "modes" /\ Occupied!Next
       /\ UNCHANGED <<part, vars, lockVars, trainerVars, gateVars, curriculumVars,
                      controlVars, storeVars, memoryVars>>

(* The fairness of the update, of the control loop, and of the store once   *)
(* processes have stopped dying.                                           *)
MCSpec ==
    /\ MCInit /\ [][MCNext]_allVars
    /\ WF_trainerVars(part = "trainer" /\ Trainer!AllReduce)
    /\ WF_trainerVars(part = "trainer" /\ Trainer!Killed)
    /\ \A r \in Ranks : WF_trainerVars(part = "trainer" /\ Trainer!Local(r))
    /\ WF_controlVars(part = "control" /\ Control!Frame)
    /\ WF_controlVars(part = "control" /\ Control!Infer)
    /\ WF_controlVars(part = "control" /\ Control!Close)
    /\ \A p \in StoreProcs :
          WF_storeVars(part = "store" /\ Store!Step(p) /\ UNCHANGED calm)
    /\ \A r \in Roots, m \in Manifests :
          WF_storeVars(/\ part = "store"
                       /\ \E p \in StoreProcs : Store!BeginRecover(p, r, m)
                       /\ UNCHANGED calm)

(* _acquire_run_lock: of launches whose start-ups do not overlap, two never  *)
(* own the run directory together, stale locks and other hosts included.    *)
Exclusive == part = "lock" => Lock!Exclusive

(* _acquire_run_lock refuses a launch only for an owner that may be alive,  *)
(* or for a lock file a dead launch left without a pid.                     *)
RefusedOnlyForCause == [][part = "lock" => \A p \in Procs : Lock!Refusal(p)]_lockVars

(* SuccessArchive.plan over save and load: whether the launch that wrote a  *)
(* checkpoint goes on from it or a later one resumes it, the next plan is   *)
(* the same, and between two choices of one success every other eligible    *)
(* one has its turn, except as many as were quarantined in the meantime.    *)
PlansContinue == ResumeIsExact /\ FairButForQuarantine

(* The update of the trainer, with however few samples on a rank: two ranks *)
(* that wait, wait in the same collective; a loss that is not finite ends   *)
(* it on all of them before any applies that step; nothing else does but a  *)
(* sample that cannot be used; and the coverage has every sample once.      *)
RanksInStep ==
    part = "trainer" =>
        Trainer!CollectivesMatch /\ Trainer!FailsTogether /\ Trainer!FailsOnlyForCause /\ Trainer!CoversOnce

(* The promotion gate over a whole run: no pair of seeds that was safe at   *)
(* first is ever unsafe, the successes lost are what was tolerated of each  *)
(* accepted generation, added up, and only a rise in successes excuses a    *)
(* distance beyond the tolerated one.                                       *)
LossIsBounded == part = "gate" => Gate!LossIsBounded

(* The curriculum refuses the graphs with a cycle and no others, opens a    *)
(* unit only when everything below it is mastered, however far down, keeps  *)
(* its floors with the units they are for, and goes round in each lane.     *)
CurriculumIsSound ==
    part = "curriculum" =>
        Units!RefusesCyclesOnly /\ Units!OnMasteredFoundations /\ Units!LanesGoRound

(* The control loop executes a row of a chunk at the tick it was inferred  *)
(* for, over answers that come late and ticks that fall on frames; a chunk *)
(* that comes before its frozen rows have passed changes nothing of what   *)
(* is executed at that tick; and an inference that is fast enough for what *)
(* is left of the chunk when it is asked for never leaves a tick without   *)
(* an action.                                                              *)
ControlIsSound ==
    /\ [](part = "control" => Control!OnTime)
    /\ [][part = "control" => Control!Seamless /\ Control!Gapless]_controlVars

(* An update of the trainer ends on every rank: nobody is left in a        *)
(* collective by another rank's error or death.  An inference that ends    *)
(* within its horizon gets the policy to its last step, or to an           *)
(* exception, and the worker is waited for.                                *)
LoopsEnd ==
    /\ <>(part = "trainer" => Trainer!Ended)
    /\ (part = "control" /\ latency < Horizon) ~> controlPc = "closed"

(* A lifecycle root that is not copied stays readable or one recovery away  *)
(* from it, and every committed step was signed for by its authority.       *)
RootIsSound == part = "store" => Store!RootIsSound

(* Once processes stop dying, recover_pending_tail commits the tail an      *)
(* interrupted append left behind.                                          *)
RecoveryCompletes ==
    \A r \in Roots :
        (part = "store" /\ calm /\ Len(journal[r]) > Len(anchor))
            ~> (part = "store" /\ anchor = journal[r])

(* The memory of latents can be loaded from any checkpoint; its latents    *)
(* are apart from each other for as long as the encoder is the same; and   *)
(* every success that stays has its turn between two of another, whatever  *)
(* is admitted and forgotten in between (LatentMemory).                    *)
MemoryIsSound ==
    /\ [](part = "memory" => Memory!Loads /\ Memory!Apart)
    /\ [][part = "memory" => Memory!GoesRound]_memoryVars

(* The modes that a resumed launch finds are those of the launch before    *)
(* it, whatever batches were merged and wherever one was refused, and a    *)
(* mode is what its members make it (SuccessOccupancyIndex).               *)
OccupancyRestores ==
    part = "modes" => Occupied!Restores /\ Occupied!ModesAreTheirMembers
=============================================================================
