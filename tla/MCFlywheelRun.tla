---------------------------- MODULE MCFlywheelRun ----------------------------
(***************************************************************************)
(* The small instance of the flywheel that TLC explores: the generation    *)
(* loop over its launches, or what one of its ranks does inside Collect to *)
(* bring in one episode, or what the simulated world does to its task      *)
(* meanwhile, the bottle's transfer or its lift.  They share no state: a   *)
(* collection leaves nothing behind until it has finished, its error ends  *)
(* the launch, which is the loop's Fail, and the collection knows a world  *)
(* by its verdict, which the tasks decide.                                 *)
(***************************************************************************)
EXTENDS FlywheelRun

CONSTANTS
    Worlds, Hold, ChunkSteps, EpisodeSteps, EliteDivisor, SegmentSteps, MaxOddities,
    FramesPerStep, GraspFrames, ReleaseFrames, SettleFrames, TransferSteps,
    DropSteps, HoldSteps, ApproachSteps, MinCloseStep, MaxClose, StableSteps, ConfirmSteps,
    MaxLift, MaxHold, LiftSteps

VARIABLES
    part,
    collectPc, decisions, root, nextRoot, task, env, shadow, active, left, rows, outcome,
    touching, chosen, witness, samples, success, odd, why,
    phase, grip, gap, settle, best, moved, reached, armed, transferred, fail, seen, frame,
    transferStep, told, past,
    driver, batch, liftStep, frames, palm, oracle, ctl, record, story

collectVars ==
    <<collectPc, decisions, root, nextRoot, task, env, shadow, active, left, rows, outcome,
      touching, chosen, witness, samples, success, odd, why>>
transferVars ==
    <<phase, grip, gap, settle, best, moved, reached, armed, transferred, fail, seen, frame,
      transferStep, told, past>>
graspVars == <<driver, batch, liftStep, frames, palm, oracle, ctl, record, story>>

Collection == INSTANCE EpisodeCollection WITH pc <- collectPc
Transfer == INSTANCE TransferTask
                WITH success <- transferred, step <- transferStep, EpisodeSteps <- TransferSteps
Grasp == INSTANCE GraspLift
             WITH step <- liftStep, Frames <- FramesPerStep, MaxSteps <- LiftSteps

NoCollection ==
    /\ collectPc = None /\ decisions = None /\ root = None /\ nextRoot = None /\ task = None
    /\ env = None /\ shadow = None /\ active = None /\ left = None /\ rows = None
    /\ outcome = None /\ touching = None /\ chosen = None /\ witness = None /\ samples = None
    /\ success = None /\ odd = None /\ why = None

NoTransfer ==
    /\ phase = None /\ grip = None /\ gap = None /\ settle = None /\ best = None
    /\ moved = None /\ reached = None /\ armed = None /\ transferred = None /\ fail = None
    /\ seen = None /\ frame = None /\ transferStep = None /\ told = None /\ past = None

NoGrasp ==
    /\ driver = None /\ batch = None /\ liftStep = None /\ frames = None /\ palm = None
    /\ oracle = None /\ ctl = None /\ record = None /\ story = None

MCInit ==
    /\ part \in {"run", "collection", "transfer", "grasp"}
    /\ Init
    /\ IF part = "collection" THEN Collection!Init ELSE NoCollection
    /\ IF part = "transfer" THEN Transfer!Init ELSE NoTransfer
    /\ IF part = "grasp" THEN Grasp!Init ELSE NoGrasp

MCNext ==
    \/ part = "run" /\ Next /\ UNCHANGED <<part, collectVars, transferVars, graspVars>>
    \/ part = "collection" /\ Collection!Next /\ UNCHANGED <<part, vars, transferVars, graspVars>>
    \/ part = "transfer" /\ Transfer!Next /\ UNCHANGED <<part, vars, collectVars, graspVars>>
    \/ part = "grasp" /\ Grasp!Next /\ UNCHANGED <<part, vars, collectVars, transferVars>>

MCSpec == MCInit /\ [][MCNext]_<<part, vars, collectVars, transferVars, graspVars>>

(* The ranks only unlink STOP, and are interchangeable in that; the worlds *)
(* differ in nothing but their index.                                      *)
Symmetry == Permutations(Ranks) \cup Permutations(Worlds)

(* _collect_episode stops with an error only where physics gave it a       *)
(* cause: the environment, the task contract and the ledger agree          *)
(* otherwise.                                                              *)
AbortsOnlyForCause == part = "collection" => Collection!AbortsOnlyForCause

(* What is read off a finished ledger is what happened: the success, the   *)
(* samples trained on, the rewards computed again, the process segments.   *)
RecordIsTrue == part = "collection" => Collection!RecordIsTrue

(* _advance_transfer_phase and _advance_episode: a bottle counts as        *)
(* transferred when it was carried high enough, set down in its place, let *)
(* go, left alone and came to rest there, and not otherwise; each failure  *)
(* has its cause; and the caller is told so.                               *)
TransferIsSound == part = "transfer" => Transfer!TransferIsSound

(* GraspLiftOracle and GraspLiftAuthoringController: the verdict kept of a *)
(* lift is the one its frames deserve, the controller lifts only what has  *)
(* been held without a gap, its retries end, and its last phase tells the  *)
(* same story as the verdict.                                              *)
GraspIsSound == part = "grasp" => Grasp!GraspIsSound

(* The rows of a world are closed with its verdict and stay as they are,   *)
(* although the batch drives the world on for the sake of the others.      *)
RowsAreFinal == [][part = "grasp" => Grasp!KeepsRows]_<<part, graspVars>>
=============================================================================
