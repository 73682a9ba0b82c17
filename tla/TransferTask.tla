---------------------------- MODULE TransferTask ----------------------------
(***************************************************************************)
(* The transfer task of one simulated world: the environment advances its  *)
(* phase at every physics frame, from finger contact and where the bottle  *)
(* is, and speaks of it (reward, info, termination) once per control step. *)
(* A frame first evaluates the world, under the phase the frame began      *)
(* with, and then advances the phase.  Palm contact is not contact here.   *)
(***************************************************************************)
EXTENDS Integers

CONSTANTS
    FramesPerStep,      \* frames_per_action
    GraspFrames,        \* grasp_confirm_frames
    ReleaseFrames,      \* release_confirm_frames
    SettleFrames,       \* settle_confirm_frames
    EpisodeSteps        \* max_episode_steps

VARIABLES
    phase,              \* task_phase
    grip, gap, settle,  \* grasp_contact_frames, contact_gap_frames, settle_frames
    best,               \* max_lift_height
    moved, reached, armed,
                        \* transport_started, reached_lift_height, release_armed
    success, fail,
    seen,               \* what the evaluation of the last frame wrote
    frame,              \* frames of this control step so far
    step,               \* episode_step
    told,               \* what the last control step returned
    past                \* history: what the frames showed until the verdict

vars == <<phase, grip, gap, settle, best, moved, reached, armed, success, fail,
          seen, frame, step, told, past>>

TransferAssumption ==
    {FramesPerStep, GraspFrames, ReleaseFrames, SettleFrames, EpisodeSteps} \subseteq Nat \ {0}

(* ---- physics ------------------------------------------------------------ *)

(* Where the bottle is: lifted far enough to have moved, lifted to the      *)
(* task's height, or standing where and as it may be left (goal, which      *)
(* lies low), or none of these.                                             *)
Place == {"table", "raised", "high", "goal"}
Lift(place) == CASE place = "high" -> 2 [] place = "raised" -> 1 [] OTHER -> 0
World == [touch : {"none", "some", "opposed"}, place : Place, static : BOOLEAN]
Touched(w) == w.touch # "none"
Valid(w) == w.place = "goal"

(* ---- one frame ---------------------------------------------------------- *)

(* _evaluate_transfer_bottle *)
Evaluation(w) ==
    [world |-> w,
     ready |-> phase = "carrying" /\ reached /\ Valid(w) /\ Touched(w),
     placed |-> phase \in {"released", "success"} /\ Valid(w) /\ ~Touched(w)]

(* A plausible defect: contact does not restart the count of frames without it. *)
Carry_KeepsGap(w) ==
    IF Touched(w)
    THEN LET high == IF Lift(w.place) > best THEN Lift(w.place) ELSE best
             going == moved \/ Lift(w.place) >= 1
             up == reached \/ (going /\ high >= 2)
         IN /\ gap' = gap /\ best' = high /\ moved' = going /\ reached' = up
            /\ armed' = (up /\ Valid(w))
            /\ phase' = "carrying"
            /\ UNCHANGED <<settle, success, fail>>
    ELSE LET out == gap + 1 >= ReleaseFrames
         IN /\ gap' = gap + 1
            /\ phase' = IF ~out THEN "carrying" ELSE IF armed THEN "released" ELSE "fail"
            /\ fail' = (out /\ ~armed)
            /\ settle' = IF out /\ armed THEN 0 ELSE settle
            /\ UNCHANGED <<best, moved, reached, armed, success>>

(* Carrying, reached also in the frame that confirms the grasp.             *)
Carry(w) ==
    IF Touched(w)
    THEN LET high == IF Lift(w.place) > best THEN Lift(w.place) ELSE best
             going == moved \/ Lift(w.place) >= 1
             up == reached \/ (going /\ high >= 2)
         IN /\ gap' = 0 /\ best' = high /\ moved' = going /\ reached' = up
            /\ armed' = (up /\ Valid(w))
            /\ phase' = "carrying"
            /\ UNCHANGED <<settle, success, fail>>
    ELSE LET out == gap + 1 >= ReleaseFrames
         IN /\ gap' = gap + 1
            /\ phase' = IF ~out THEN "carrying" ELSE IF armed THEN "released" ELSE "fail"
            /\ fail' = (out /\ ~armed)
            /\ settle' = IF out /\ armed THEN 0 ELSE settle
            /\ UNCHANGED <<best, moved, reached, armed, success>>

Approach(w) ==
    LET held == IF w.touch = "opposed" THEN grip + 1 ELSE 0
    IN /\ grip' = held
       /\ IF held >= GraspFrames THEN Carry(w)
          ELSE UNCHANGED <<phase, gap, settle, best, moved, reached, armed, success, fail>>

Settle(w) ==
    LET still == IF w.static THEN settle + 1 ELSE 0
        over == still >= SettleFrames
    IN IF Touched(w)
       THEN /\ fail' = TRUE /\ phase' = "fail"
            /\ UNCHANGED <<settle, success>>
       ELSE /\ settle' = still
            /\ success' = (over /\ Valid(w)) /\ fail' = (over /\ ~Valid(w))
            /\ phase' = IF ~over THEN phase ELSE IF Valid(w) THEN "success" ELSE "fail"

(* _advance_transfer_phase *)
Advance(w) ==
    CASE success \/ fail ->
            UNCHANGED <<phase, grip, gap, settle, best, moved, reached, armed, success, fail>>
      [] ~(success \/ fail) /\ phase = "approach" -> Approach(w)
      [] ~(success \/ fail) /\ phase = "carrying" -> Carry(w) /\ UNCHANGED grip
      [] ~(success \/ fail) /\ phase = "released" ->
            Settle(w) /\ UNCHANGED <<grip, gap, best, moved, reached, armed>>

(* ---- the history -------------------------------------------------------- *)

(* carried: GraspFrames opposed frames in a row were seen (row counts them);*)
(* since then, and while the bottle was touched: top, the highest it was,   *)
(* and left, where it was at the last touch.  free: frames without touch up *)
(* to now; still: those of them, up to now, with the bottle static, not     *)
(* counting the first ReleaseFrames; again: touched after that many; here:  *)
(* where the bottle is.                                                     *)
NoPast == [row |-> 0, carried |-> FALSE, top |-> 0, left |-> "table", free |-> 0, still |-> 0,
           again |-> FALSE, here |-> "table"]

Remember(p, w) ==
    LET row == IF p.carried \/ w.touch # "opposed" THEN 0 ELSE p.row + 1
        carried == p.carried \/ row = GraspFrames
        free == IF carried /\ ~Touched(w)
                THEN IF p.free > ReleaseFrames THEN p.free ELSE p.free + 1 ELSE 0
    IN [row |-> IF carried THEN 0 ELSE row,
        carried |-> carried,
        top |-> IF carried /\ Touched(w) /\ Lift(w.place) > p.top THEN Lift(w.place) ELSE p.top,
        left |-> IF carried /\ Touched(w) THEN w.place ELSE p.left,
        free |-> free,
        still |-> IF free > ReleaseFrames /\ w.static THEN p.still + 1 ELSE 0,
        again |-> p.again \/ (Touched(w) /\ p.free >= ReleaseFrames),
        here |-> w.place]

(* ------------------------------------------------------------------------ *)

Silent == [reward |-> 0, terminated |-> FALSE, truncated |-> FALSE, once |-> FALSE]
Unseen == [world |-> [touch |-> "none", place |-> "table", static |-> TRUE],
           ready |-> FALSE, placed |-> FALSE]

Init ==
    /\ phase = "approach" /\ grip = 0 /\ gap = 0 /\ settle = 0 /\ best = 0
    /\ moved = FALSE /\ reached = FALSE /\ armed = FALSE /\ success = FALSE /\ fail = FALSE
    /\ seen = Unseen /\ frame = 0 /\ step = 0 /\ told = Silent /\ past = NoPast

Frame ==
    /\ frame < FramesPerStep
    /\ step < EpisodeSteps
    /\ \E w \in World :
        /\ seen' = Evaluation(w)
        /\ Advance(w)
        /\ past' = IF success \/ fail THEN past ELSE Remember(past, w)
    /\ frame' = frame + 1
    /\ UNCHANGED <<step, told>>

(* The dense reward, by the lower end of its range; APPROACH is worth less  *)
(* than two whatever the fingers do.                                        *)
Dense ==
    CASE success -> 8
      [] fail /\ ~success -> -8
      [] ~success /\ ~fail /\ phase = "approach" -> 1
      [] ~success /\ ~fail /\ phase = "carrying" ->
            IF seen.ready THEN 6 ELSE IF reached THEN 4 ELSE 2
      [] ~success /\ ~fail /\ phase = "released" -> IF seen.placed THEN 6 ELSE 0

(* _advance_episode, with terminate_on_success and terminate_on_fail.       *)
EndStep ==
    /\ frame = FramesPerStep
    /\ frame' = 0 /\ step' = step + 1
    /\ told' = [reward |-> Dense, terminated |-> success \/ fail,
                truncated |-> step + 1 >= EpisodeSteps, once |-> told.once \/ success]
    /\ UNCHANGED <<phase, grip, gap, settle, best, moved, reached, armed, success, fail,
                   seen, past>>

(* reset_warp of this world, between control steps.                         *)
Reset ==
    /\ frame = 0 /\ step > 0
    /\ phase' = "approach" /\ grip' = 0 /\ gap' = 0 /\ settle' = 0 /\ best' = 0
    /\ moved' = FALSE /\ reached' = FALSE /\ armed' = FALSE /\ success' = FALSE /\ fail' = FALSE
    /\ seen' = Unseen /\ step' = 0 /\ told' = Silent /\ past' = NoPast
    /\ UNCHANGED frame

Next == Frame \/ EndStep \/ Reset

Spec == Init /\ [][Next]_vars

(* ------------------------------------------------------------------------ *)

TypeOK ==
    /\ phase \in {"approach", "carrying", "released", "success", "fail"}
    /\ grip \in 0..GraspFrames /\ gap \in 0..ReleaseFrames /\ settle \in 0..SettleFrames
    /\ best \in 0..2 /\ frame \in 0..FramesPerStep /\ step \in 0..EpisodeSteps

(* The bottle was carried to its height, set down where it may be left and  *)
(* only then let go.                                                        *)
SetDown == past.carried /\ past.top = 2 /\ past.left = "goal"

(* Success: set down, let go for long enough, untouched since, at rest for  *)
(* SettleFrames after the release was confirmed, and still in place at the  *)
(* last of them.  A bottle thrown there, carried too low or touched again   *)
(* does not succeed; and each failure has one of those causes.              *)
VerdictIsDeserved ==
    /\ success => /\ SetDown /\ ~past.again
                  /\ past.free > ReleaseFrames /\ past.still >= SettleFrames
                  /\ past.here = "goal"
    /\ fail => \/ past.free = ReleaseFrames /\ ~SetDown
               \/ past.again
               \/ past.still >= SettleFrames /\ past.here # "goal"
    /\ phase = "released" => SetDown /\ past.free >= ReleaseFrames /\ ~past.again
    /\ phase = "carrying" => past.carried /\ past.free = gap

(* The verdict, the phase and what the caller is told agree, and success is *)
(* not forgotten before a reset.                                            *)
VerdictIsTold ==
    /\ success = (phase = "success") /\ fail = (phase = "fail")
    /\ told.once => success
    /\ frame = 0 /\ step > 0 => told.terminated = (success \/ fail)

(* The evaluation is one frame older than the phase: a bottle that stands   *)
(* in place, let go, is not reported placed (and the step pays nothing) in  *)
(* just the frame that confirms the release, and in no other.               *)
PlacedLagsAtReleaseOnly ==
    phase = "released" /\ ~Touched(seen.world) /\ Valid(seen.world) =>
        (seen.placed \/ (past.free = ReleaseFrames /\ settle = 0))

TransferIsSound == TypeOK /\ VerdictIsDeserved /\ VerdictIsTold /\ PlacedLagsAtReleaseOnly
=============================================================================
