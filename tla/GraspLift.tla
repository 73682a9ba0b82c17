------------------------------ MODULE GraspLift ------------------------------
(***************************************************************************)
(* One world lifts a bottle.  A control step is a fixed number of physics  *)
(* frames, of which the environment reports only what it accumulated; the  *)
(* oracle latches success and failure from that; the scripted controller   *)
(* moves through its phases on the oracle's word and its own counters; and *)
(* the driver keeps the rows of the worlds still under way, while the      *)
(* batch goes on for the sake of others.  The same environment and oracle  *)
(* serve the learned policy, whose driver also distrusts them.             *)
(***************************************************************************)
EXTENDS Naturals, Sequences, FiniteSetsExt

CONSTANTS
    Frames,             \* frames_per_action, and full_opposed_physics_frames
    GraspFrames,        \* the oracle's grasp_confirm_physics_frames
    DropSteps,          \* drop_confirm_control_steps
    HoldSteps,          \* success_hold_control_steps
    ApproachSteps, MinCloseStep, MaxClose, StableSteps, ConfirmSteps, MaxLift, MaxHold,
                        \* GraspLiftAuthoringModeSpec
    MaxSteps,           \* max_episode_steps
    None

VARIABLES
    driver,             \* "author": the scripted controller; "policy": a learned one
    batch,              \* "running", "ended", or "aborted" by an error
    step,               \* control steps the batch has made
    frames,             \* the contact of each frame of this control step so far
    palm,               \* forbidden_contact_any_frame
    oracle,             \* the oracle's state for this world
    ctl,                \* the controller's state for this world
    record,             \* the last row kept of this world
    story               \* history: what the frames showed, while rows are kept

vars == <<driver, batch, step, frames, palm, oracle, ctl, record, story>>

GraspAssumption ==
    /\ {Frames, GraspFrames, DropSteps, HoldSteps, ApproachSteps, MinCloseStep, MaxClose,
        StableSteps, ConfirmSteps, MaxLift, MaxHold, MaxSteps} \subseteq Nat \ {0}
    /\ GraspFrames <= Frames

Contact == {"none", "some", "opposed"}

(* ---- what the environment accumulates over a control step -------------- *)

HadContact(fs) == \E k \in DOMAIN fs : fs[k] # "none"
OpposedNow(fs) == fs[Len(fs)] = "opposed"
LongestGrip(fs) ==
    Max({0} \cup {n \in DOMAIN fs :
            \E k \in 0..(Len(fs) - n) : \A j \in 1..n : fs[k + j] = "opposed"})

(* ---- the oracle --------------------------------------------------------- *)

NewOracle == [confirmed |-> FALSE, gap |-> 0, hold |-> 0, success |-> FALSE, failure |-> FALSE,
              faults |-> {}]

(* A plausible defect: a step is empty when it ends without contact. *)
Evaluate_EndsEmpty(o, fs, e, s) ==
    LET open == ~o.success /\ ~o.failure
        confirmed == o.confirmed \/ LongestGrip(fs) >= GraspFrames
        gap == IF confirmed /\ fs[Len(fs)] = "none" THEN o.gap + 1 ELSE 0
        faults == {f \in {"forbidden"} : e.palm} \cup {f \in {"pose"} : s.tilted}
                    \cup {f \in {"dropped"} : gap >= DropSteps} \cup {f \in {"overflow"} : e.overflow}
        hold == IF confirmed /\ OpposedNow(fs) /\ s.lifted /\ faults = {} THEN o.hold + 1 ELSE 0
    IN IF ~open THEN o
       ELSE [confirmed |-> confirmed, gap |-> gap, hold |-> hold,
             success |-> hold >= HoldSteps, failure |-> faults # {}, faults |-> faults]

(* evaluate: e is what the interval was like, s how it ended.              *)
Evaluate(o, fs, e, s) ==
    LET open == ~o.success /\ ~o.failure
        confirmed == o.confirmed \/ LongestGrip(fs) >= GraspFrames
        gap == IF confirmed /\ ~HadContact(fs) THEN o.gap + 1 ELSE 0
        faults == {f \in {"forbidden"} : e.palm} \cup {f \in {"pose"} : s.tilted}
                    \cup {f \in {"dropped"} : gap >= DropSteps} \cup {f \in {"overflow"} : e.overflow}
        hold == IF confirmed /\ OpposedNow(fs) /\ s.lifted /\ faults = {} THEN o.hold + 1 ELSE 0
    IN IF ~open THEN o
       ELSE [confirmed |-> confirmed, gap |-> gap, hold |-> hold,
             success |-> hold >= HoldSteps, failure |-> faults # {}, faults |-> faults]

(* ---- the controller ----------------------------------------------------- *)

Terminal == {"succeeded", "oracle_failed", "rejected", "exhausted"}

NewController == [phase |-> "approach", approach |-> 0, closed |-> 0, elapsed |-> 0, stable |-> 0,
                  confirm |-> 0, lift |-> 0, hold |-> 0, tentative |-> FALSE, frozen |-> FALSE]

AfterApproach(c) ==
    [c EXCEPT !.approach = @ + 1,
              !.phase = IF c.approach + 1 >= ApproachSteps THEN "close" ELSE @]

(* firm: opposed throughout, at the end too, and nothing forbidden.  still: *)
(* bottle and robot static.  same: the target executed is the tentative one.*)
AfterClose(c, firm, same, still) ==
    LET elapsed == c.elapsed + 1
        closed == IF c.tentative THEN c.closed ELSE c.closed + 1
        found == ~c.tentative /\ firm /\ closed >= MinCloseStep
        kept == c.tentative /\ firm
        stable == IF kept /\ same THEN c.stable + 1
                  ELSE IF kept \/ found THEN 1
                  ELSE IF c.tentative THEN 0 ELSE c.stable
        verified == kept /\ same /\ stable >= StableSteps /\ still
    IN [c EXCEPT !.elapsed = elapsed, !.closed = closed, !.stable = stable,
                 !.tentative = kept \/ found,
                 !.frozen = @ \/ verified,
                 !.confirm = IF verified THEN 0 ELSE @,
                 !.phase = IF verified THEN "confirm"
                           ELSE IF elapsed >= MaxClose THEN "exhausted" ELSE @]

AfterConfirm(c, firm) ==
    LET ready == firm /\ c.confirm + 1 >= ConfirmSteps
    IN IF firm
       THEN [c EXCEPT !.confirm = @ + 1,
                      !.phase = IF ready THEN "lift" ELSE @,
                      !.lift = IF ready THEN 0 ELSE @,
                      !.hold = IF ready THEN 0 ELSE @]
       ELSE [c EXCEPT !.phase = IF c.elapsed < MaxClose THEN "close" ELSE "rejected",
                      !.tentative = FALSE, !.frozen = FALSE, !.stable = 0]

AfterLift(c, firm) ==
    IF ~firm THEN [c EXCEPT !.phase = "rejected"]
    ELSE [c EXCEPT !.lift = @ + 1,
                   !.phase = IF c.lift + 1 >= MaxLift THEN "success_hold" ELSE @]

AfterSuccessHold(c, firm) ==
    IF ~firm THEN [c EXCEPT !.phase = "rejected"]
    ELSE [c EXCEPT !.hold = @ + 1,
                   !.phase = IF c.hold + 1 >= MaxHold THEN "exhausted" ELSE @]

(* observe, of the action propose made for the same phase: the oracle's     *)
(* verdict goes first, and a terminal phase is left alone.                  *)
Firm(fs, e) ==
    OpposedNow(fs) /\ LongestGrip(fs) >= Frames /\ ~e.palm /\ ~e.overflow

Observe(c, o, fs, e, s) ==
    CASE c.phase \in Terminal -> c
      [] c.phase \notin Terminal /\ o.success -> [c EXCEPT !.phase = "succeeded"]
      [] c.phase \notin Terminal /\ o.failure -> [c EXCEPT !.phase = "oracle_failed"]
      [] OTHER ->
            CASE c.phase = "approach" -> AfterApproach(c)
              [] c.phase = "close" -> AfterClose(c, Firm(fs, e), s.same, s.still)
              [] c.phase = "confirm" -> AfterConfirm(c, Firm(fs, e))
              [] c.phase = "lift" -> AfterLift(c, Firm(fs, e))
              [] c.phase = "success_hold" -> AfterSuccessHold(c, Firm(fs, e))
(* ---- the driver's rows -------------------------------------------------- *)

NoRow == [steps |-> 0, success |-> FALSE, failure |-> FALSE, phase |-> None]

(* The world's rows are closed: its controller is terminal, or the policy's *)
(* cell has its verdict.                                                    *)
IsClosed(c, r) == IF driver = "author" THEN c.phase \in Terminal ELSE r.success \/ r.failure
Closed == IsClosed(ctl, record)

(* A plausible defect: only the verdict of the oracle closes the rows. *)
Row_UntilVerdict(o, c, wrong) ==
    IF record.success \/ record.failure THEN record
    ELSE [steps |-> record.steps + 1,
          success |-> o.success /\ ~wrong,
          failure |-> o.failure \/ wrong,
          phase |-> c.phase]

(* wrong: the step broke the execution contract.  The author's driver gives *)
(* up the batch; the policy's fails the cell.                               *)
Row(o, c, wrong) ==
    IF Closed THEN record
    ELSE [steps |-> record.steps + 1,
          success |-> o.success /\ ~wrong,
          failure |-> o.failure \/ wrong,
          phase |-> c.phase]

(* ---- the history -------------------------------------------------------- *)

(* run: control steps, up to now, of opposed contact at every frame (of the *)
(* author's world).  top: those that ended opposed and lifted, and empty:   *)
(* those without any contact, since a grasp was seen.                       *)
NoStory == [run |-> 0, top |-> 0, empty |-> 0, full |-> FALSE, lost |-> FALSE, bad |-> FALSE]

Told(t, fs, e, s, wrong) ==
    LET grip == \A k \in DOMAIN fs : fs[k] = "opposed"
        full == t.full \/ \E k \in 0..(Len(fs) - GraspFrames) :
                             \A j \in 1..GraspFrames : fs[k + j] = "opposed"
        empty == IF full /\ \A k \in DOMAIN fs : fs[k] = "none" THEN t.empty + 1 ELSE 0
    IN [run |-> IF driver = "author" /\ grip /\ ~e.palm THEN t.run + 1 ELSE 0,
        top |-> IF full /\ s.lifted /\ OpposedNow(fs) THEN t.top + 1 ELSE 0,
        empty |-> empty,
        full |-> full,
        lost |-> t.lost \/ empty >= DropSteps,
        bad |-> t.bad \/ e.palm \/ e.overflow \/ s.tilted \/ wrong]

(* ------------------------------------------------------------------------ *)

Init ==
    /\ driver \in {"author", "policy"}
    /\ batch = "running" /\ step = 0 /\ frames = <<>> /\ palm = FALSE
    /\ oracle = NewOracle /\ ctl = NewController
    /\ record = NoRow /\ story = NoStory

(* One physics frame; a palm is hand contact, but not of a finger.          *)
Frame ==
    /\ batch = "running" /\ Len(frames) < Frames
    /\ \E c \in Contact : frames' = Append(frames, c)
    /\ \E p \in BOOLEAN : palm' = (palm \/ p)
    /\ UNCHANGED <<driver, batch, step, oracle, ctl, record, story>>

(* still and same are looked at only to verify a tentative target.          *)
Endings ==
    {s \in [lifted : BOOLEAN, tilted : BOOLEAN, still : BOOLEAN, same : BOOLEAN] :
        s.still \/ s.same => ctl.phase = "close" /\ ctl.tentative}

(* The end of the control step: oracle, controller, rows; the next step     *)
(* begins with its accumulators cleared.  The batch ends with its budget,   *)
(* or when no world is left, which this one cannot tell alone.              *)
End ==
    /\ batch = "running" /\ Len(frames) = Frames
    /\ \E s \in Endings, upset \in {"no", "overflow", "wrong"}, others \in BOOLEAN :
        LET wrong == upset = "wrong"
            e == [palm |-> palm, overflow |-> upset = "overflow"]
            o == Evaluate(oracle, frames, e, s)
            c == IF driver = "author" THEN Observe(ctl, o, frames, e, s) ELSE ctl
        IN IF driver = "author" /\ upset # "no"
           THEN /\ batch' = "aborted"
                /\ UNCHANGED <<driver, step, frames, palm, oracle, ctl, record, story>>
           ELSE /\ step' = step + 1
                /\ frames' = <<>> /\ palm' = FALSE
                /\ oracle' = o /\ ctl' = c
                /\ record' = Row(o, c, wrong)
                /\ story' = IF Closed THEN story ELSE Told(story, frames, e, s, wrong)
                /\ batch' = IF step' >= MaxSteps \/ (IsClosed(c, record') /\ ~others) THEN "ended"
                            ELSE "running"
                /\ UNCHANGED driver

Next == Frame \/ End

Spec == Init /\ [][Next]_vars

(* ------------------------------------------------------------------------ *)

Outcome == IF record.success THEN "success" ELSE IF record.failure THEN "failure" ELSE "timeout"

TypeOK ==
    /\ driver \in {"author", "policy"} /\ batch \in {"running", "ended", "aborted"}
    /\ step \in 0..MaxSteps /\ record.steps \in 0..step
    /\ Len(frames) <= Frames /\ palm \in BOOLEAN
    /\ oracle.hold <= HoldSteps /\ oracle.gap <= DropSteps

(* The verdict kept is the one the frames deserve: success exactly when a   *)
(* grasp was seen, nothing forbidden has happened, the bottle was never     *)
(* without a finger for DropSteps control steps since, and the last         *)
(* HoldSteps of them ended opposed and lifted; failure exactly when one of  *)
(* those things went wrong first.                                           *)
VerdictIsDeserved ==
    LET failed == story.bad \/ story.lost
    IN /\ record.failure = failed
       /\ record.success = (story.top >= HoldSteps /\ ~failed)

(* How long the controller believes the present target has held.            *)
Claimed ==
    CASE ctl.phase = "close" -> IF ctl.tentative THEN ctl.stable ELSE 0
      [] ctl.phase = "confirm" -> StableSteps + ctl.confirm
      [] ctl.phase = "lift" -> StableSteps + ConfirmSteps + ctl.lift
      [] ctl.phase = "success_hold" -> StableSteps + ConfirmSteps + MaxLift + ctl.hold
      [] OTHER -> 0

(* It lifts only what it holds: the counters of four phases add up to       *)
(* control steps in which every frame was opposed, without a gap.           *)
LiftIsHeld ==
    /\ story.run >= Claimed
    /\ ctl.frozen => ctl.phase \notin {"approach", "close"}
    /\ ctl.phase \in {"confirm", "lift", "success_hold"} => ctl.tentative /\ ctl.frozen

(* The attempt ends by itself: each visit to the confirmation spends at     *)
(* least StableSteps of the closing budget, which no retry restores.        *)
AttemptIsBounded ==
    driver = "author" =>
        record.steps <= ApproachSteps + MaxClose + (MaxClose \div StableSteps) * ConfirmSteps
                          + MaxLift + MaxHold

(* The sealed outcome and the controller's last phase tell the same story.  *)
PhaseMatchesOutcome ==
    driver = "author" /\ record.steps > 0 =>
        /\ (record.phase = "succeeded") = (Outcome = "success")
        /\ (record.phase = "oracle_failed") = (Outcome = "failure")

GraspIsSound ==
    TypeOK /\ VerdictIsDeserved /\ LiftIsHeld /\ AttemptIsBounded /\ PhaseMatchesOutcome

(* What was kept of a world stays as it was when its rows were closed,      *)
(* however long the batch goes on and whatever the bottle does then.        *)
KeepsRows == Closed => Closed' /\ record' = record
=============================================================================
