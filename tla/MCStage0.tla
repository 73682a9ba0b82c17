------------------------------ MODULE MCStage0 ------------------------------
(***************************************************************************)
(* The Stage 0 protocols that open held-out data once, side by side: the   *)
(* long run, launched by one operator after another (serial) or by several *)
(* at a time (overlap), and the validation cohort (cohort).  They share no *)
(* file, so that one of the three moves in a behaviour.                    *)
(***************************************************************************)
EXTENDS Stage0LongRun

CONSTANTS Authors, Selectors, Outputs, Choices

VARIABLES part, authoring, selecting, cohort, output, seen, held, run

cohortVars == <<authoring, selecting, cohort, output, seen, held, run>>

Cohort == INSTANCE ValidationCohort

Operators == IF part = "serial" THEN {CHOOSE l \in Launches : TRUE} ELSE Launches

MCInit ==
    /\ part \in {"serial", "overlap", "cohort"}
    /\ Init /\ Cohort!Init
    /\ part = "overlap" => admitted \in {{}, {1, ConditionalSteps}}     \* bounds
    /\ part = "cohort" => admitted = {}

NextLongRun ==
    \/ part = "serial" /\ CalmDown
    \/ \E l \in Operators :
          Launch(l) \/ Step(l) \/ StopTraining(l) \/ PausePostTraining(l) \/ Crash(l)

MCNext ==
    \/ /\ part # "cohort" /\ NextLongRun
       /\ UNCHANGED <<part, cohortVars>>
    \/ /\ part = "cohort" /\ Cohort!Next
       /\ UNCHANGED <<part, vars>>

MCSpec ==
    /\ MCInit /\ [][MCNext]_<<part, vars, cohortVars>>
    /\ \A l \in Launches : WF_vars(l \in Operators /\ Step(l))
    /\ WF_vars(\E l \in Operators : LaunchResume(l, FALSE))

(* Whatever is stopped, paused, crashed and resumed, a launch goes on from *)
(* the state that the uninterrupted run would have at its step, and loses  *)
(* at most one checkpoint interval of steps, wherever it is killed         *)
(* (run_stage0_long.py).                                                   *)
ResumesWell == ResumeIsExact /\ BoundedLoss

(* A decision of the long run is of the test that was claimed for it; and  *)
(* no status.json of a selection asks for a fresh output once the claim is *)
(* taken, nor says "complete" of any but the run that opened the cohort    *)
(* (run_stage0_grasp_lift_no_z_selection.py, SelectionOutput).             *)
FilesAreTrue == ReportIsOfTheTest /\ Cohort!StatusIsHonest

(* The seeds of the validation cohort are authored once and its held-out   *)
(* data are opened once, by whoever came first (the O_EXCL claims).        *)
OpenedOnce == Cohort!AuthoredOnce /\ Cohort!OpenedOnce

(* One operator at a time, who is not interrupted any more, gets a         *)
(* decision of the long run, or a run that is wedged for a torn file; and  *)
(* a launch fails for a cause only (run_stage0_long.py, main).             *)
SerialDecided ==
    /\ part = "serial" /\ calm /\ directory = "ready" ~> IsComplete \/ Wedged
    /\ [][part = "serial" => FailsForCause]_vars
=============================================================================
