--------------------------- MODULE Stage0LongRun ---------------------------
(***************************************************************************)
(* tools/run_stage0_long.py with rexpolicy/stage0/long_run.py (the cursor) *)
(* and rexpolicy/stage0/checkpoint.py: launches of one long run that share *)
(* an output directory, one after the other or at the same time (nothing   *)
(* locks the directory).  A launch may be stopped by its budget or by a    *)
(* signal and may die anywhere; --resume goes on from the latest           *)
(* checkpoint.  After the four training phases a conditional checkpoint is *)
(* selected on validation data, and the locked test is opened, once, for   *)
(* what was selected.                                                      *)
(*                                                                         *)
(* Files are the variables of the first block.  checkpoint-selection.json  *)
(* and locked-test-claim.json are created with O_EXCL and then written: in *)
(* between they are Torn.                                                  *)
(***************************************************************************)
EXTENDS Integers, FiniteSets

CONSTANTS
    EncoderSteps, SelectorSteps, ConditionalSteps, NoZSteps,    \* the training budget
    CheckpointEvery,    \* checkpoint_every_steps
    Launches,           \* processes; an ended one stands for a later launch
    None, Torn

ASSUME LongRunAssumption ==
    /\ EncoderSteps \in Nat \ {0} /\ SelectorSteps \in Nat \ {0}
    /\ ConditionalSteps \in Nat \ {0} /\ NoZSteps \in Nat \ {0}
    /\ CheckpointEvery \in Nat \ {0}
    /\ None \notin Nat /\ Torn \notin Nat /\ None # Torn
    /\ Launches # {}

(* LongRunPhase, numbered in the order of training. *)
Encoder == 1
Selector == 2
Conditional == 3
NoZ == 4
Phases == 1 .. 4
Complete == 5

Target == [p \in Phases |-> CASE p = Encoder -> EncoderSteps
                              [] p = Selector -> SelectorSteps
                              [] p = Conditional -> ConditionalSteps
                              [] p = NoZ -> NoZSteps]

(* LongRunCursor: the steps of each phase, never beyond its budget. *)
Cursors == {c \in [Phases -> Nat] : \A p \in Phases : c[p] <= Target[p]}

Start == [p \in Phases |-> 0]

GlobalStep(c) == c[Encoder] + c[Selector] + c[Conditional] + c[NoZ]

TotalSteps == EncoderSteps + SelectorSteps + ConditionalSteps + NoZSteps

(* next_phase: the first that is short of its target. *)
NextPhase(c) ==
    IF c[Encoder] < Target[Encoder] THEN Encoder
    ELSE IF c[Selector] < Target[Selector] THEN Selector
    ELSE IF c[Conditional] < Target[Conditional] THEN Conditional
    ELSE IF c[NoZ] < Target[NoZ] THEN NoZ
    ELSE Complete

Advance(c) == [c EXCEPT ![NextPhase(c)] = @ + 1]

(* What is in the models: how many steps each was trained, and how often   *)
(* the selector was warm-started.                                          *)
Models == [steps : Cursors, warm : Nat]

Untrained == [steps |-> Start, warm |-> 0]

(* What a run that was never interrupted has at a cursor. *)
TrainedTo(c) == [steps |-> c, warm |-> IF c[Selector] > 0 THEN 1 ELSE 0]

ConditionalRange == 1 .. ConditionalSteps

VARIABLES
    directory,          \* "absent", "bare" (no run-contract.json), "ready"
    corpus,             \* corpus/ has been published
    checkpoint,         \* checkpoint[g]: the checkpoint of sequence g, or None
    selection,          \* checkpoint-selection.json, Torn, or None
    claim,              \* locked-test-claim.json: what it selects, Torn, or None
    artifacts,          \* the locked-test evaluations: of which step, or None
    report,             \* long-run-report.json, or None
    aborted,            \* there is a locked-test-aborted.json
    admitted,           \* conditional steps whose validation passes every gate
    opens,              \* history: how often the locked test was opened
    tested,             \* history: the conditional step it was last opened for
    pc,                 \* where each launch is
    mem,                \* its memory
    calm                \* nothing interrupts a launch any more

disk == <<directory, corpus, checkpoint, selection, claim, artifacts, report, aborted>>
history == <<admitted, opens, tested, calm>>
vars == <<disk, history, pc, mem>>

Checkpoint == [cursor : Cursors, models : Models]

(* chosen: the conditional step selected, or None when no candidate passed.*)
Selection == [chosen : ConditionalRange \cup {None}, of : SUBSET ConditionalRange]

(* tested: the step of the locked-test evaluation it holds, or None. *)
Report == [status : {"corpus_complete", "paused", "complete"},
           tested : ConditionalRange \cup {None}]

(* A file that is not there, or torn, is not a record. *)
ASSUME RecordAssumption ==
    None \notin Checkpoint /\ None \notin Selection /\ Torn \notin Selection

Memory == [resume : BOOLEAN, collect : BOOLEAN, cursor : Cursors, models : Models,
           warmed : BOOLEAN, last : Int, todo : SUBSET ConditionalRange,
           of : SUBSET ConditionalRange, chosen : ConditionalRange \cup {None}]

Blank == [resume |-> FALSE, collect |-> FALSE, cursor |-> Start, models |-> Untrained,
          warmed |-> FALSE, last |-> -1, todo |-> {}, of |-> {}, chosen |-> None]

Ended == {"idle", "done", "failed", "dead"}

Init ==
    /\ directory = "absent" /\ corpus = FALSE
    /\ checkpoint = [g \in 0 .. TotalSteps |-> None]
    /\ selection = None /\ claim = None /\ artifacts = None /\ report = None
    /\ aborted = FALSE
    /\ admitted \in SUBSET ConditionalRange
    /\ opens = 0 /\ tested = None
    /\ pc = [l \in Launches |-> "idle"]
    /\ mem = [l \in Launches |-> Blank]
    /\ calm = FALSE

At(l, here) == pc[l] = here

Goto(l, to) == pc' = [pc EXCEPT ![l] = to]

(* The process ends; its memory is gone. *)
End(l, how) == Goto(l, how) /\ mem' = [mem EXCEPT ![l] = Blank]

Saved == {g \in 0 .. TotalSteps : checkpoint[g] # None}

(* latest_checkpoint *)
Latest == CHOOSE g \in Saved : \A h \in Saved : h <= g

-----------------------------------------------------------------------------
(* Starting: _prepare_output, _ensure_corpus, the checks of a resume.      *)

LaunchFresh(l, collect) ==
    /\ pc[l] \in Ended /\ ~calm
    /\ IF directory = "absent"
       THEN /\ directory' = "bare"
            /\ Goto(l, "contract")
            /\ mem' = [mem EXCEPT ![l] = [Blank EXCEPT !.collect = collect]]
       ELSE /\ End(l, "failed")
            /\ UNCHANGED directory
    /\ UNCHANGED <<corpus, checkpoint, selection, claim, artifacts, report, aborted, history>>

WriteContract(l) ==
    /\ At(l, "contract")
    /\ directory' = "ready"
    /\ Goto(l, "corpus")
    /\ UNCHANGED <<corpus, checkpoint, selection, claim, artifacts, report, aborted, history, mem>>

LaunchResume(l, collect) ==
    /\ pc[l] \in Ended
    /\ calm => ~collect /\ directory = "ready"
    /\ IF directory = "ready"
       THEN /\ Goto(l, "corpus")
            /\ mem' = [mem EXCEPT ![l] = [Blank EXCEPT !.resume = TRUE, !.collect = collect]]
       ELSE End(l, "failed")
    /\ UNCHANGED <<disk, history>>

AfterCorpus(l) ==
    Goto(l, IF mem[l].collect THEN "collected" ELSE IF mem[l].resume THEN "check" ELSE "first")

FindCorpus(l) ==
    /\ At(l, "corpus")
    /\ IF corpus THEN AfterCorpus(l) ELSE Goto(l, "collect")
    /\ UNCHANGED <<disk, history, mem>>

(* _publish_corpus_directory refuses one that has appeared meanwhile. *)
PublishCorpus(l) ==
    /\ At(l, "collect")
    /\ IF corpus THEN End(l, "failed") /\ UNCHANGED corpus
       ELSE corpus' = TRUE /\ AfterCorpus(l) /\ UNCHANGED mem
    /\ UNCHANGED <<directory, checkpoint, selection, claim, artifacts, report, aborted, history>>

(* --collect-only ends with a report of its own, whatever was there. *)
ReportCorpus(l) ==
    /\ At(l, "collected")
    /\ report' = [status |-> "corpus_complete", tested |-> None]
    /\ End(l, "done")
    /\ UNCHANGED <<directory, corpus, checkpoint, selection, claim, artifacts, aborted, history>>

IsComplete == report # None /\ report.status = "complete"

(* _completed_report_for_resume returns the report there is. *)
FindComplete(l) ==
    /\ At(l, "check") /\ IsComplete
    /\ End(l, "done")
    /\ UNCHANGED <<disk, history>>

(* A claim without a complete report: "already consumed". *)
RefuseConsumed(l) ==
    /\ At(l, "check") /\ ~IsComplete /\ claim # None
    /\ aborted' = TRUE
    /\ End(l, "failed")
    /\ UNCHANGED <<directory, corpus, checkpoint, selection, claim, artifacts, report, history>>

(* A plausible defect: the selector is always taken for not warm-started. *)
LoadLatest_Cold(l) ==
    /\ At(l, "check") /\ ~IsComplete /\ claim = None
    /\ IF Saved = {} THEN Goto(l, "first") /\ UNCHANGED mem
       ELSE LET c == checkpoint[Latest] IN
            /\ mem' = [mem EXCEPT ![l].cursor = c.cursor, ![l].models = c.models,
                                  ![l].warmed = FALSE, ![l].last = GlobalStep(c.cursor)]
            /\ Goto(l, "train")
    /\ UNCHANGED <<disk, history>>

(* A plausible defect: a resume wants a checkpoint. *)
LoadLatest_MustExist(l) ==
    /\ At(l, "check") /\ ~IsComplete /\ claim = None
    /\ IF Saved = {} THEN End(l, "failed")
       ELSE LET c == checkpoint[Latest] IN
            /\ mem' = [mem EXCEPT ![l].cursor = c.cursor, ![l].models = c.models,
                                  ![l].warmed = c.cursor[Selector] > 0,
                                  ![l].last = GlobalStep(c.cursor)]
            /\ Goto(l, "train")
    /\ UNCHANGED <<disk, history>>

(* A collected corpus without a checkpoint starts the training; otherwise  *)
(* the latest checkpoint is loaded.                                        *)
LoadLatest(l) ==
    /\ At(l, "check") /\ ~IsComplete /\ claim = None
    /\ IF Saved = {} THEN Goto(l, "first") /\ UNCHANGED mem
       ELSE LET c == checkpoint[Latest] IN
            /\ mem' = [mem EXCEPT ![l].cursor = c.cursor, ![l].models = c.models,
                                  ![l].warmed = c.cursor[Selector] > 0,
                                  ![l].last = GlobalStep(c.cursor)]
            /\ Goto(l, "train")
    /\ UNCHANGED <<disk, history>>

-----------------------------------------------------------------------------
(* Training.                                                               *)

(* save_checkpoint: nothing to do at the step it last saved; save() refuses*)
(* to write over a checkpoint.                                             *)
SaveCheckpoint(l, to) ==
    LET m == mem[l]
        g == GlobalStep(m.cursor)
    IN  /\ IF g = m.last THEN Goto(l, to) /\ UNCHANGED <<checkpoint, mem>>
           ELSE IF checkpoint[g] # None THEN End(l, "failed") /\ UNCHANGED checkpoint
           ELSE /\ checkpoint' = [checkpoint EXCEPT ![g] = [cursor |-> m.cursor, models |-> m.models]]
                /\ mem' = [mem EXCEPT ![l].last = g]
                /\ Goto(l, to)
        /\ UNCHANGED <<directory, corpus, selection, claim, artifacts, report, aborted, history>>

SaveFirst(l) == At(l, "first") /\ SaveCheckpoint(l, "train")

(* The budget or a signal is seen at the loop head. *)
StopTraining(l) ==
    /\ At(l, "train") /\ ~calm
    /\ NextPhase(mem[l].cursor) # Complete
    /\ Goto(l, "stopping")
    /\ UNCHANGED <<disk, history, mem>>

SaveStopped(l) == At(l, "stopping") /\ SaveCheckpoint(l, "paused")

ReportPaused(l) ==
    /\ At(l, "paused")
    /\ report' = [status |-> "paused", tested |-> None]
    /\ End(l, "done")
    /\ UNCHANGED <<directory, corpus, checkpoint, selection, claim, artifacts, aborted, history>>

WarmStarts(m) == NextPhase(m.cursor) = Selector /\ ~m.warmed

Due(c, d) == \/ GlobalStep(d) % CheckpointEvery = 0
             \/ NextPhase(d) # NextPhase(c)

TrainOneStep(l) ==
    LET m == mem[l]
        d == Advance(m.cursor)
        w == WarmStarts(m)
        trained == [steps |-> [m.models.steps EXCEPT ![NextPhase(m.cursor)] = @ + 1],
                    warm |-> IF w THEN m.models.warm + 1 ELSE m.models.warm]
    IN  /\ At(l, "train")
        /\ NextPhase(m.cursor) # Complete
        /\ mem' = [mem EXCEPT ![l].cursor = d, ![l].warmed = @ \/ w, ![l].models = trained]
        /\ Goto(l, IF Due(m.cursor, d) THEN "due" ELSE "train")
        /\ UNCHANGED <<disk, history>>

SaveDue(l) == At(l, "due") /\ SaveCheckpoint(l, "train")

FinishTraining(l) ==
    /\ At(l, "train")
    /\ NextPhase(mem[l].cursor) = Complete
    /\ Goto(l, "final")
    /\ UNCHANGED <<disk, history, mem>>

SaveFinal(l) == At(l, "final") /\ SaveCheckpoint(l, "select")
-----------------------------------------------------------------------------
(* Selecting a conditional checkpoint (evaluation/checkpoint_selection.py).*)

(* _conditional_candidate_step, of every checkpoint on disk. *)
IsCandidate(c) ==
    /\ c.cursor[Encoder] = EncoderSteps /\ c.cursor[Selector] = SelectorSteps
    /\ c.cursor[NoZ] = 0 /\ c.cursor[Conditional] \in ConditionalRange

Candidates == {checkpoint[g].cursor[Conditional] : g \in {h \in Saved : IsCandidate(checkpoint[h])}}

(* checkpoint_interval: the smallest distance of two candidates. *)
Interval(C) == CHOOSE d \in ConditionalRange :
                  /\ \E s \in C : s + d \in C
                  /\ \A s, t \in C : s < t => d <= t - s

Between(s, t) == IF s <= t THEN s .. t ELSE t .. s

(* The run of eligible steps, an interval apart, that s is in. *)
EligibleRun(C, E, s) ==
    IF Cardinality(C) < 2 THEN {s}
    ELSE LET d == Interval(C) IN
         {t \in E : /\ (t - s) % d = 0
                    /\ \A u \in Between(s, t) : (u - s) % d = 0 => u \in E}

(* Twice the distance from the middle of the run. *)
OffCentre(R, s) ==
    LET lo == CHOOSE t \in R : \A u \in R : t <= u
        hi == CHOOSE t \in R : \A u \in R : u <= t
    IN  IF 2 * s >= lo + hi THEN 2 * s - (lo + hi) ELSE (lo + hi) - 2 * s

(* s goes before t, whatever their measured quality. *)
Outranks(C, E, s, t) ==
    LET R == EligibleRun(C, E, s)
        Q == EligibleRun(C, E, t)
    IN  \/ Cardinality(R) > Cardinality(Q)
        \/ Cardinality(R) = Cardinality(Q) /\ OffCentre(R, s) < OffCentre(Q, t)

(* The candidates that may come first: measured quality decides the ties.  *)
Best(C) == LET E == C \cap admitted IN
           IF E = {} THEN {None} ELSE {s \in E : \A t \in E : ~Outranks(C, E, t, s)}

LoadConditional(m, s) == IF s = None THEN m.models ELSE [m.models EXCEPT !.steps[Conditional] = s]

(* _load_checkpoint_selection, _restore_checkpoint_selection_models *)
ReuseSelection(l) ==
    /\ At(l, "select") /\ selection \notin {None, Torn}
    /\ mem' = [mem EXCEPT ![l].chosen = selection.chosen,
                          ![l].models = LoadConditional(mem[l], selection.chosen)]
    /\ Goto(l, "gate")
    /\ UNCHANGED <<disk, history>>

(* "cannot parse checkpoint selection artifact" *)
RefuseTorn(l) ==
    /\ At(l, "select") /\ selection = Torn
    /\ End(l, "failed")
    /\ UNCHANGED <<disk, history>>

ListCandidates(l) ==
    /\ At(l, "select") /\ selection = None
    /\ IF ConditionalSteps \in Candidates
       THEN /\ mem' = [mem EXCEPT ![l].todo = Candidates, ![l].of = Candidates]
            /\ Goto(l, "evaluate")
       ELSE End(l, "failed")
    /\ UNCHANGED <<disk, history>>

(* The candidates are loaded and evaluated in the order of their steps. *)
EvaluateCandidate(l, s) ==
    /\ At(l, "evaluate") /\ s \in mem[l].todo
    /\ \A t \in mem[l].todo : s <= t
    /\ mem' = [mem EXCEPT ![l].todo = @ \ {s}, ![l].models = LoadConditional(mem[l], s)]
    /\ UNCHANGED <<disk, history, pc>>

(* _Stage0PostTrainingPause, and the pause before the locked test. *)
PausePostTraining(l) ==
    /\ ~calm
    /\ \/ At(l, "evaluate")
       \/ At(l, "gate") /\ mem[l].chosen # None
    /\ Goto(l, "paused")
    /\ UNCHANGED <<disk, history, mem>>

(* The selected checkpoint is loaded, or the final one. *)
Choose(l) ==
    /\ At(l, "evaluate") /\ mem[l].todo = {}
    /\ \E s \in Best(mem[l].of) :
          mem' = [mem EXCEPT ![l].chosen = s,
                             ![l].models = LoadConditional(mem[l], IF s = None THEN ConditionalSteps ELSE s)]
    /\ Goto(l, "publish")
    /\ UNCHANGED <<disk, history>>

CreateSelection(l) ==
    /\ At(l, "publish")
    /\ IF selection # None THEN End(l, "failed") /\ UNCHANGED selection
       ELSE selection' = Torn /\ Goto(l, "published") /\ UNCHANGED mem
    /\ UNCHANGED <<directory, corpus, checkpoint, claim, artifacts, report, aborted, history>>

WriteSelection(l) ==
    /\ At(l, "published")
    /\ selection' = [chosen |-> mem[l].chosen, of |-> mem[l].of]
    /\ Goto(l, "gate")
    /\ UNCHANGED <<directory, corpus, checkpoint, claim, artifacts, report, aborted, history, mem>>

-----------------------------------------------------------------------------
(* The locked test.                                                        *)

(* No candidate passed: the test stays sealed. *)
KeepSealed(l) ==
    /\ At(l, "gate") /\ mem[l].chosen = None
    /\ Goto(l, "report")
    /\ UNCHANGED <<disk, history, mem>>

(* A plausible defect: the claim is written with open(path, "w"). *)
CreateClaim_Overwrites(l) ==
    /\ At(l, "gate") /\ mem[l].chosen # None
    /\ claim' = Torn /\ Goto(l, "claimed")
    /\ UNCHANGED <<directory, corpus, checkpoint, selection, artifacts, report, aborted, history, mem>>

CreateClaim(l) ==
    /\ At(l, "gate") /\ mem[l].chosen # None
    /\ IF claim # None THEN End(l, "failed") /\ UNCHANGED claim
       ELSE claim' = Torn /\ Goto(l, "claimed") /\ UNCHANGED mem
    /\ UNCHANGED <<directory, corpus, checkpoint, selection, artifacts, report, aborted, history>>

WriteClaim(l) ==
    /\ At(l, "claimed")
    /\ claim' = mem[l].chosen
    /\ Goto(l, "test")
    /\ UNCHANGED <<directory, corpus, checkpoint, selection, artifacts, report, aborted, history, mem>>

OpenTest(l) ==
    /\ At(l, "test")
    /\ opens' = opens + 1
    /\ tested' = mem[l].models.steps[Conditional]
    /\ Goto(l, "testing")
    /\ UNCHANGED <<disk, admitted, calm, mem>>

WriteArtifacts(l) ==
    /\ At(l, "testing")
    /\ artifacts' = mem[l].models.steps[Conditional]
    /\ Goto(l, "report")
    /\ UNCHANGED <<directory, corpus, checkpoint, selection, claim, report, aborted, history, mem>>

ReportComplete(l) ==
    /\ At(l, "report")
    /\ report' = [status |-> "complete",
                  tested |-> IF mem[l].chosen = None THEN None
                             ELSE mem[l].models.steps[Conditional]]
    /\ End(l, "done")
    /\ UNCHANGED <<directory, corpus, checkpoint, selection, claim, artifacts, aborted, history>>

-----------------------------------------------------------------------------
(* The process dies: killed, or in an error of the machine. *)
Crash(l) ==
    /\ pc[l] \notin Ended /\ ~calm
    /\ End(l, "dead")
    /\ UNCHANGED <<disk, history>>

(* From some time on nothing interrupts the launches. *)
CalmDown ==
    /\ ~calm
    /\ calm' = TRUE
    /\ UNCHANGED <<disk, admitted, opens, tested, pc, mem>>

Step(l) ==
    \/ WriteContract(l) \/ FindCorpus(l) \/ PublishCorpus(l) \/ ReportCorpus(l)
    \/ FindComplete(l) \/ RefuseConsumed(l) \/ LoadLatest(l)
    \/ SaveFirst(l) \/ TrainOneStep(l) \/ SaveDue(l) \/ FinishTraining(l) \/ SaveFinal(l)
    \/ SaveStopped(l) \/ ReportPaused(l)
    \/ ReuseSelection(l) \/ RefuseTorn(l) \/ ListCandidates(l)
    \/ (\E s \in mem[l].todo : EvaluateCandidate(l, s)) \/ Choose(l)
    \/ CreateSelection(l) \/ WriteSelection(l) \/ KeepSealed(l)
    \/ CreateClaim(l) \/ WriteClaim(l) \/ OpenTest(l) \/ WriteArtifacts(l) \/ ReportComplete(l)

Launch(l) == \E collect \in BOOLEAN : LaunchFresh(l, collect) \/ LaunchResume(l, collect)

Next ==
    \/ CalmDown
    \/ \E l \in Launches :
          Launch(l) \/ Step(l) \/ StopTraining(l) \/ PausePostTraining(l) \/ Crash(l)

Spec == Init /\ [][Next]_vars

Fairness ==
    /\ \A l \in Launches : WF_vars(Step(l))
    /\ WF_vars(\E l \in Launches : LaunchResume(l, FALSE))

-----------------------------------------------------------------------------
(* Properties.                                                             *)

TypeOK ==
    /\ directory \in {"absent", "bare", "ready"}
    /\ corpus \in BOOLEAN /\ aborted \in BOOLEAN /\ calm \in BOOLEAN
    /\ checkpoint \in [0 .. TotalSteps -> Checkpoint \cup {None}]
    /\ selection \in Selection \cup {None, Torn}
    /\ claim \in ConditionalRange \cup {None, Torn}
    /\ artifacts \in ConditionalRange \cup {None}
    /\ report \in Report \cup {None}
    /\ admitted \subseteq ConditionalRange
    /\ opens \in Nat
    /\ tested \in ConditionalRange \cup {None}
    /\ pc \in [Launches -> Ended \cup
          {"contract", "corpus", "collect", "collected", "check", "first", "train", "due",
           "final", "stopping", "paused", "select", "evaluate", "publish", "published",
           "gate", "claimed", "test", "testing", "report"}]
    /\ mem \in [Launches -> Memory]

Training == {"first", "train", "due", "final", "stopping"}

(* However often the run is stopped, killed and resumed, every checkpoint  *)
(* and every launch in training has the models an uninterrupted run has at *)
(* the same cursor: each phase trained that many steps, the selector       *)
(* warm-started exactly once, before its first step.                       *)
ResumeIsExact ==
    /\ \A g \in Saved :
          /\ GlobalStep(checkpoint[g].cursor) = g
          /\ checkpoint[g].models = TrainedTo(checkpoint[g].cursor)
    /\ \A l \in Launches : pc[l] \in Training =>
          /\ mem[l].models = TrainedTo(mem[l].cursor)
          /\ mem[l].warmed = (mem[l].cursor[Selector] > 0)

(* A launch that is killed loses at most checkpoint_every_steps steps, and *)
(* that many only when it is killed between a step and the checkpoint that *)
(* is due after it; one that pauses, or is past its training, loses none.  *)
PastTraining == {"paused", "select", "evaluate", "publish", "published", "gate",
                 "claimed", "test", "testing", "report"}

Lost(l) == GlobalStep(mem[l].cursor) - Latest

BoundedLoss ==
    \A l \in Launches :
        /\ pc[l] = "due" => Lost(l) <= CheckpointEvery
        /\ pc[l] \in {"train", "stopping", "final"} => Lost(l) < CheckpointEvery
        /\ pc[l] \in PastTraining => Lost(l) <= 0

(* The conditional steps that checkpoint_every_steps and the end of the    *)
(* phase make checkpoints of.                                              *)
Scheduled == {s \in ConditionalRange :
                 \/ (EncoderSteps + SelectorSteps + s) % CheckpointEvery = 0
                 \/ s = ConditionalSteps}

(* A selection has looked at every scheduled checkpoint, whatever launches *)
(* ended before, between and after them.                                   *)
ScheduledAreCandidates == selection \notin {None, Torn} => Scheduled \subseteq selection.of

(* A complete report tells the one opening of the test: of the step the    *)
(* selection on disk chose, or none when nothing passed the gates and the  *)
(* test stayed sealed.                                                     *)
ReportIsOfTheTest ==
    IsComplete =>
        /\ selection \notin {None, Torn} /\ report.tested = selection.chosen
        /\ IF report.tested = None THEN opens = 0
           ELSE opens = 1 /\ tested = report.tested /\ artifacts = tested

(* A launch of a run nobody else works on never collides with what earlier *)
(* launches left (a checkpoint, a corpus, a selection or a claim that is   *)
(* there already, a final checkpoint that is not): it fails only at a      *)
(* directory that is taken or not set up, a claim without a report, or a   *)
(* selection that is torn.                                                 *)
FailsForCause ==
    \A l \in Launches : (pc[l] # "failed" /\ pc'[l] = "failed") =>
        \/ pc[l] \in Ended
        \/ pc[l] = "check" /\ claim # None
        \/ pc[l] = "select" /\ selection = Torn

(* The locked test is a one-time test: claimed once, opened once and for   *)
(* the checkpoint the selection on disk names, with a result of that       *)
(* opening, over crashes, resumes and launches at the same time.           *)
OneTime == INSTANCE OneTimeTest WITH
    Choices <- ConditionalRange,
    claimed <- IF claim = None THEN None ELSE selection.chosen,
    openings <- opens, tested <- tested, result <- artifacts

ImplementsOneTimeTest == OneTime!Spec

(* Once nothing interrupts the launches any more, a run whose directory is *)
(* set up gets its complete report, unless a selection or a claim was left *)
(* behind half way.                                                        *)
Wedged ==
    \/ selection = Torn /\ \A l \in Launches : pc[l] # "published"
    \/ claim # None /\ \A l \in Launches : pc[l] \notin {"claimed", "test", "testing", "report"}

Decided == calm /\ directory = "ready" ~> IsComplete \/ Wedged

(* Stable contiguous runs outrank isolated eligible spikes                 *)
(* (checkpoint_selection.py:308): a selected step has an eligible neighbour*)
(* among the candidates whenever some candidate has one.                   *)
Neighbours(C, s, t) == s # t /\ \A u \in C : u \in Between(s, t) => u \in {s, t}

Contiguous(C, s) == \E t \in C \cap admitted : Neighbours(C, s, t)

StableRunsOutrankSpikes ==
    selection \notin {None, Torn} =>
        \A s \in selection.of \cap admitted :
            Contiguous(selection.of, s) => Contiguous(selection.of, selection.chosen)
=============================================================================
