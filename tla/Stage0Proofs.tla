---------------------------- MODULE Stage0Proofs ----------------------------
(***************************************************************************)
(* Theorems about the Stage 0 protocols, for any training budget, any      *)
(* number of launches of the long run, at the same time or not, and any    *)
(* number of authoring and selection runs of the validation cohort.        *)
(***************************************************************************)
EXTENDS MCStage0, BasicFacts

(* In training, or past it.                                                *)
Starting == {"contract", "corpus", "collect", "collected", "check", "first"}

Stepping == {"train", "due", "final", "stopping"}

(* Why a resume is exact: before the training a launch has nothing; in it  *)
(* it has what the uninterrupted run has, what it saved or loaded last is  *)
(* on disk, and no checkpoint is overdue; past it, all of it is on disk.   *)
CheckpointsExact ==
    \A g \in Saved : /\ GlobalStep(checkpoint[g].cursor) = g
                     /\ checkpoint[g].models = TrainedTo(checkpoint[g].cursor)

Ready(l) ==
    /\ pc[l] \in Starting =>
          /\ mem[l].cursor = Start /\ mem[l].models = Untrained
          /\ mem[l].warmed = FALSE /\ mem[l].last = -1
    /\ pc[l] \in Stepping =>
          /\ mem[l].models = TrainedTo(mem[l].cursor)
          /\ mem[l].warmed = (mem[l].cursor[Selector] > 0)
          /\ mem[l].last \in Saved
    /\ pc[l] \in {"train", "stopping", "final"} =>
          GlobalStep(mem[l].cursor) - mem[l].last <= GlobalStep(mem[l].cursor) % CheckpointEvery
    /\ pc[l] = "due" => GlobalStep(mem[l].cursor) - mem[l].last <= CheckpointEvery
    /\ pc[l] \in PastTraining =>
          mem[l].last \in Saved /\ mem[l].last = GlobalStep(mem[l].cursor)

Resumes == TypeOK /\ CheckpointsExact /\ \A l \in Launches : Ready(l)

(* Why the test is opened once: one launch writes the selection and one    *)
(* the claim, what a launch has chosen since is what the selection says,   *)
(* and the one opening is of it.                                           *)
SelectionSettled ==
    /\ \A l \in Launches : pc[l] = "published" => selection = Torn
    /\ \A l, k \in Launches : pc[l] = "published" /\ pc[k] = "published" => l = k
    /\ \A l \in Launches : pc[l] \in {"gate", "claimed", "test", "testing", "report"} =>
          selection \notin {None, Torn} /\ mem[l].chosen = selection.chosen
    /\ \A l \in Launches :
          pc[l] \in {"publish", "published", "gate", "claimed", "test", "testing", "report"}
             /\ mem[l].chosen # None => mem[l].models.steps[Conditional] = mem[l].chosen

ClaimSettled ==
    /\ \A l \in Launches : pc[l] \in {"claimed", "test", "testing"} =>
          mem[l].chosen # None /\ claim # None
    /\ \A l, k \in Launches :
          pc[l] \in {"claimed", "test"} /\ pc[k] \in {"claimed", "test"} => l = k
    /\ \A l \in Launches : pc[l] \in {"claimed", "test"} => opens = 0
    /\ claim # None => selection \notin {None, Torn} /\ selection.chosen # None
    /\ opens = 0 => tested = None /\ artifacts = None
    /\ opens # 0 => opens = 1 /\ claim # None /\ tested = selection.chosen
    /\ artifacts # None => artifacts = tested
    /\ \A l \in Launches : pc[l] = "testing" => opens = 1
    /\ \A l \in Launches : pc[l] = "report" /\ mem[l].chosen # None =>
          opens = 1 /\ artifacts = tested

LongRunInv == Resumes /\ SelectionSettled /\ ClaimSettled /\ ReportIsOfTheTest

-----------------------------------------------------------------------------
(* The newest checkpoint is the one with the largest step                  *)
(* (_latest_checkpoint).                                                   *)
LEMMA LatestIsLast ==
    ASSUME NEW g \in Saved
    PROVE  Latest \in Saved /\ \A h \in Saved : h <= Latest
<1>1. TotalSteps \in Nat
  BY LongRunAssumption DEF TotalSteps
<1>2. Saved \in SUBSET (0 .. TotalSteps) /\ Saved # {}
  BY DEF Saved
<1>3. \E x \in Saved : \A y \in Saved : y <= x
  BY <1>1, <1>2, GreatestNatural
<1> QED
  BY <1>3 DEF Latest

(* A cursor that may still advance has its step below the budget.          *)
LEMMA CursorSteps ==
    ASSUME NEW c \in Cursors
    PROVE  /\ \A p \in Phases : c[p] \in 0 .. Target[p]
           /\ GlobalStep(c) \in 0 .. TotalSteps
<1>1. \A p \in Phases : c[p] \in 0 .. Target[p] /\ Target[p] \in Nat
  BY LongRunAssumption DEF Cursors, Target, Phases, Encoder, Selector, Conditional, NoZ
<1> QED
  BY <1>1, LongRunAssumption
     DEF Target, Phases, Encoder, Selector, Conditional, NoZ, GlobalStep, TotalSteps

(* advance() stays in the range of cursors and adds one to the global step.*)
LEMMA AdvanceStep ==
    ASSUME NEW c \in Cursors, NextPhase(c) # Complete
    PROVE  /\ NextPhase(c) \in Phases /\ Advance(c) \in Cursors
           /\ GlobalStep(Advance(c)) = GlobalStep(c) + 1
           /\ Advance(c)[Selector] = IF NextPhase(c) = Selector THEN c[Selector] + 1 ELSE c[Selector]
           /\ c[Selector] \in Nat
<1>1. NextPhase(c) \in Phases /\ c[NextPhase(c)] < Target[NextPhase(c)]
  BY DEF NextPhase, Phases, Encoder, Selector, Conditional, NoZ, Complete
<1>2. \A p \in Phases : c[p] \in 0 .. Target[p] /\ Target[p] \in Nat
  BY LongRunAssumption DEF Cursors, Target, Phases, Encoder, Selector, Conditional, NoZ
<1>3. c \in [Phases -> Nat]
  BY DEF Cursors
<1>4. Advance(c) \in Cursors
  BY <1>1, <1>2, <1>3 DEF Advance, Cursors
<1>5. \A p \in Phases : Advance(c)[p] = IF p = NextPhase(c) THEN c[p] + 1 ELSE c[p]
  BY <1>1, <1>3 DEF Advance
<1>6. GlobalStep(Advance(c)) = GlobalStep(c) + 1
  BY <1>1, <1>2, <1>5 DEF GlobalStep, Phases, Encoder, Selector, Conditional, NoZ
<1> QED
  BY <1>1, <1>2, <1>4, <1>5, <1>6 DEF Phases, Selector

(* What a launch keeps in its memory. *)
LEMMA MemoryFields ==
    ASSUME TypeOK, NEW l \in Launches
    PROVE  /\ mem[l] \in Memory /\ mem[l].cursor \in Cursors /\ mem[l].models \in Models
           /\ mem[l].last \in Int /\ mem[l].of \subseteq ConditionalRange
           /\ mem[l].todo \subseteq ConditionalRange
           /\ mem[l].chosen \in ConditionalRange \cup {None}
BY DEF TypeOK, Memory

(* What a launch starts with has its types.                                *)
LEMMA StartTypes == Start \in Cursors /\ Untrained \in Models /\ Blank \in Memory
<1>1. Start \in Cursors
  BY LongRunAssumption DEF Start, Cursors, Target, Phases, Encoder, Selector, Conditional, NoZ
<1> QED
  BY <1>1, LongRunAssumption DEF Untrained, Models, Blank, Memory

(* Loading the weights of a conditional step gives models of the right     *)
(* kind.                                                                   *)
LEMMA LoadConditionalType ==
    ASSUME NEW m \in Memory, NEW s \in ConditionalRange \cup {None}
    PROVE  LoadConditional(m, s) \in Models
<1>1. CASE s = None
  BY <1>1 DEF LoadConditional, Memory
<1>2. CASE s # None
  <2>1. s \in Nat /\ s <= Target[Conditional] /\ Conditional \in Phases
    BY <1>2, LongRunAssumption
       DEF ConditionalRange, Target, Phases, Encoder, Selector, Conditional, NoZ
  <2>2. m.models \in Models /\ m.models.steps \in Cursors
    BY DEF Memory, Models
  <2>3. [m.models.steps EXCEPT ![Conditional] = s] \in Cursors
    BY <2>1, <2>2 DEF Cursors
  <2> QED
    BY <1>2, <2>2, <2>3 DEF LoadConditional, Models
<1> QED
  BY <1>1, <1>2

(* Only steps of the conditional stage are evaluated as candidates.        *)
LEMMA CandidatesType == ASSUME TypeOK PROVE Candidates \subseteq ConditionalRange
<1> SUFFICES ASSUME NEW g \in Saved, IsCandidate(checkpoint[g])
             PROVE  checkpoint[g].cursor[Conditional] \in ConditionalRange
  BY DEF Candidates
<1> QED
  BY DEF IsCandidate

(* What is chosen is one of the candidates that were admitted, or None.    *)
LEMMA BestType ==
    ASSUME NEW C \in SUBSET ConditionalRange, NEW s \in Best(C)
    PROVE  s \in ConditionalRange \cup {None}
BY DEF Best

(* The types: one case for the steps of each stage of a launch. *)
LEMMA TypeInit == Init => TypeOK
<1> SUFFICES ASSUME Init PROVE TypeOK
  OBVIOUS
<1>1. mem \in [Launches -> Memory] /\ pc \in [Launches -> {"idle"}]
  BY StartTypes DEF Init
<1>2. checkpoint \in [0 .. TotalSteps -> Checkpoint \cup {None}]
  BY DEF Init
<1>3. opens \in Nat /\ admitted \subseteq ConditionalRange
  BY DEF Init
<1> QED
  BY <1>1, <1>2, <1>3 DEF Init, TypeOK, Ended

(* A checkpoint that is written keeps the types (_save_checkpoint).        *)
LEMMA SaveTypes ==
    ASSUME TypeOK, NEW l \in Launches,
           NEW to \in {"train", "paused", "select"}, SaveCheckpoint(l, to)
    PROVE  TypeOK'
<1> DEFINE m == mem[l]
           g == GlobalStep(m.cursor)
<1>1. g \in 0 .. TotalSteps /\ m.cursor \in Cursors /\ m.models \in Models
  BY MemoryFields, CursorSteps
<1>2. g \in Int
  BY <1>1
<1>3. mem \in [Launches -> Memory] /\ mem' \in [Launches -> Memory]
  <2>1. [mem EXCEPT ![l].last = g] \in [Launches -> Memory]
    BY <1>2 DEF TypeOK, Memory
  <2> HIDE DEF g
  <2> QED
    BY <2>1, StartTypes DEF SaveCheckpoint, End, TypeOK, g, m
<1>4. checkpoint' \in [0 .. TotalSteps -> Checkpoint \cup {None}]
  <2>1. [cursor |-> m.cursor, models |-> m.models] \in Checkpoint
    BY <1>1 DEF Checkpoint
  <2> QED
    BY <1>1, <2>1 DEF SaveCheckpoint, TypeOK
<1>5. pc' = [pc EXCEPT ![l] = to] \/ pc' = [pc EXCEPT ![l] = "failed"]
  BY DEF SaveCheckpoint, Goto, End
<1> QED
  BY <1>3, <1>4, <1>5 DEF TypeOK, SaveCheckpoint, history, Ended

(* The steps of a start, and the death of a launch. *)
LEMMA StartsTypes ==
    ASSUME TypeOK, NEW l \in Launches,
           \/ Launch(l) \/ WriteContract(l) \/ FindCorpus(l) \/ PublishCorpus(l)
           \/ ReportCorpus(l) \/ FindComplete(l) \/ RefuseConsumed(l) \/ Crash(l)
    PROVE  TypeOK'
<1> USE StartTypes
<1>1. ASSUME NEW collect \in BOOLEAN, LaunchFresh(l, collect) PROVE TypeOK'
  <2>1. [Blank EXCEPT !.collect = collect] \in Memory
    BY DEF Memory, Blank
  <2> QED
    BY <1>1, <2>1 DEF TypeOK, LaunchFresh, Goto, End, history, Ended
<1>2. ASSUME NEW collect \in BOOLEAN, LaunchResume(l, collect) PROVE TypeOK'
  <2>1. [Blank EXCEPT !.resume = TRUE, !.collect = collect] \in Memory
    BY DEF Memory, Blank
  <2> QED
    BY <1>2, <2>1 DEF TypeOK, LaunchResume, Goto, End, history, disk, Ended
<1>3. CASE WriteContract(l)
  BY <1>3 DEF TypeOK, WriteContract, Goto, history
<1>4. CASE FindCorpus(l)
  BY <1>4 DEF TypeOK, FindCorpus, AfterCorpus, Goto, history, disk
<1>5. CASE PublishCorpus(l)
  <2>1. CASE corpus
    BY <1>5, <2>1 DEF TypeOK, PublishCorpus, Goto, End, history, Ended
  <2>2. CASE ~corpus
    BY <1>5, <2>2 DEF TypeOK, PublishCorpus, AfterCorpus, Goto, history
  <2> QED
    BY <2>1, <2>2
<1>6. CASE ReportCorpus(l)
  <2>1. [status |-> "corpus_complete", tested |-> None] \in Report
    BY DEF Report
  <2> QED
    BY <1>6, <2>1 DEF TypeOK, ReportCorpus, Goto, End, history, Ended
<1>7. CASE FindComplete(l) \/ RefuseConsumed(l) \/ Crash(l)
  BY <1>7 DEF TypeOK, FindComplete, RefuseConsumed, Crash, Goto, End, history, disk, Ended
<1> QED
  BY <1>1, <1>2, <1>3, <1>4, <1>5, <1>6, <1>7 DEF Launch

(* Loading a checkpoint, and the end of training. *)
LEMMA LoadsTypes ==
    ASSUME TypeOK, NEW l \in Launches,
           LoadLatest(l) \/ StopTraining(l) \/ FinishTraining(l)
    PROVE  TypeOK'
<1>1. CASE LoadLatest(l)
  <2>1. CASE Saved = {}
    BY <1>1, <2>1 DEF LoadLatest, TypeOK, Goto, history, disk
  <2>2. CASE Saved # {}
    <3> DEFINE c == checkpoint[Latest]
               warmed == c.cursor[Selector] > 0
               m == [mem[l] EXCEPT !.cursor = c.cursor, !.models = c.models,
                                   !.warmed = warmed, !.last = GlobalStep(c.cursor)]
    <3>1. c \in Checkpoint
      BY <2>2, LatestIsLast DEF Saved, TypeOK
    <3>2. c.cursor \in Cursors /\ c.models \in Models /\ GlobalStep(c.cursor) \in Int
      <4>1. c.cursor \in Cursors /\ c.models \in Models
        BY <3>1 DEF Checkpoint
      <4> HIDE DEF c
      <4>2. GlobalStep(c.cursor) \in 0 .. TotalSteps
        BY <4>1, CursorSteps
      <4> QED
        BY <4>1, <4>2
    <3>3. m \in Memory
      <4>1. warmed \in BOOLEAN
        OBVIOUS
      <4> HIDE DEF c, warmed
      <4> QED
        BY <3>2, <4>1, MemoryFields DEF Memory
    <3>4. mem' = [mem EXCEPT ![l] = m] /\ pc' = [pc EXCEPT ![l] = "train"]
      BY <1>1, <2>2 DEF LoadLatest, Goto, TypeOK
    <3> HIDE DEF m
    <3> QED
      BY <1>1, <3>3, <3>4 DEF LoadLatest, TypeOK, history, disk
  <2> QED
    BY <2>1, <2>2
<1>2. CASE StopTraining(l) \/ FinishTraining(l)
  BY <1>2 DEF StopTraining, FinishTraining, TypeOK, Goto, history, disk
<1> QED
  BY <1>1, <1>2

(* A step of training leaves what the uninterrupted run has one step on.   *)
LEMMA TrainedStep ==
    ASSUME Resumes, NEW l \in Launches, TrainOneStep(l)
    PROVE  LET c == mem[l].cursor
               d == Advance(c)
           IN  /\ d \in Cursors /\ TrainedTo(d) \in Models
               /\ GlobalStep(d) = GlobalStep(c) + 1
               /\ mem' = [mem EXCEPT ![l] = [mem[l] EXCEPT !.cursor = d, !.models = TrainedTo(d),
                                                          !.warmed = d[Selector] > 0]]
               /\ pc' = [pc EXCEPT ![l] = IF Due(c, d) THEN "due" ELSE "train"]
<1> DEFINE c == mem[l].cursor
           d == Advance(c)
           p == NextPhase(c)
           w == WarmStarts(mem[l])
           ms == [steps |-> [mem[l].models.steps EXCEPT ![p] = @ + 1],
                  warm |-> IF w THEN mem[l].models.warm + 1 ELSE mem[l].models.warm]
<1>1. c \in Cursors /\ mem[l] \in Memory /\ mem \in [Launches -> Memory]
  BY MemoryFields DEF Resumes, TypeOK
<1>2. mem[l].models = TrainedTo(c) /\ mem[l].warmed \in BOOLEAN /\ (mem[l].warmed <=> c[Selector] > 0)
  BY <1>1 DEF Resumes, Ready, Stepping, TrainOneStep, At, Memory
<1>3. /\ d \in Cursors /\ GlobalStep(d) = GlobalStep(c) + 1
      /\ d[Selector] = IF p = Selector THEN c[Selector] + 1 ELSE c[Selector]
      /\ c[Selector] \in Nat
  BY <1>1, AdvanceStep DEF TrainOneStep
<1>4. [mem[l].models.steps EXCEPT ![p] = @ + 1] = d
  BY <1>2 DEF TrainedTo, Advance
<1>5. w <=> (p = Selector /\ c[Selector] = 0)
  <2>1. mem[l].warmed <=> ~(c[Selector] = 0)
    BY <1>2, <1>3
  <2>2. w <=> (p = Selector /\ ~mem[l].warmed)
    BY DEF WarmStarts
  <2> HIDE DEF c, p, w
  <2> QED
    BY <2>1, <2>2
<1>6. (IF w THEN mem[l].models.warm + 1 ELSE mem[l].models.warm) = IF d[Selector] > 0 THEN 1 ELSE 0
  <2> HIDE DEF c, d, p, w
  <2> QED
    BY <1>2, <1>3, <1>5 DEF TrainedTo
<1>7. ms = TrainedTo(d)
  BY <1>4, <1>6 DEF TrainedTo
<1>8. (mem[l].warmed \/ w) <=> d[Selector] > 0
  <2>1. d[Selector] > 0 <=> (c[Selector] > 0 \/ p = Selector)
    BY <1>3
  <2>2. c[Selector] > 0 <=> ~(c[Selector] = 0)
    BY <1>3
  <2> HIDE DEF c, d, p, w
  <2> QED
    BY <1>2, <1>5, <2>1, <2>2
<1>9. TrainedTo(d) \in Models
  BY <1>3 DEF TrainedTo, Models
<1> DEFINE x == (mem[l].warmed \/ w)
           y == (d[Selector] > 0)
<1>10. mem' = [mem EXCEPT ![l].cursor = d, ![l].warmed = x, ![l].models = ms]
  BY <1>1 DEF TrainOneStep, Memory
<1>11. mem' = [mem EXCEPT ![l] = [mem[l] EXCEPT !.cursor = d, !.models = TrainedTo(d), !.warmed = y]]
  <2>1. x \in BOOLEAN /\ y \in BOOLEAN /\ (x <=> y)
    BY <1>8
  <2> HIDE DEF c, d, p, w, ms, x, y
  <2>2. x = y
    BY <2>1
  <2> QED
    BY <1>1, <1>7, <1>10, <2>1, <2>2 DEF Memory
<1>12. pc' = [pc EXCEPT ![l] = IF Due(c, d) THEN "due" ELSE "train"]
  BY DEF TrainOneStep, Goto
<1> QED
  BY <1>3, <1>9, <1>11, <1>12

(* The steps of the selection. *)
LEMMA SelectsTypes ==
    ASSUME TypeOK, NEW l \in Launches,
           \/ ReuseSelection(l) \/ RefuseTorn(l) \/ ListCandidates(l)
           \/ (\E s \in mem[l].todo : EvaluateCandidate(l, s)) \/ PausePostTraining(l)
           \/ Choose(l) \/ CreateSelection(l) \/ WriteSelection(l)
    PROVE  TypeOK'
<1>0. mem[l] \in Memory /\ mem \in [Launches -> Memory]
  BY MemoryFields DEF TypeOK
<1>1. CASE ReuseSelection(l)
  <2>1. selection \in Selection /\ selection.chosen \in ConditionalRange \cup {None}
    BY <1>1 DEF ReuseSelection, TypeOK, Selection
  <2>2. LoadConditional(mem[l], selection.chosen) \in Models
    BY <1>0, <2>1, LoadConditionalType
  <2>3. mem' \in [Launches -> Memory]
    BY <1>0, <1>1, <2>1, <2>2 DEF ReuseSelection, Memory
  <2> QED
    BY <1>1, <2>3 DEF ReuseSelection, TypeOK, Goto, history, disk
<1>2. CASE RefuseTorn(l)
  BY <1>2, StartTypes DEF RefuseTorn, TypeOK, Goto, End, history, disk, Ended
<1>3. CASE ListCandidates(l)
  <2>1. [mem EXCEPT ![l].todo = Candidates, ![l].of = Candidates] \in [Launches -> Memory]
    BY <1>0, CandidatesType DEF Memory
  <2> QED
    BY <1>3, <2>1, StartTypes DEF ListCandidates, TypeOK, Goto, End, history, disk, Ended
<1>4. ASSUME NEW s \in mem[l].todo, EvaluateCandidate(l, s) PROVE TypeOK'
  <2>1. LoadConditional(mem[l], s) \in Models
    BY <1>0, LoadConditionalType, MemoryFields
  <2>2. mem' \in [Launches -> Memory]
    BY <1>0, <1>4, <2>1 DEF EvaluateCandidate, Memory
  <2> QED
    BY <1>4, <2>2 DEF EvaluateCandidate, TypeOK, history, disk
<1>5. CASE PausePostTraining(l)
  BY <1>5 DEF PausePostTraining, TypeOK, Goto, history, disk
<1>6. CASE Choose(l)
  <2>1. PICK s \in Best(mem[l].of) :
           mem' = [mem EXCEPT ![l].chosen = s,
                              ![l].models = LoadConditional(mem[l],
                              IF s = None THEN ConditionalSteps ELSE s)]
    BY <1>6 DEF Choose
  <2>2. s \in ConditionalRange \cup {None} /\ ConditionalSteps \in ConditionalRange
    BY MemoryFields, BestType, LongRunAssumption DEF ConditionalRange
  <2>3. LoadConditional(mem[l], IF s = None THEN ConditionalSteps ELSE s) \in Models
    BY <1>0, <2>2, LoadConditionalType
  <2>4. mem' \in [Launches -> Memory]
    BY <1>0, <2>1, <2>2, <2>3 DEF Memory
  <2> QED
    BY <1>6, <2>4 DEF Choose, TypeOK, Goto, history, disk
<1>7. CASE CreateSelection(l)
  BY <1>7, StartTypes DEF CreateSelection, TypeOK, Goto, End, history, Ended
<1>8. CASE WriteSelection(l)
  <2>1. [chosen |-> mem[l].chosen, of |-> mem[l].of] \in Selection
    BY MemoryFields DEF Selection
  <2> QED
    BY <1>8, <2>1 DEF WriteSelection, TypeOK, Goto, history
<1> QED
  BY <1>1, <1>2, <1>3, <1>4, <1>5, <1>6, <1>7, <1>8

(* The steps of the locked test, and the reports. *)
LEMMA TestsTypes ==
    ASSUME TypeOK, NEW l \in Launches,
           \/ ReportPaused(l) \/ KeepSealed(l) \/ CreateClaim(l) \/ WriteClaim(l)
           \/ OpenTest(l) \/ WriteArtifacts(l) \/ ReportComplete(l),
           pc[l] \in {"claimed", "test", "testing", "report"} /\ mem[l].chosen # None =>
              mem[l].models.steps[Conditional] = mem[l].chosen,
           pc[l] \in {"claimed", "test", "testing"} => mem[l].chosen # None
    PROVE  TypeOK'
<1>0. mem[l].chosen \in ConditionalRange \cup {None} /\ opens + 1 \in Nat
  BY MemoryFields DEF TypeOK
<1>1. CASE ReportPaused(l)
  <2>1. [status |-> "paused", tested |-> None] \in Report
    BY DEF Report
  <2> QED
    BY <1>1, <2>1, StartTypes DEF ReportPaused, TypeOK, Goto, End, history, Ended
<1>2. CASE KeepSealed(l)
  BY <1>2 DEF KeepSealed, TypeOK, Goto, history, disk
<1>3. CASE CreateClaim(l)
  BY <1>3, StartTypes DEF CreateClaim, TypeOK, Goto, End, history, Ended
<1>4. CASE WriteClaim(l)
  BY <1>0, <1>4 DEF WriteClaim, TypeOK, Goto, history, At
<1>5. CASE OpenTest(l)
  BY <1>0, <1>5 DEF OpenTest, TypeOK, Goto, disk, At
<1>6. CASE WriteArtifacts(l)
  BY <1>0, <1>6 DEF WriteArtifacts, TypeOK, Goto, history, At
<1>7. CASE ReportComplete(l)
  <2> DEFINE t == IF mem[l].chosen = None THEN None ELSE mem[l].models.steps[Conditional]
  <2>1. t \in ConditionalRange \cup {None}
    BY <1>0, <1>7 DEF ReportComplete, At
  <2>2. [status |-> "complete", tested |-> t] \in Report
    BY <2>1 DEF Report
  <2> HIDE DEF t
  <2>3. report' \in Report
    BY <1>7, <2>2 DEF ReportComplete, t
  <2> QED
    BY <1>7, <2>3, StartTypes DEF ReportComplete, TypeOK, Goto, End, history, Ended
<1> QED
  BY <1>1, <1>2, <1>3, <1>4, <1>5, <1>6, <1>7

-----------------------------------------------------------------------------
(* Resuming. *)

(* Nothing changes for a launch whose own memory stays while checkpoints   *)
(* are only added.                                                         *)
LEMMA ReadyFrame ==
    ASSUME NEW k \in Launches, Ready(k), pc'[k] = pc[k], mem'[k] = mem[k], Saved \subseteq Saved'
    PROVE  Ready(k)'
BY DEF Ready

(* A launch that is not in training has nothing to show. *)
LEMMA NotTraining ==
    ASSUME NEW l \in Launches, pc'[l] \notin Starting \cup Stepping \cup PastTraining
    PROVE  Ready(l)'
BY DEF Ready, Starting, Stepping, PastTraining

(* A step of l that leaves the checkpoints and the memory of the others.   *)
LEMMA StepOfOne ==
    ASSUME Resumes, TypeOK', NEW l \in Launches, UNCHANGED checkpoint,
           \A k \in Launches \ {l} : pc'[k] = pc[k] /\ mem'[k] = mem[k],
           Ready(l)'
    PROVE  Resumes'
<1>1. Saved' = Saved
  BY DEF Saved
<1>2. \A k \in Launches : Ready(k)'
  BY <1>1, ReadyFrame DEF Resumes
<1> QED
  BY <1>1, <1>2 DEF Resumes, CheckpointsExact

(* What a launch writes is what the uninterrupted run has, at its place.   *)
LEMMA SaveResumes ==
    ASSUME Resumes, NEW l \in Launches,
           \/ pc[l] \in {"first", "due"} /\ SaveCheckpoint(l, "train")
           \/ pc[l] = "stopping" /\ SaveCheckpoint(l, "paused")
           \/ pc[l] = "final" /\ SaveCheckpoint(l, "select")
    PROVE  Resumes'
<1> DEFINE m == mem[l]
           g == GlobalStep(m.cursor)
<1>0. PICK to \in {"train", "paused", "select"} : SaveCheckpoint(l, to)
  OBVIOUS
<1>1. TypeOK'
  BY <1>0, SaveTypes DEF Resumes
<1>2. m.cursor \in Cursors /\ g \in 0 .. TotalSteps /\ m \in Memory
      /\ mem \in [Launches -> Memory] /\ l \in DOMAIN pc
  BY MemoryFields, CursorSteps DEF Resumes, TypeOK
<1>3. TrainedTo(Start) = Untrained
  BY DEF TrainedTo, Untrained, Start, Selector, Phases
<1>4. m.models = TrainedTo(m.cursor) /\ m.warmed = (m.cursor[Selector] > 0)
  <2>1. CASE pc[l] = "first"
    <3>1. (Start[Selector] > 0) = FALSE
      BY DEF Start, Selector, Phases
    <3> QED
      BY <1>3, <2>1, <3>1 DEF Resumes, Ready, Starting
  <2>2. CASE pc[l] # "first"
    BY <2>2 DEF Resumes, Ready, Stepping
  <2> QED
    BY <2>1, <2>2
<1>5. CASE g = m.last
  <2>1. UNCHANGED <<checkpoint, mem>> /\ pc' = [pc EXCEPT ![l] = to]
    BY <1>0, <1>5 DEF SaveCheckpoint, Goto
  <2>2. g \in Saved
    <3>1. pc[l] # "first"
      BY <1>2, <1>5 DEF Resumes, Ready, Starting
    <3> QED
      BY <1>5, <3>1 DEF Resumes, Ready, Stepping
  <2>3. g - m.last <= g % CheckpointEvery
    <3>1. g \in Nat /\ g - g = 0
      BY <1>2
    <3> QED
      BY <1>5, <3>1, RemainderSucc, LongRunAssumption
  <2>4. pc'[l] = to /\ mem' = mem /\ Saved' = Saved
    BY <1>2, <2>1 DEF Saved
  <2>5. Ready(l)'
    BY <1>4, <1>5, <2>2, <2>3, <2>4 DEF Ready, Starting, Stepping, PastTraining
  <2> QED
    BY <1>1, <2>1, <2>5, StepOfOne
<1>6. CASE g # m.last /\ checkpoint[g] # None
  <2>1. UNCHANGED checkpoint /\ pc' = [pc EXCEPT ![l] = "failed"]
        /\ mem' = [mem EXCEPT ![l] = Blank]
    BY <1>0, <1>6 DEF SaveCheckpoint, Goto, End
  <2>2. Ready(l)'
    BY <1>2, <2>1, NotTraining DEF Starting, Stepping, PastTraining
  <2> QED
    BY <1>1, <1>2, <2>1, <2>2, StepOfOne
<1>7. CASE g # m.last /\ checkpoint[g] = None
  <2> DEFINE c == [cursor |-> m.cursor, models |-> m.models]
  <2>1. /\ checkpoint' = [checkpoint EXCEPT ![g] = c]
        /\ mem' = [mem EXCEPT ![l].last = g] /\ pc' = [pc EXCEPT ![l] = to]
    BY <1>0, <1>7 DEF SaveCheckpoint, Goto
  <2>2. c # None
    <3>1. c \in Checkpoint
      BY <1>2 DEF Checkpoint, Memory
    <3> QED
      BY <3>1, RecordAssumption
  <2>3. Saved' = Saved \cup {g} /\ checkpoint'[g] = c
        /\ \A h \in Saved : h # g /\ checkpoint'[h] = checkpoint[h]
    BY <1>2, <1>7, <2>1, <2>2 DEF Saved, Resumes, TypeOK
  <2>4. CheckpointsExact'
    BY <1>4, <2>3 DEF CheckpointsExact, Resumes
  <2>5. mem'[l] = [m EXCEPT !.last = g] /\ mem'[l].last = g /\ mem'[l].cursor = m.cursor
        /\ mem'[l].models = m.models /\ mem'[l].warmed = m.warmed /\ pc'[l] = to
    BY <1>2, <2>1 DEF Memory
  <2>6. g - g <= g % CheckpointEvery
    <3>1. g \in Nat /\ g - g = 0
      BY <1>2
    <3> QED
      BY <3>1, RemainderSucc, LongRunAssumption
  <2>7. Ready(l)'
    BY <1>4, <2>3, <2>5, <2>6 DEF Ready, Starting, Stepping, PastTraining
  <2>8. \A k \in Launches \ {l} : pc'[k] = pc[k] /\ mem'[k] = mem[k]
    BY <1>2, <2>1 DEF Resumes, TypeOK
  <2>9. \A k \in Launches : Ready(k)'
    BY <2>3, <2>7, <2>8, ReadyFrame DEF Resumes
  <2> QED
    BY <1>1, <2>4, <2>9 DEF Resumes
<1> QED
  BY <1>5, <1>6, <1>7

(* Loading the latest checkpoint, or starting without one. *)
LEMMA LoadResumes ==
    ASSUME Resumes, NEW l \in Launches, LoadLatest(l)
    PROVE  Resumes'
<1>0. TypeOK' /\ UNCHANGED checkpoint
  BY LoadsTypes DEF Resumes, LoadLatest, disk
<1>1. mem[l] \in Memory /\ mem \in [Launches -> Memory] /\ l \in DOMAIN pc
  BY MemoryFields DEF Resumes, TypeOK
<1>2. \A k \in Launches \ {l} : pc'[k] = pc[k] /\ mem'[k] = mem[k]
  BY <1>1 DEF LoadLatest, Goto, Resumes, TypeOK
<1>3. CASE Saved = {}
  <2>1. pc'[l] = "first" /\ mem' = mem /\ pc[l] = "check"
    BY <1>1, <1>3 DEF LoadLatest, Goto, At
  <2>2. Ready(l)'
    BY <2>1 DEF Resumes, Ready, Starting, Stepping, PastTraining
  <2> QED
    BY <1>0, <1>2, <2>2, StepOfOne
<1>4. CASE Saved # {}
  <2> DEFINE c == checkpoint[Latest]
             warmed == c.cursor[Selector] > 0
             g == GlobalStep(c.cursor)
  <2>1. Latest \in Saved
    BY <1>4, LatestIsLast
  <2>2. g = Latest /\ c.models = TrainedTo(c.cursor) /\ g \in Nat
    BY <2>1 DEF Resumes, CheckpointsExact, Saved
  <2>3. mem' = [mem EXCEPT ![l].cursor = c.cursor, ![l].models = c.models,
                           ![l].warmed = warmed, ![l].last = g]
        /\ pc' = [pc EXCEPT ![l] = "train"]
    BY <1>4 DEF LoadLatest, Goto
  <2>4. mem'[l].cursor = c.cursor /\ mem'[l].models = c.models /\ mem'[l].last = g
        /\ mem'[l].warmed = warmed /\ pc'[l] = "train"
    <3> HIDE DEF c, warmed, g
    <3> QED
      BY <1>1, <2>3 DEF Memory
  <2>5. g - g <= g % CheckpointEvery
    <3>1. g - g = 0
      BY <2>2
    <3> QED
      BY <2>2, <3>1, RemainderSucc, LongRunAssumption
  <2>6. Saved' = Saved
    BY <1>0 DEF Saved
  <2>7. GlobalStep(mem'[l].cursor) = g /\ mem'[l].models = TrainedTo(mem'[l].cursor)
        /\ mem'[l].warmed = (mem'[l].cursor[Selector] > 0) /\ mem'[l].last \in Saved'
    BY <2>1, <2>2, <2>4, <2>6
  <2>8. Ready(l)'
    <3> HIDE DEF c, warmed, g
    <3> QED
      BY <2>4, <2>5, <2>7 DEF Ready, Starting, Stepping, PastTraining
  <2> QED
    BY <1>0, <1>2, <2>8, StepOfOne
<1> QED
  BY <1>3, <1>4

(* A step of training. *)
LEMMA TrainResumes ==
    ASSUME Resumes, NEW l \in Launches, TrainOneStep(l)
    PROVE  Resumes'
<1> DEFINE c == mem[l].cursor
           d == Advance(c)
           warmed == d[Selector] > 0
           m == [mem[l] EXCEPT !.cursor = d, !.models = TrainedTo(d), !.warmed = warmed]
<1>1. /\ d \in Cursors /\ TrainedTo(d) \in Models /\ GlobalStep(d) = GlobalStep(c) + 1
      /\ mem' = [mem EXCEPT ![l] = m]
      /\ pc' = [pc EXCEPT ![l] = IF Due(c, d) THEN "due" ELSE "train"]
  BY TrainedStep
<1>2. mem[l] \in Memory /\ mem \in [Launches -> Memory] /\ c \in Cursors
      /\ pc \in [Launches -> Ended \cup
          {"contract", "corpus", "collect", "collected", "check", "first", "train", "due",
           "final", "stopping", "paused", "select", "evaluate", "publish", "published",
           "gate", "claimed", "test", "testing", "report"}]
  BY MemoryFields DEF Resumes, TypeOK
<1>3. m \in Memory
  <2>1. warmed \in BOOLEAN
    OBVIOUS
  <2> HIDE DEF d, warmed
  <2> QED
    BY <1>1, <1>2, <2>1 DEF Memory
<1>4. TypeOK' /\ UNCHANGED checkpoint
  <2>1. mem' \in [Launches -> Memory]
    BY <1>1, <1>2, <1>3
  <2>2. pc' = [pc EXCEPT ![l] = "due"] \/ pc' = [pc EXCEPT ![l] = "train"]
    BY <1>1
  <2> QED
    BY <1>2, <2>1, <2>2 DEF Resumes, TypeOK, TrainOneStep, disk, history
<1>5. /\ mem'[l].cursor = d /\ mem'[l].models = TrainedTo(d) /\ mem'[l].last = mem[l].last
      /\ mem'[l].warmed = warmed
  <2> HIDE DEF d, warmed
  <2> QED
    BY <1>1, <1>2 DEF Memory
<1>6. mem[l].last \in Saved /\ GlobalStep(c) - mem[l].last <= GlobalStep(c) % CheckpointEvery
  BY DEF Resumes, Ready, Stepping, TrainOneStep, At
<1>7. GlobalStep(c) \in Nat /\ mem[l].last \in Nat
  BY <1>2, <1>6, CursorSteps DEF Saved
<1>8. ~Due(c, d) => GlobalStep(d) - mem[l].last <= GlobalStep(d) % CheckpointEvery
  <2> SUFFICES ASSUME ~Due(c, d)
               PROVE  GlobalStep(d) - mem[l].last <= GlobalStep(d) % CheckpointEvery
    OBVIOUS
  <2>1. (GlobalStep(c) + 1) % CheckpointEvery # 0
    BY <1>1 DEF Due
  <2> DEFINE n == GlobalStep(c)
             r == n % CheckpointEvery
             s == GlobalStep(d) % CheckpointEvery
  <2>2. n \in Nat /\ GlobalStep(d) = n + 1 /\ s # 0
    BY <1>1, <1>7, <2>1
  <2>3. CheckpointEvery \in Nat \ {0}
    BY LongRunAssumption
  <2>4. s = r + 1 /\ r \in 0 .. CheckpointEvery - 1
    <3>1. s = (n + 1) % CheckpointEvery
      BY <2>2
    <3> HIDE DEF n
    <3>2. (n + 1) % CheckpointEvery # 0 =>
             (n + 1) % CheckpointEvery = (n % CheckpointEvery) + 1
      BY <2>2, <2>3, RemainderSucc
    <3>3. n % CheckpointEvery \in 0 .. CheckpointEvery - 1
      BY <2>2, <2>3, RemainderSucc
    <3> QED
      BY <2>2, <3>1, <3>2, <3>3
  <2>5. n - mem[l].last <= r /\ r \in Int
    BY <1>6, <2>3, <2>4
  <2> HIDE DEF c, d, n, r, s
  <2>6. (n + 1) - mem[l].last <= r + 1
    BY <1>7, <2>2, <2>5
  <2> QED
    BY <2>2, <2>4, <2>6 DEF s
<1>9. pc'[l] = IF Due(c, d) THEN "due" ELSE "train"
  BY <1>1, <1>2
<1>10. GlobalStep(d) - mem[l].last <= CheckpointEvery
  <2> DEFINE n == GlobalStep(c)
             r == n % CheckpointEvery
  <2>1. n \in Nat /\ GlobalStep(d) = n + 1 /\ n - mem[l].last <= r /\ mem[l].last \in Nat
    BY <1>1, <1>6, <1>7
  <2>2. CheckpointEvery \in Nat \ {0}
    BY LongRunAssumption
  <2> HIDE DEF n
  <2>3. r \in 0 .. CheckpointEvery - 1
    BY <2>1, <2>2, RemainderSucc
  <2> HIDE DEF r, c, d
  <2> QED
    BY <2>1, <2>2, <2>3
<1>11. Saved' = Saved
  BY <1>4 DEF Saved
<1>12. Ready(l)'
  <2> HIDE DEF c, d, warmed
  <2>1. mem'[l].warmed = (mem'[l].cursor[Selector] > 0)
    BY <1>5 DEF warmed
  <2> QED
    BY <1>5, <1>6, <1>8, <1>9, <1>10, <1>11, <2>1 DEF Ready, Starting, Stepping, PastTraining
<1>13. \A k \in Launches \ {l} : pc'[k] = pc[k] /\ mem'[k] = mem[k]
  BY <1>1, <1>2
<1> QED
  BY <1>4, <1>12, <1>13, StepOfOne

(* The steps of a start; a launch that ends has nothing more to show. *)
LEMMA StartResumes ==
    ASSUME Resumes, NEW l \in Launches,
           \/ Launch(l) \/ WriteContract(l) \/ FindCorpus(l) \/ PublishCorpus(l)
           \/ ReportCorpus(l) \/ FindComplete(l) \/ RefuseConsumed(l) \/ Crash(l)
    PROVE  Resumes'
<1>0. TypeOK' /\ UNCHANGED checkpoint
  BY StartsTypes
     DEF Resumes, Launch, LaunchFresh, LaunchResume, WriteContract, FindCorpus, PublishCorpus,
         ReportCorpus, FindComplete, RefuseConsumed, Crash, disk
<1>1. mem \in [Launches -> Memory] /\ l \in DOMAIN pc
      /\ pc \in [Launches -> Ended \cup
          {"contract", "corpus", "collect", "collected", "check", "first", "train", "due",
           "final", "stopping", "paused", "select", "evaluate", "publish", "published",
           "gate", "claimed", "test", "testing", "report"}]
  BY DEF Resumes, TypeOK
<1>2. \A k \in Launches \ {l} : pc'[k] = pc[k] /\ mem'[k] = mem[k]
  BY <1>1 DEF Launch, LaunchFresh, LaunchResume, WriteContract, FindCorpus, PublishCorpus,
              AfterCorpus,
              ReportCorpus, FindComplete, RefuseConsumed, Crash, Goto, End
<1>3. CASE Launch(l)
  <2>1. \/ pc'[l] = "failed"
        \/ /\ pc'[l] \in {"contract", "corpus"}
           /\ \E c \in BOOLEAN : \/ mem'[l] = [Blank EXCEPT !.collect = c]
                                 \/ mem'[l] = [Blank EXCEPT !.resume = TRUE, !.collect = c]
    BY <1>1, <1>3 DEF Launch, LaunchFresh, LaunchResume, Goto, End
  <2>2. pc'[l] \in {"contract", "corpus"} =>
           /\ mem'[l].cursor = Start /\ mem'[l].models = Untrained
           /\ mem'[l].warmed = FALSE /\ mem'[l].last = -1
    BY <2>1 DEF Blank
  <2>3. pc'[l] \in {"contract", "corpus"} \/ pc'[l] \notin Starting \cup Stepping \cup PastTraining
    BY <2>1 DEF Starting, Stepping, PastTraining
  <2>4. Ready(l)'
    BY <2>2, <2>3, NotTraining DEF Ready, Starting, Stepping, PastTraining
  <2> QED
    BY <1>0, <1>2, <2>4, StepOfOne
<1>4. CASE WriteContract(l) \/ FindCorpus(l) \/ PublishCorpus(l)
  <2>1. pc[l] \in Starting
    BY <1>4 DEF WriteContract, FindCorpus, PublishCorpus, At, Starting
  <2>2. pc'[l] = "failed" \/ (mem' = mem /\ pc'[l] \in Starting)
    BY <1>1, <1>4 DEF WriteContract, FindCorpus, PublishCorpus, AfterCorpus, Goto, End, Starting
  <2>3. Ready(l)'
    BY <2>1, <2>2, NotTraining DEF Ready, Starting, Stepping, PastTraining, Resumes
  <2> QED
    BY <1>0, <1>2, <2>3, StepOfOne
<1>5. CASE ReportCorpus(l) \/ FindComplete(l) \/ RefuseConsumed(l) \/ Crash(l)
  <2>1. pc'[l] \in {"done", "failed", "dead"}
    BY <1>1, <1>5 DEF ReportCorpus, FindComplete, RefuseConsumed, Crash, Goto, End
  <2>2. Ready(l)'
    BY <2>1, NotTraining DEF Starting, Stepping, PastTraining
  <2> QED
    BY <1>0, <1>2, <2>2, StepOfOne
<1> QED
  BY <1>3, <1>4, <1>5

(* The steps after the training. *)
LEMMA PastTrainingResumes ==
    ASSUME Resumes, TypeOK', NEW l \in Launches,
           \/ StopTraining(l) \/ FinishTraining(l)
           \/ ReuseSelection(l) \/ RefuseTorn(l) \/ ListCandidates(l)
           \/ (\E s \in mem[l].todo : EvaluateCandidate(l, s)) \/ PausePostTraining(l)
           \/ Choose(l) \/ CreateSelection(l) \/ WriteSelection(l)
           \/ ReportPaused(l) \/ KeepSealed(l) \/ CreateClaim(l) \/ WriteClaim(l)
           \/ OpenTest(l) \/ WriteArtifacts(l) \/ ReportComplete(l)
    PROVE  Resumes'
<1>0. UNCHANGED checkpoint
  BY DEF StopTraining, FinishTraining, ReuseSelection, RefuseTorn, ListCandidates,
         EvaluateCandidate, PausePostTraining, Choose, CreateSelection, WriteSelection,
         ReportPaused, KeepSealed, CreateClaim, WriteClaim, OpenTest, WriteArtifacts,
         ReportComplete, disk
<1>1. mem \in [Launches -> Memory] /\ l \in DOMAIN pc
      /\ pc \in [Launches -> Ended \cup
          {"contract", "corpus", "collect", "collected", "check", "first", "train", "due",
           "final", "stopping", "paused", "select", "evaluate", "publish", "published",
           "gate", "claimed", "test", "testing", "report"}]
  BY DEF Resumes, TypeOK
<1>2. CASE StopTraining(l) \/ FinishTraining(l)
  <2>1. mem' = mem /\ pc[l] = "train" /\ pc'[l] \in {"stopping", "final"}
    BY <1>1, <1>2 DEF StopTraining, FinishTraining, Goto, At
  <2>2. Saved' = Saved
    BY <1>0 DEF Saved
  <2>3. Ready(l)'
    BY <2>1, <2>2 DEF Ready, Starting, Stepping, PastTraining, Resumes
  <2>4. \A k \in Launches \ {l} : pc'[k] = pc[k] /\ mem'[k] = mem[k]
    BY <1>1, <1>2 DEF StopTraining, FinishTraining, Goto
  <2> QED
    BY <1>0, <2>3, <2>4, StepOfOne
<1>3. CASE ~(StopTraining(l) \/ FinishTraining(l))
  <2>1. \A k \in Launches \ {l} : pc'[k] = pc[k] /\ mem'[k] = mem[k]
    BY <1>1, <1>3 DEF ReuseSelection, RefuseTorn, ListCandidates,
         EvaluateCandidate, PausePostTraining, Choose, CreateSelection, WriteSelection,
         ReportPaused, KeepSealed, CreateClaim, WriteClaim, OpenTest, WriteArtifacts,
         ReportComplete, Goto, End
  <2>2. pc[l] \in PastTraining
    BY <1>3 DEF ReuseSelection, RefuseTorn, ListCandidates, At, PastTraining,
         EvaluateCandidate, PausePostTraining, Choose, CreateSelection, WriteSelection,
         ReportPaused, KeepSealed, CreateClaim, WriteClaim, OpenTest, WriteArtifacts,
         ReportComplete
  <2>3. \/ pc'[l] \in {"done", "failed"}
        \/ pc'[l] \in PastTraining /\ mem'[l].cursor = mem[l].cursor /\ mem'[l].last = mem[l].last
    <3>1. CASE ReuseSelection(l) \/ Choose(l) \/ (\E s \in mem[l].todo : EvaluateCandidate(l, s))
      <4>1. pc'[l] \in PastTraining
        BY <1>1, <3>1 DEF ReuseSelection, Choose, EvaluateCandidate, At, Goto, PastTraining
      <4>2. \/ \E x, y : mem' = [mem EXCEPT ![l].chosen = x, ![l].models = y]
            \/ \E x, y : mem' = [mem EXCEPT ![l].todo = x, ![l].models = y]
        BY <3>1 DEF ReuseSelection, Choose, EvaluateCandidate
      <4> QED
        BY <1>1, <4>1, <4>2 DEF Memory
    <3>2. CASE ListCandidates(l)
      BY <1>1, <3>2 DEF ListCandidates, Goto, End, PastTraining, Memory
    <3>3. CASE \/ RefuseTorn(l) \/ PausePostTraining(l) \/ CreateSelection(l)
               \/ WriteSelection(l) \/ ReportPaused(l) \/ KeepSealed(l) \/ CreateClaim(l)
               \/ WriteClaim(l) \/ OpenTest(l) \/ WriteArtifacts(l) \/ ReportComplete(l)
      BY <1>1, <3>3 DEF RefuseTorn, PausePostTraining, CreateSelection, WriteSelection,
         ReportPaused, KeepSealed, CreateClaim, WriteClaim, OpenTest, WriteArtifacts,
         ReportComplete, Goto, End, PastTraining
    <3> QED
      BY <1>3, <3>1, <3>2, <3>3
  <2>4. Saved' = Saved
    BY <1>0 DEF Saved
  <2>5. Ready(l)'
    BY <2>2, <2>3, <2>4 DEF Ready, Starting, Stepping, PastTraining, Resumes
  <2> QED
    BY <1>0, <2>1, <2>5, StepOfOne
<1> QED
  BY <1>2, <1>3
-----------------------------------------------------------------------------
(* The selection, the claim and the one opening. *)

Late == {"publish", "published", "gate", "claimed", "test", "testing", "report"}

(* What is left of a launch that is not between the selection and the end. *)
LEMMA NotLate ==
    ASSUME SelectionSettled, ClaimSettled, NEW l \in Launches, pc'[l] \notin Late,
           \A k \in Launches \ {l} : pc'[k] = pc[k] /\ mem'[k] = mem[k],
           UNCHANGED <<selection, claim, artifacts, opens, tested>>
    PROVE  SelectionSettled' /\ ClaimSettled'
<1>1. SelectionSettled'
  BY DEF SelectionSettled, Late
<1>2. ClaimSettled'
  BY DEF ClaimSettled, Late
<1> QED
  BY <1>1, <1>2

(* Before it writes a selection a launch does not disturb what is settled. *)
LEMMA EarlySettled ==
    ASSUME TypeOK, SelectionSettled, ClaimSettled, NEW l \in Launches,
           \/ Launch(l) \/ WriteContract(l) \/ FindCorpus(l) \/ PublishCorpus(l)
           \/ ReportCorpus(l) \/ FindComplete(l) \/ RefuseConsumed(l) \/ Crash(l)
           \/ LoadLatest(l) \/ SaveFirst(l) \/ TrainOneStep(l) \/ SaveDue(l)
           \/ FinishTraining(l) \/ SaveFinal(l) \/ StopTraining(l) \/ SaveStopped(l)
           \/ RefuseTorn(l) \/ ListCandidates(l)
           \/ (\E s \in mem[l].todo : EvaluateCandidate(l, s)) \/ PausePostTraining(l)
           \/ ReportPaused(l) \/ ReportComplete(l)
    PROVE  SelectionSettled' /\ ClaimSettled'
<1>1. mem \in [Launches -> Memory] /\ l \in DOMAIN pc
      /\ pc \in [Launches -> Ended \cup
          {"contract", "corpus", "collect", "collected", "check", "first", "train", "due",
           "final", "stopping", "paused", "select", "evaluate", "publish", "published",
           "gate", "claimed", "test", "testing", "report"}]
  BY DEF TypeOK
<1>2. UNCHANGED <<selection, claim, artifacts, opens, tested>>
  BY DEF Launch, LaunchFresh, LaunchResume, WriteContract, FindCorpus, PublishCorpus,
         ReportCorpus, FindComplete, RefuseConsumed, Crash, LoadLatest, SaveFirst, TrainOneStep,
         SaveDue, FinishTraining, SaveFinal, StopTraining, SaveStopped, SaveCheckpoint,
         RefuseTorn, ListCandidates, EvaluateCandidate, PausePostTraining, ReportPaused,
         ReportComplete, disk, history
<1>3. CASE Launch(l) \/ WriteContract(l) \/ FindCorpus(l) \/ PublishCorpus(l)
           \/ ReportCorpus(l) \/ FindComplete(l) \/ RefuseConsumed(l) \/ Crash(l)
  <2>1. \A k \in Launches \ {l} : pc'[k] = pc[k] /\ mem'[k] = mem[k]
    BY <1>1, <1>3 DEF Launch, LaunchFresh, LaunchResume, WriteContract, FindCorpus, PublishCorpus,
         AfterCorpus, ReportCorpus, FindComplete, RefuseConsumed, Crash, Goto, End
  <2>2. pc'[l] \notin Late
    BY <1>1, <1>3 DEF Launch, LaunchFresh, LaunchResume, WriteContract, FindCorpus, PublishCorpus,
         AfterCorpus, ReportCorpus, FindComplete, RefuseConsumed, Crash, Goto, End, Late
  <2> QED
    BY <1>2, <2>1, <2>2, NotLate
<1>4. CASE LoadLatest(l) \/ SaveFirst(l) \/ TrainOneStep(l) \/ SaveDue(l)
           \/ FinishTraining(l) \/ SaveFinal(l) \/ StopTraining(l) \/ SaveStopped(l)
  <2>1. \A k \in Launches \ {l} : pc'[k] = pc[k] /\ mem'[k] = mem[k]
    BY <1>1, <1>4 DEF LoadLatest, SaveFirst, TrainOneStep, SaveDue, FinishTraining, SaveFinal,
         StopTraining, SaveStopped, SaveCheckpoint, Goto, End
  <2>2. pc'[l] \in {"first", "train", "due", "final", "stopping", "paused", "select", "failed"}
    BY <1>1, <1>4 DEF LoadLatest, SaveFirst, TrainOneStep, SaveDue, FinishTraining, SaveFinal,
         StopTraining, SaveStopped, SaveCheckpoint, Goto, End
  <2> QED
    BY <1>2, <2>1, <2>2, NotLate DEF Late
<1>5. CASE \/ RefuseTorn(l) \/ ListCandidates(l)
           \/ (\E s \in mem[l].todo : EvaluateCandidate(l, s)) \/ PausePostTraining(l)
           \/ ReportPaused(l) \/ ReportComplete(l)
  <2>1. \A k \in Launches \ {l} : pc'[k] = pc[k] /\ mem'[k] = mem[k]
    BY <1>1, <1>5 DEF RefuseTorn, ListCandidates, EvaluateCandidate, PausePostTraining,
         ReportPaused, ReportComplete, Goto, End
  <2>2. pc'[l] \in {"done", "failed", "evaluate", "paused"}
    BY <1>1, <1>5 DEF RefuseTorn, ListCandidates, EvaluateCandidate, PausePostTraining,
         ReportPaused, ReportComplete, Goto, End, At
  <2> QED
    BY <1>2, <2>1, <2>2, NotLate DEF Late
<1> QED
  BY <1>3, <1>4, <1>5

(* The steps that create, write and reuse a selection keep it settled.     *)
LEMMA SelectionSteps ==
    ASSUME TypeOK, SelectionSettled, ClaimSettled, NEW l \in Launches,
           \/ ReuseSelection(l) \/ Choose(l) \/ CreateSelection(l) \/ WriteSelection(l)
    PROVE  SelectionSettled' /\ ClaimSettled'
<1>1. mem \in [Launches -> Memory] /\ mem[l] \in Memory /\ l \in DOMAIN pc
      /\ pc \in [Launches -> Ended \cup
          {"contract", "corpus", "collect", "collected", "check", "first", "train", "due",
           "final", "stopping", "paused", "select", "evaluate", "publish", "published",
           "gate", "claimed", "test", "testing", "report"}]
  BY MemoryFields DEF TypeOK
<1>2. UNCHANGED <<claim, artifacts, opens, tested>>
  BY DEF ReuseSelection, Choose, CreateSelection, WriteSelection, disk, history
<1>3. \A k \in Launches \ {l} : pc'[k] = pc[k] /\ mem'[k] = mem[k]
  BY <1>1 DEF ReuseSelection, Choose, CreateSelection, WriteSelection, Goto, End
<1>4. \A m \in Memory, s \in ConditionalRange : LoadConditional(m, s).steps[Conditional] = s
  <2> SUFFICES ASSUME NEW m \in Memory, NEW s \in ConditionalRange
               PROVE  LoadConditional(m, s).steps[Conditional] = s
    OBVIOUS
  <2>1. s # None /\ m.models \in Models /\ Conditional \in Phases
    BY LongRunAssumption DEF ConditionalRange, Memory, Conditional, Phases
  <2>2. m.models.steps \in [Phases -> Nat]
    BY <2>1 DEF Models, Cursors
  <2> QED
    BY <2>1, <2>2 DEF LoadConditional, Models
<1>5. CASE ReuseSelection(l)
  <2>1. selection \in Selection /\ selection.chosen \in ConditionalRange \cup {None}
        /\ selection \notin {None, Torn} /\ selection' = selection
    BY <1>5 DEF ReuseSelection, TypeOK, Selection, disk
  <2>2. pc'[l] = "gate" /\ mem'[l].chosen = selection.chosen
        /\ mem'[l].models = LoadConditional(mem[l], selection.chosen)
    BY <1>1, <1>5 DEF ReuseSelection, Goto, Memory
  <2>3. mem'[l].chosen # None => mem'[l].models.steps[Conditional] = mem'[l].chosen
    BY <1>1, <1>4, <2>1, <2>2
  <2> QED
    BY <1>2, <1>3, <2>1, <2>2, <2>3 DEF SelectionSettled, ClaimSettled
<1>6. CASE Choose(l)
  <2>1. PICK s \in Best(mem[l].of) :
           mem' = [mem EXCEPT ![l].chosen = s,
                              ![l].models = LoadConditional(mem[l],
                              IF s = None THEN ConditionalSteps ELSE s)]
    BY <1>6 DEF Choose
  <2>2. s \in ConditionalRange \cup {None}
    BY MemoryFields, BestType
  <2>3. mem'[l].chosen = s
        /\ mem'[l].models = LoadConditional(mem[l], IF s = None THEN ConditionalSteps ELSE s)
    BY <1>1, <2>1 DEF Memory
  <2>4. mem'[l].chosen # None => mem'[l].models.steps[Conditional] = mem'[l].chosen
    BY <1>1, <1>4, <2>2, <2>3
  <2>5. pc'[l] = "publish" /\ selection' = selection
    BY <1>1, <1>6 DEF Choose, Goto, disk
  <2> QED
    BY <1>2, <1>3, <2>4, <2>5 DEF SelectionSettled, ClaimSettled
<1>7. CASE CreateSelection(l)
  <2>1. CASE selection # None
    <3>1. pc'[l] = "failed" /\ selection' = selection
      BY <1>1, <1>7, <2>1 DEF CreateSelection, Goto, End
    <3> QED
      BY <1>2, <1>3, <3>1, NotLate DEF Late
  <2>2. CASE selection = None
    <3>1. pc'[l] = "published" /\ selection' = Torn /\ mem' = mem /\ pc[l] = "publish"
      BY <1>1, <1>7, <2>2 DEF CreateSelection, Goto, At
    <3>2. \A k \in Launches :
             pc[k] \notin {"published", "gate", "claimed", "test", "testing", "report"}
      BY <2>2, LongRunAssumption DEF SelectionSettled
    <3>3. SelectionSettled'
      BY <1>3, <3>1, <3>2 DEF SelectionSettled
    <3>4. claim = None
      BY <2>2 DEF ClaimSettled
    <3>5. ClaimSettled'
      BY <1>2, <1>3, <3>1, <3>2, <3>4 DEF ClaimSettled
    <3> QED
      BY <3>3, <3>5
  <2> QED
    BY <2>1, <2>2
<1>8. CASE WriteSelection(l)
  <2>1. pc'[l] = "gate" /\ mem' = mem /\ pc[l] = "published"
        /\ selection' = [chosen |-> mem[l].chosen, of |-> mem[l].of]
    BY <1>1, <1>8 DEF WriteSelection, Goto, At
  <2>2. selection' \in Selection /\ selection'.chosen = mem[l].chosen
    BY <2>1, MemoryFields DEF Selection
  <2>3. selection' \notin {None, Torn}
    BY <2>2, RecordAssumption
  <2>4. selection = Torn
    BY <2>1 DEF SelectionSettled
  <2>5. \A k \in Launches :
           pc[k] \notin {"gate", "claimed", "test", "testing", "report"} /\ (pc[k] = "published" => k = l)
    BY <2>1, <2>4 DEF SelectionSettled
  <2>6. SelectionSettled'
    BY <1>3, <2>1, <2>2, <2>3, <2>5 DEF SelectionSettled
  <2>7. claim = None
    BY <2>4 DEF ClaimSettled
  <2>8. ClaimSettled'
    BY <1>2, <1>3, <2>1, <2>5, <2>7 DEF ClaimSettled
  <2> QED
    BY <2>6, <2>8
<1> QED
  BY <1>5, <1>6, <1>7, <1>8

(* What a launch that tests knows of its choice. *)
LEMMA TesterFacts ==
    ASSUME TypeOK, SelectionSettled, ClaimSettled, NEW l \in Launches,
           pc[l] \in {"claimed", "test", "testing"}
    PROVE  /\ selection \notin {None, Torn} /\ claim # None
           /\ mem[l].chosen = selection.chosen /\ mem[l].chosen # None
           /\ mem[l].models.steps[Conditional] = selection.chosen
BY DEF SelectionSettled, ClaimSettled

(* The steps from the gate to the report keep the claim and the opening    *)
(* settled.                                                                *)
LEMMA TestSteps ==
    ASSUME TypeOK, SelectionSettled, ClaimSettled, NEW l \in Launches,
           \/ KeepSealed(l) \/ CreateClaim(l) \/ WriteClaim(l) \/ OpenTest(l) \/ WriteArtifacts(l)
    PROVE  SelectionSettled' /\ ClaimSettled'
<1>1. l \in DOMAIN pc /\ opens \in Nat
      /\ pc \in [Launches -> Ended \cup
          {"contract", "corpus", "collect", "collected", "check", "first", "train", "due",
           "final", "stopping", "paused", "select", "evaluate", "publish", "published",
           "gate", "claimed", "test", "testing", "report"}]
      /\ mem \in [Launches -> Memory]
  BY DEF TypeOK
<1>2. UNCHANGED selection
  BY DEF KeepSealed, CreateClaim, WriteClaim, OpenTest, WriteArtifacts, disk
<1>3. \A k \in Launches \ {l} : pc'[k] = pc[k] /\ mem'[k] = mem[k]
  BY <1>1 DEF KeepSealed, CreateClaim, WriteClaim, OpenTest, WriteArtifacts, Goto, End
<1>4. CASE KeepSealed(l)
  <2>1. pc[l] = "gate" /\ pc'[l] = "report" /\ mem' = mem /\ mem[l].chosen = None
        /\ UNCHANGED <<claim, artifacts, opens, tested>>
    BY <1>1, <1>4 DEF KeepSealed, Goto, At, disk, history
  <2>2. SelectionSettled'
    BY <1>2, <1>3, <2>1 DEF SelectionSettled
  <2>3. ClaimSettled'
    BY <1>2, <1>3, <2>1 DEF ClaimSettled
  <2> QED
    BY <2>2, <2>3
<1>5. CASE CreateClaim(l)
  <2>1. CASE claim # None
    <3>1. pc'[l] = "failed" /\ UNCHANGED <<claim, artifacts, opens, tested>>
      BY <1>1, <1>5, <2>1 DEF CreateClaim, Goto, End, history
    <3> QED
      BY <1>2, <1>3, <3>1, NotLate DEF Late
  <2>2. CASE claim = None
    <3>1. pc[l] = "gate" /\ pc'[l] = "claimed" /\ mem' = mem /\ mem[l].chosen # None
          /\ claim' = Torn /\ UNCHANGED <<artifacts, opens, tested>>
      BY <1>1, <1>5, <2>2 DEF CreateClaim, Goto, At, history
    <3>2. selection \notin {None, Torn} /\ selection.chosen # None
      BY <3>1 DEF SelectionSettled
    <3>3. \A k \in Launches : pc[k] \notin {"claimed", "test", "testing"}
      BY <2>2 DEF ClaimSettled
    <3>4. opens = 0 /\ Torn # None
      BY <2>2, LongRunAssumption DEF ClaimSettled
    <3>5. SelectionSettled'
      BY <1>2, <1>3, <3>1 DEF SelectionSettled
    <3>6. ClaimSettled'
      BY <1>2, <1>3, <3>1, <3>2, <3>3, <3>4 DEF ClaimSettled
    <3> QED
      BY <3>5, <3>6
  <2> QED
    BY <2>1, <2>2
<1>6. CASE WriteClaim(l)
  <2>1. pc[l] = "claimed" /\ pc'[l] = "test" /\ mem' = mem /\ claim' = mem[l].chosen
        /\ UNCHANGED <<artifacts, opens, tested>>
    BY <1>1, <1>6 DEF WriteClaim, Goto, At, history
  <2>2. claim' # None /\ claim # None
    BY <2>1, TesterFacts
  <2>3. SelectionSettled'
    BY <1>2, <1>3, <2>1 DEF SelectionSettled
  <2>4. ClaimSettled'
    BY <1>2, <1>3, <2>1, <2>2 DEF ClaimSettled
  <2> QED
    BY <2>3, <2>4
<1>7. CASE OpenTest(l)
  <2>1. pc[l] = "test" /\ pc'[l] = "testing" /\ mem' = mem /\ opens' = opens + 1
        /\ tested' = mem[l].models.steps[Conditional] /\ UNCHANGED <<claim, artifacts>>
    BY <1>1, <1>7 DEF OpenTest, Goto, At, disk
  <2>2. opens = 0 /\ opens' = 1 /\ tested = None /\ artifacts = None
    BY <2>1 DEF ClaimSettled
  <2>3. tested' = selection.chosen /\ claim # None
    BY <2>1, TesterFacts
  <2>4. \A k \in Launches : pc[k] \in {"claimed", "test"} => k = l
    BY <2>1 DEF ClaimSettled
  <2>5. SelectionSettled'
    BY <1>2, <1>3, <2>1 DEF SelectionSettled
  <2>6. \A k \in Launches : ~(pc[k] = "report" /\ mem[k].chosen # None)
    BY <2>2 DEF ClaimSettled
  <2>7. ClaimSettled'
    BY <1>2, <1>3, <2>1, <2>2, <2>3, <2>4, <2>6 DEF ClaimSettled
  <2> QED
    BY <2>5, <2>7
<1>8. CASE WriteArtifacts(l)
  <2>1. pc[l] = "testing" /\ pc'[l] = "report" /\ mem' = mem
        /\ artifacts' = mem[l].models.steps[Conditional] /\ UNCHANGED <<claim, opens, tested>>
    BY <1>1, <1>8 DEF WriteArtifacts, Goto, At, history
  <2>2. opens = 1 /\ tested = selection.chosen
    BY <2>1 DEF ClaimSettled
  <2>3. artifacts' = tested
    BY <2>1, <2>2, TesterFacts
  <2>4. SelectionSettled'
    BY <1>2, <1>3, <2>1 DEF SelectionSettled
  <2>5. ClaimSettled'
    BY <1>2, <1>3, <2>1, <2>2, <2>3 DEF ClaimSettled
  <2> QED
    BY <2>4, <2>5
<1> QED
  BY <1>4, <1>5, <1>6, <1>7, <1>8

(* A complete report stays true, whatever a launch that is late does.      *)
LEMMA ReportSettled ==
    ASSUME LongRunInv, NEW l \in Launches,
           Launch(l) \/ Step(l) \/ StopTraining(l) \/ PausePostTraining(l) \/ Crash(l)
    PROVE  ReportIsOfTheTest'
<1> SUFFICES ASSUME IsComplete'
             PROVE  /\ (selection \notin {None, Torn} /\ report.tested = selection.chosen)'
                    /\ (IF report.tested = None THEN opens = 0
                        ELSE opens = 1 /\ tested = report.tested /\ artifacts = tested)'
  BY DEF ReportIsOfTheTest
<1>0. TypeOK /\ SelectionSettled /\ ClaimSettled /\ ReportIsOfTheTest
  BY DEF LongRunInv, Resumes
<1>1. CASE ReportComplete(l)
  <2>1. /\ pc[l] = "report" /\ UNCHANGED <<selection, artifacts, opens, tested>>
        /\ report'.tested = IF mem[l].chosen = None THEN None ELSE mem[l].models.steps[Conditional]
    BY <1>1 DEF ReportComplete, At, history
  <2>2. selection \notin {None, Torn} /\ mem[l].chosen = selection.chosen
    BY <1>0, <2>1 DEF SelectionSettled
  <2>3. CASE mem[l].chosen = None
    <3>1. opens = 0
      BY <1>0, <2>2, <2>3 DEF ClaimSettled
    <3> QED
      BY <2>1, <2>2, <2>3, <3>1
  <2>4. CASE mem[l].chosen # None
    <3>1. opens = 1 /\ artifacts = tested /\ tested = selection.chosen
      BY <1>0, <2>1, <2>4 DEF ClaimSettled
    <3>2. mem[l].models.steps[Conditional] = mem[l].chosen
      BY <1>0, <2>1, <2>4 DEF SelectionSettled
    <3> QED
      BY <2>1, <2>2, <2>4, <3>1, <3>2
  <2> QED
    BY <2>3, <2>4
<1>2. CASE ReportCorpus(l) \/ ReportPaused(l)
  BY <1>2 DEF ReportCorpus, ReportPaused, IsComplete
<1>3. CASE ~(ReportComplete(l) \/ ReportCorpus(l) \/ ReportPaused(l))
  <2>1. report' = report
    BY <1>3 DEF Launch, LaunchFresh, LaunchResume, WriteContract, FindCorpus, PublishCorpus,
         FindComplete, RefuseConsumed, Crash, LoadLatest, SaveFirst, TrainOneStep,
         SaveDue, FinishTraining, SaveFinal, StopTraining, SaveStopped, SaveCheckpoint,
         RefuseTorn, ListCandidates, EvaluateCandidate, PausePostTraining, ReuseSelection, Choose,
         CreateSelection, WriteSelection, KeepSealed, CreateClaim, WriteClaim, OpenTest,
         WriteArtifacts, Step, disk, history
  <2>2. /\ selection \notin {None, Torn} /\ report.tested = selection.chosen
        /\ IF report.tested = None THEN opens = 0
           ELSE opens = 1 /\ tested = report.tested /\ artifacts = tested
    BY <1>0, <2>1 DEF ReportIsOfTheTest, IsComplete
  <2>3. selection' = selection
    <3>1. ~WriteSelection(l)
      BY <1>0, <2>2 DEF SelectionSettled, WriteSelection, At
    <3> QED
      BY <1>3, <2>2, <3>1
         DEF Launch, LaunchFresh, LaunchResume, WriteContract, FindCorpus, PublishCorpus,
         FindComplete, RefuseConsumed, Crash, LoadLatest, SaveFirst, TrainOneStep,
         SaveDue, FinishTraining, SaveFinal, StopTraining, SaveStopped, SaveCheckpoint,
         RefuseTorn, ListCandidates, EvaluateCandidate, PausePostTraining, ReuseSelection, Choose,
         CreateSelection, KeepSealed, CreateClaim, WriteClaim, OpenTest,
         WriteArtifacts, Step, disk, history
  <2>4. ~OpenTest(l)
    <3> SUFFICES ASSUME pc[l] = "test" PROVE FALSE
      BY DEF OpenTest, At
    <3>1. opens = 0 /\ claim # None
      BY <1>0 DEF ClaimSettled
    <3>2. selection.chosen # None
      BY <1>0, <3>1 DEF ClaimSettled
    <3> QED
      BY <2>2, <3>1, <3>2
  <2>5. opens' = opens /\ tested' = tested
    BY <1>3, <2>4
       DEF Launch, LaunchFresh, LaunchResume, WriteContract, FindCorpus, PublishCorpus,
         FindComplete, RefuseConsumed, Crash, LoadLatest, SaveFirst, TrainOneStep,
         SaveDue, FinishTraining, SaveFinal, StopTraining, SaveStopped, SaveCheckpoint,
         RefuseTorn, ListCandidates, EvaluateCandidate, PausePostTraining, ReuseSelection, Choose,
         CreateSelection, WriteSelection, KeepSealed, CreateClaim, WriteClaim,
         WriteArtifacts, Step, disk, history
  <2>6. artifacts' = artifacts \/ (pc[l] = "testing" /\ artifacts' = mem[l].models.steps[Conditional])
    BY <1>3
       DEF Launch, LaunchFresh, LaunchResume, WriteContract, FindCorpus, PublishCorpus,
         FindComplete, RefuseConsumed, Crash, LoadLatest, SaveFirst, TrainOneStep,
         SaveDue, FinishTraining, SaveFinal, StopTraining, SaveStopped, SaveCheckpoint,
         RefuseTorn, ListCandidates, EvaluateCandidate, PausePostTraining, ReuseSelection, Choose,
         CreateSelection, WriteSelection, KeepSealed, CreateClaim, WriteClaim, OpenTest,
         WriteArtifacts, Step, disk, history, At
  <2>7. CASE artifacts' = artifacts
    BY <2>1, <2>2, <2>3, <2>5, <2>7
  <2>8. CASE pc[l] = "testing" /\ artifacts' = mem[l].models.steps[Conditional]
    <3>1. opens = 1 /\ artifacts' = selection.chosen
      BY <1>0, <2>8, TesterFacts DEF ClaimSettled
    <3> QED
      BY <2>1, <2>2, <2>3, <2>5, <3>1
  <2> QED
    BY <2>6, <2>7, <2>8
<1> QED
  BY <1>1, <1>2, <1>3
-----------------------------------------------------------------------------
(* The long run: the invariant, and what follows from it. *)

(* Every step of a launch, or of its operator, keeps the invariant.        *)
LEMMA LongRunStep == ASSUME LongRunInv, [Next]_vars PROVE LongRunInv'
<1>0. TypeOK /\ Resumes /\ SelectionSettled /\ ClaimSettled
  BY DEF LongRunInv, Resumes
<1>1. CASE UNCHANGED vars
  <2>1. Resumes'
    BY <1>0, <1>1 DEF vars, disk, history, Resumes, TypeOK, CheckpointsExact, Saved, Ready
  <2>2. SelectionSettled' /\ ClaimSettled' /\ ReportIsOfTheTest'
    BY <1>1 DEF vars, disk, history, LongRunInv, SelectionSettled, ClaimSettled,
                ReportIsOfTheTest, IsComplete
  <2> QED
    BY <2>1, <2>2 DEF LongRunInv
<1>2. CASE CalmDown
  <2>1. TypeOK'
    BY <1>0, <1>2 DEF CalmDown, TypeOK, disk
  <2>2. Resumes'
    BY <1>0, <1>2, <2>1 DEF CalmDown, Resumes, CheckpointsExact, Saved, Ready, disk
  <2>3. SelectionSettled' /\ ClaimSettled' /\ ReportIsOfTheTest'
    BY <1>2 DEF CalmDown, disk, LongRunInv, SelectionSettled, ClaimSettled,
                ReportIsOfTheTest, IsComplete
  <2> QED
    BY <2>2, <2>3 DEF LongRunInv
<1>3. ASSUME NEW l \in Launches,
             Launch(l) \/ Step(l) \/ StopTraining(l) \/ PausePostTraining(l) \/ Crash(l)
      PROVE  LongRunInv'
  <2>1. ReportIsOfTheTest'
    BY <1>3, ReportSettled
  <2>2. CASE \/ Launch(l) \/ WriteContract(l) \/ FindCorpus(l) \/ PublishCorpus(l)
             \/ ReportCorpus(l) \/ FindComplete(l) \/ RefuseConsumed(l) \/ Crash(l)
    BY <1>0, <2>1, <2>2, StartResumes, EarlySettled DEF LongRunInv
  <2>3. CASE LoadLatest(l)
    BY <1>0, <2>1, <2>3, LoadResumes, EarlySettled DEF LongRunInv
  <2>4. CASE TrainOneStep(l)
    BY <1>0, <2>1, <2>4, TrainResumes, EarlySettled DEF LongRunInv
  <2>5. CASE SaveFirst(l) \/ SaveDue(l) \/ SaveFinal(l) \/ SaveStopped(l)
    <3>1. \/ pc[l] \in {"first", "due"} /\ SaveCheckpoint(l, "train")
          \/ pc[l] = "stopping" /\ SaveCheckpoint(l, "paused")
          \/ pc[l] = "final" /\ SaveCheckpoint(l, "select")
      BY <2>5 DEF SaveFirst, SaveDue, SaveFinal, SaveStopped, At
    <3>2. Resumes'
      BY <1>0, <3>1, SaveResumes
    <3> QED
      BY <1>0, <2>1, <2>5, <3>2, EarlySettled DEF LongRunInv
  <2>6. CASE StopTraining(l) \/ FinishTraining(l)
    <3>1. Resumes'
      BY <1>0, <2>6, LoadsTypes, PastTrainingResumes
    <3> QED
      BY <1>0, <2>1, <2>6, <3>1, EarlySettled DEF LongRunInv
  <2>7. CASE \/ RefuseTorn(l) \/ ListCandidates(l)
             \/ (\E s \in mem[l].todo : EvaluateCandidate(l, s)) \/ PausePostTraining(l)
    <3>1. Resumes'
      BY <1>0, <2>7, SelectsTypes, PastTrainingResumes
    <3> QED
      BY <1>0, <2>1, <2>7, <3>1, EarlySettled DEF LongRunInv
  <2>8. CASE ReuseSelection(l) \/ Choose(l) \/ CreateSelection(l) \/ WriteSelection(l)
    <3>1. Resumes'
      BY <1>0, <2>8, SelectsTypes, PastTrainingResumes
    <3> QED
      BY <1>0, <2>1, <2>8, <3>1, SelectionSteps DEF LongRunInv
  <2>9. CASE \/ ReportPaused(l) \/ KeepSealed(l) \/ CreateClaim(l) \/ WriteClaim(l)
             \/ OpenTest(l) \/ WriteArtifacts(l) \/ ReportComplete(l)
    <3>1. pc[l] \in {"claimed", "test", "testing", "report"} /\ mem[l].chosen # None =>
             mem[l].models.steps[Conditional] = mem[l].chosen
      BY <1>0 DEF SelectionSettled
    <3>2. pc[l] \in {"claimed", "test", "testing"} => mem[l].chosen # None
      BY <1>0 DEF ClaimSettled
    <3>3. Resumes'
      BY <1>0, <2>9, <3>1, <3>2, TestsTypes, PastTrainingResumes
    <3>4. SelectionSettled' /\ ClaimSettled'
      BY <1>0, <2>9, EarlySettled, TestSteps
    <3> QED
      BY <2>1, <3>3, <3>4 DEF LongRunInv
  <2> QED
    BY <1>3, <2>2, <2>3, <2>4, <2>5, <2>6, <2>7, <2>8, <2>9 DEF Step
<1> QED
  BY <1>1, <1>2, <1>3 DEF Next

(* The invariant holds in an empty run directory.                          *)
LEMMA LongRunInit == ASSUME Init PROVE LongRunInv
<1>1. TypeOK
  BY TypeInit
<1>2. Saved = {} /\ \A l \in Launches : pc[l] = "idle"
  BY DEF Init, Saved
<1>3. Resumes
  BY <1>1, <1>2 DEF Resumes, CheckpointsExact, Ready, Starting, Stepping, PastTraining
<1>4. SelectionSettled /\ ClaimSettled
  BY <1>2, LongRunAssumption DEF Init, SelectionSettled, ClaimSettled
<1>5. ReportIsOfTheTest
  BY DEF Init, ReportIsOfTheTest, IsComplete
<1> QED
  BY <1>3, <1>4, <1>5 DEF LongRunInv

(* A resume is exact. *)
LEMMA ExactResume == Resumes => ResumeIsExact
<1> SUFFICES ASSUME Resumes, NEW l \in Launches, pc[l] \in Training
             PROVE  /\ mem[l].models = TrainedTo(mem[l].cursor)
                    /\ mem[l].warmed = (mem[l].cursor[Selector] > 0)
  BY DEF Resumes, CheckpointsExact, ResumeIsExact
<1>1. CASE pc[l] = "first"
  <2>1. TrainedTo(Start) = Untrained /\ (Start[Selector] > 0) = FALSE
    BY DEF TrainedTo, Untrained, Start, Selector, Phases
  <2> QED
    BY <1>1, <2>1 DEF Resumes, Ready, Starting
<1>2. CASE pc[l] # "first"
  BY <1>2 DEF Resumes, Ready, Stepping, Training
<1> QED
  BY <1>1, <1>2

(* No more than an interval is lost. *)
LEMMA LossWithinInterval == Resumes => BoundedLoss
<1> SUFFICES ASSUME Resumes, NEW l \in Launches
             PROVE  /\ pc[l] = "due" => Lost(l) <= CheckpointEvery
                    /\ pc[l] \in {"train", "stopping", "final"} => Lost(l) < CheckpointEvery
                    /\ pc[l] \in PastTraining => Lost(l) <= 0
  BY DEF BoundedLoss
<1> DEFINE n == GlobalStep(mem[l].cursor)
           last == mem[l].last
           r == n % CheckpointEvery
<1>1. pc[l] \in Stepping \cup PastTraining => last \in Saved
  BY DEF Resumes, Ready
<1>2. /\ pc[l] \in {"train", "stopping", "final"} => n - last <= r
      /\ pc[l] = "due" => n - last <= CheckpointEvery
      /\ pc[l] \in PastTraining => last = n
  BY DEF Resumes, Ready
<1>3. n \in Nat
  BY MemoryFields, CursorSteps DEF Resumes
<1>4. CheckpointEvery \in Nat \ {0}
  BY LongRunAssumption
<1>5. r \in 0 .. CheckpointEvery - 1
  <2> HIDE DEF n
  <2> QED
    BY <1>3, <1>4, RemainderSucc
<1>6. last \in Saved => last \in Nat /\ Latest \in Nat /\ last <= Latest
  BY LatestIsLast DEF Saved
<1>7. Lost(l) = n - Latest
  BY DEF Lost
<1>8. pc[l] \in Stepping \cup PastTraining => n - Latest <= n - last
  <2> HIDE DEF n, last
  <2> QED
    BY <1>1, <1>3, <1>6
<1> HIDE DEF n, last, r
<1>9. pc[l] = "due" => Lost(l) <= CheckpointEvery
  BY <1>1, <1>2, <1>3, <1>4, <1>6, <1>7, <1>8 DEF Stepping
<1>10. pc[l] \in {"train", "stopping", "final"} => Lost(l) < CheckpointEvery
  BY <1>1, <1>2, <1>3, <1>4, <1>5, <1>6, <1>7, <1>8 DEF Stepping
<1>11. pc[l] \in PastTraining => Lost(l) <= 0
  BY <1>1, <1>2, <1>3, <1>6, <1>7
<1> QED
  BY <1>9, <1>10, <1>11

(* The steps of the long run are steps of the one-time test, or none.      *)
LEMMA TestIsOneTime == ASSUME LongRunInv, [Next]_vars PROVE [OneTime!Next]_(OneTime!vars)
<1> DEFINE claimed == IF claim = None THEN None ELSE selection.chosen
<1>0. TypeOK /\ SelectionSettled /\ ClaimSettled
  BY DEF LongRunInv, Resumes
<1>1. CASE UNCHANGED <<selection, claim, artifacts, opens, tested>>
  BY <1>1 DEF OneTime!vars
<1>2. ASSUME NEW l \in Launches, CreateSelection(l) \/ WriteSelection(l) PROVE UNCHANGED OneTime!vars
  <2>1. UNCHANGED <<claim, artifacts, opens, tested>>
    BY <1>2 DEF CreateSelection, WriteSelection, history
  <2>2. selection = None \/ selection = Torn \/ selection' = selection
    BY <1>0, <1>2 DEF CreateSelection, WriteSelection, SelectionSettled, At
  <2>3. claim # None => selection' = selection
    BY <1>0, <2>2 DEF ClaimSettled
  <2> QED
    BY <2>1, <2>3 DEF OneTime!vars
<1>3. ASSUME NEW l \in Launches, CreateClaim(l) PROVE [OneTime!Next]_(OneTime!vars)
  <2>1. UNCHANGED <<selection, artifacts, opens, tested>>
    BY <1>3 DEF CreateClaim, history
  <2>2. CASE claim' = claim
    BY <2>1, <2>2 DEF OneTime!vars
  <2>3. CASE claim' # claim
    <3>1. claim = None /\ claim' = Torn /\ pc[l] = "gate" /\ mem[l].chosen # None
      BY <1>3, <2>3 DEF CreateClaim, At
    <3>2. mem[l].chosen = selection.chosen /\ selection.chosen \in ConditionalRange
      BY <1>0, <3>1, MemoryFields DEF SelectionSettled
    <3>3. claimed = None /\ claimed' = selection.chosen
      BY <2>1, <3>1, LongRunAssumption
    <3>4. OneTime!Claim(selection.chosen)
      BY <2>1, <3>3 DEF OneTime!Claim
    <3> QED
      BY <3>2, <3>4 DEF OneTime!Next
  <2> QED
    BY <2>2, <2>3
<1>4. ASSUME NEW l \in Launches, WriteClaim(l) PROVE UNCHANGED OneTime!vars
  <2>1. UNCHANGED <<selection, artifacts, opens, tested>> /\ pc[l] = "claimed" /\ claim' = mem[l].chosen
    BY <1>4 DEF WriteClaim, history, At
  <2>2. claim # None /\ claim' # None
    BY <1>0, <2>1, TesterFacts
  <2> QED
    BY <2>1, <2>2 DEF OneTime!vars
<1>5. ASSUME NEW l \in Launches, OpenTest(l) PROVE OneTime!Next
  <2>1. /\ UNCHANGED <<selection, claim, artifacts>> /\ pc[l] = "test" /\ opens' = opens + 1
        /\ tested' = mem[l].models.steps[Conditional]
    BY <1>5 DEF OpenTest, disk, At
  <2>2. opens = 0 /\ tested' = selection.chosen /\ claim # None /\ selection.chosen # None
    BY <1>0, <2>1, TesterFacts DEF ClaimSettled
  <2>3. OneTime!Open
    BY <2>1, <2>2 DEF OneTime!Open
  <2> QED
    BY <2>3 DEF OneTime!Next
<1>6. ASSUME NEW l \in Launches, WriteArtifacts(l) PROVE [OneTime!Next]_(OneTime!vars)
  <2>1. /\ UNCHANGED <<selection, claim, opens, tested>> /\ pc[l] = "testing"
        /\ artifacts' = mem[l].models.steps[Conditional]
    BY <1>6 DEF WriteArtifacts, history, At
  <2>2. opens = 1 /\ artifacts' = tested
    BY <1>0, <2>1, TesterFacts DEF ClaimSettled
  <2>3. CASE artifacts = None
    BY <2>1, <2>2, <2>3 DEF OneTime!Leave, OneTime!Next
  <2>4. CASE artifacts # None
    BY <1>0, <2>1, <2>2, <2>4 DEF ClaimSettled, OneTime!vars
  <2> QED
    BY <2>3, <2>4
<1>7. ASSUME NEW l \in Launches,
             Launch(l) \/ Step(l) \/ StopTraining(l) \/ PausePostTraining(l) \/ Crash(l),
             ~(\/ CreateSelection(l) \/ WriteSelection(l) \/ CreateClaim(l) \/ WriteClaim(l)
               \/ OpenTest(l) \/ WriteArtifacts(l))
      PROVE  UNCHANGED <<selection, claim, artifacts, opens, tested>>
  BY <1>7 DEF Launch, LaunchFresh, LaunchResume, WriteContract, FindCorpus, PublishCorpus,
         ReportCorpus, FindComplete, RefuseConsumed, Crash, LoadLatest, SaveFirst, TrainOneStep,
         SaveDue, FinishTraining, SaveFinal, StopTraining, SaveStopped, SaveCheckpoint,
         RefuseTorn, ListCandidates, EvaluateCandidate, PausePostTraining, ReuseSelection, Choose,
         KeepSealed, ReportPaused, ReportComplete, Step, disk, history
<1>8. CalmDown \/ UNCHANGED vars => UNCHANGED <<selection, claim, artifacts, opens, tested>>
  BY DEF CalmDown, vars, disk, history
<1> QED
  BY <1>1, <1>2, <1>3, <1>4, <1>5, <1>6, <1>7, <1>8 DEF Next

(* The long run starts with nothing claimed and nothing opened.            *)
LEMMA TestInit == ASSUME Init PROVE OneTime!Init
BY DEF Init, OneTime!Init

-----------------------------------------------------------------------------
(* The long run in the composition. *)

(* The composition starts as the long run does.                            *)
LEMMA LongRunMoves == MCInit => Init
BY DEF MCInit

(* A step of the composition is one of the long run, or none of it.        *)
LEMMA LongRunMovesOn ==
    [MCNext]_<<part, vars, cohortVars>> => [Next]_vars
<1> SUFFICES ASSUME [MCNext]_<<part, vars, cohortVars>> PROVE [Next]_vars
  OBVIOUS
<1>1. Operators \subseteq Launches
  BY LongRunAssumption DEF Operators
<1>2. NextLongRun => Next
  BY <1>1 DEF NextLongRun, Next
<1> QED
  BY <1>2 DEF MCNext

(* The files, and what launches know of them, over stops, kills, resumes   *)
(* and launches at the same time (run_stage0_long.py).                     *)
THEOREM LongRunInvariant == MCSpec => []LongRunInv
<1>1. MCInit => LongRunInv
  BY LongRunInit, LongRunMoves
<1>2. LongRunInv /\ [MCNext]_<<part, vars, cohortVars>> => LongRunInv'
  BY LongRunStep, LongRunMovesOn
<1> QED
  BY <1>1, <1>2, PTL DEF MCSpec

(* Whatever is stopped, paused, crashed and resumed, a launch goes on from *)
(* the state the uninterrupted run would have at its step, and loses at    *)
(* most one checkpoint interval (run_stage0_long.py, LongRunCursor).       *)
THEOREM ResumeIsWell == MCSpec => []ResumesWell
<1>1. LongRunInv => ResumesWell
  BY ExactResume, LossWithinInterval DEF LongRunInv, ResumesWell
<1> QED
  BY <1>1, LongRunInvariant, PTL

(* The locked test is claimed once, and opened once for what the selection *)
(* names (_create_test_claim and the steps around it).                     *)
THEOREM LongRunImplementsOneTimeTest == MCSpec => ImplementsOneTimeTest
<1>1. MCInit => OneTime!Init
  BY TestInit, LongRunMoves
<1>2. LongRunInv /\ [MCNext]_<<part, vars, cohortVars>> => [OneTime!Next]_(OneTime!vars)
  BY TestIsOneTime, LongRunMovesOn
<1> QED
  BY <1>1, <1>2, LongRunInvariant, PTL DEF MCSpec, ImplementsOneTimeTest, OneTime!Spec

-----------------------------------------------------------------------------
(* The validation cohort.  An author between its claim and the publication *)
(* is the one the claim on disk is of; the seeds are simulated after that. *)
AuthorClaims(a) ==
    /\ run[a].at \in {"writing", "flushing", "claimed", "authored"} =>
          /\ authoring # None /\ authoring.by = a
          /\ authoring.of = run[a].choice
    /\ run[a].at = "flushing" => authoring.whole
    /\ run[a].at \in {"claimed", "authored"} => authoring.whole /\ authoring.durable
    /\ run[a].at \in {"writing", "flushing", "claimed"} => seen.times = 0
    /\ run[a].at = "authored" => seen.times = 1 /\ seen.of = run[a].choice /\ cohort = None

(* What a simulation leaves: a claim that survives, and says what it was.  *)
SeedsSettled ==
    IF seen.times = 0 THEN seen.of = None /\ cohort = None
    ELSE /\ seen.times = 1
         /\ authoring # None /\ authoring.whole /\ authoring.durable /\ authoring.of = seen.of
         /\ cohort \in {None, seen.of}

(* A selector between its claim and its end is the one the claim is of;    *)
(* it has a directory of its own, with what it has written so far.         *)
Opening == {"opened", "selected", "audited", "completed"}
Claiming == {"writing", "flushing", "claimed"}
Creating == {"created", "preflight"} \cup Claiming \cup Opening

FilesAt == [here \in Creating |->
               CASE here = "opened" -> {"claim"}
                 [] here = "selected" -> {"claim", "selection"}
                 [] here \in {"audited", "completed"} -> {"claim", "selection", "audit"}
                 [] OTHER -> {}]

SelectorClaims(s) ==
    /\ run[s].at \in Claiming \cup Opening =>
          /\ run[s].claimed
          /\ selecting # None /\ selecting.by = s /\ selecting.of = run[s].choice
    /\ run[s].at \notin {"writing", "claimed"} /\ run[s].at \in Claiming \cup Opening => selecting.whole
    /\ run[s].at \in Opening \cup {"claimed"} => selecting.whole /\ selecting.durable
    /\ run[s].at \in Claiming => held.times = 0
    /\ run[s].at \in Opening => held.times = 1 /\ held.of = run[s].choice
    /\ run[s].created => /\ run[s].dir \in Outputs
                         /\ output[run[s].dir] # None /\ output[run[s].dir].of = s
    /\ run[s].at \in Creating => run[s].created /\ output[run[s].dir].files = FilesAt[run[s].at]
    /\ run[s].at \in {"idle", "prepared"} => ~run[s].created
    /\ run[s].at \in {"idle", "prepared", "created", "preflight"} => ~run[s].claimed
    /\ run[s].at = "prepared" => run[s].dir \in Outputs
    /\ run[s].at \in Creating \cup {"prepared"} => run[s].choice \in Choices

HeldOutSettled ==
    /\ IF held.times = 0 THEN held.of = None
       ELSE /\ held.times = 1
            /\ selecting # None /\ selecting.whole /\ selecting.durable /\ selecting.of = held.of
    /\ selecting # None => selecting.by \in Selectors /\ run[selecting.by].claimed

(* What a directory says is what its run has done. *)
DirectoryOf(p) ==
    output[p] # None =>
        /\ run[output[p].of].created /\ run[output[p].of].dir = p
        /\ output[p].files # {} =>
              /\ held.times = 1 /\ held.of = run[output[p].of].choice
              /\ selecting # None /\ selecting.by = output[p].of
        /\ output[p].state = "error" => ~run[output[p].of].claimed /\ run[output[p].of].at = "ended"
        /\ output[p].state = "complete" => output[p].files = {"claim", "selection", "audit"}

AuthorPart == SeedsSettled /\ \A a \in Authors : AuthorClaims(a)

SelectorPart ==
    /\ HeldOutSettled
    /\ \A s \in Selectors : SelectorClaims(s)
    /\ \A p \in Outputs : DirectoryOf(p)

CohortInv == Cohort!TypeOK /\ AuthorPart /\ SelectorPart

(* What a run does not touch stays true of it; it may come to its end.     *)
LEMMA AuthorKept ==
    ASSUME AuthorPart, UNCHANGED <<authoring, cohort, seen>>,
           \A a \in Authors : run'[a] = run[a] \/ run'[a].at = "ended"
    PROVE  AuthorPart'
BY DEF AuthorPart, SeedsSettled, AuthorClaims

Stopping == {"failing", "ended"}

(* The same for the selection runs; one that ends leaves what it wrote.    *)
LEMMA SelectorKept ==
    ASSUME SelectorPart, Cohort!TypeOK, Cohort!CohortAssumption,
           UNCHANGED <<selecting, output, held>>,
           \A s \in Selectors :
              \/ run'[s] = run[s]
              \/ /\ run[s].at # "ended" /\ run'[s].at \in Stopping
                 /\ run'[s].created = run[s].created /\ run'[s].claimed = run[s].claimed
                 /\ run'[s].choice = run[s].choice /\ run'[s].dir = run[s].dir
    PROVE  SelectorPart'
<1>1. HeldOutSettled'
  BY DEF SelectorPart, HeldOutSettled
<1>2. ASSUME NEW s \in Selectors PROVE SelectorClaims(s)'
  BY DEF SelectorPart, SelectorClaims, Stopping, Opening, Claiming, Creating
<1>3. ASSUME NEW p \in Outputs PROVE DirectoryOf(p)'
  <2>1. output[p] # None => output[p].of \in Selectors
    BY DEF Cohort!TypeOK, Cohort!Output
  <2> QED
    BY <2>1 DEF SelectorPart, DirectoryOf
<1> QED
  BY <1>1, <1>2, <1>3 DEF SelectorPart

(* The steps of an authoring run, from the claim to the published cohort.  *)
LEMMA AuthoringRunSteps ==
    ASSUME Cohort!CohortAssumption, CohortInv, NEW a \in Authors, Cohort!Author(a)
    PROVE  /\ authoring' \in Cohort!Claim \cup {None} /\ cohort' \in Choices \cup {None}
           /\ seen'.times \in Nat /\ run' \in [Authors \cup Selectors -> Cohort!Run]
           /\ UNCHANGED <<selecting, output, held>>
           /\ \A r \in Authors \cup Selectors : r # a => run'[r] = run[r]
           /\ AuthorPart'
<1> USE DEF Cohort!CohortAssumption, Cohort!Runs, Cohort!At, Cohort!Goto, Cohort!Raise
<1>0. a \in Authors \cup Selectors /\ run \in [Authors \cup Selectors -> Cohort!Run] /\ run[a] \in Cohort!Run
  BY DEF Cohort!TypeOK, CohortInv
<1>t. authoring \in Cohort!Claim \cup {None} /\ cohort \in Choices \cup {None} /\ seen.times \in Nat
  BY DEF Cohort!TypeOK, CohortInv
<1>s. AuthorClaims(a) /\ SeedsSettled
  BY DEF CohortInv, AuthorPart
<1>1. ASSUME NEW c \in Choices, Cohort!ClaimSeeds(a, c) PROVE run' \in [Authors \cup Selectors -> Cohort!Run]
  BY <1>0, <1>1 DEF Cohort!ClaimSeeds, Cohort!Run
<1>2. ASSUME Cohort!RefuseTarget(a) \/ Cohort!WriteSeedClaim(a) \/ Cohort!FlushSeedClaim(a)
             \/ Cohort!SimulateSeeds(a) \/ Cohort!PublishCohort(a)
      PROVE  run' \in [Authors \cup Selectors -> Cohort!Run]
  BY <1>0, <1>2 DEF Cohort!RefuseTarget, Cohort!WriteSeedClaim, Cohort!FlushSeedClaim,
         Cohort!SimulateSeeds, Cohort!PublishCohort, Cohort!Run
<1>3. UNCHANGED <<selecting, output, held>> /\ \A r \in Authors \cup Selectors : r # a => run'[r] = run[r]
  BY <1>0 DEF Cohort!Author, Cohort!ClaimSeeds, Cohort!RefuseTarget, Cohort!WriteSeedClaim,
         Cohort!FlushSeedClaim, Cohort!SimulateSeeds, Cohort!PublishCohort
<1>4. ASSUME NEW c \in Choices, Cohort!ClaimSeeds(a, c), authoring = None
      PROVE  authoring' \in Cohort!Claim /\ cohort' = cohort /\ seen' = seen /\ AuthorPart'
  <2>1. authoring' = [by |-> a, of |-> c, whole |-> FALSE, durable |-> FALSE]
        /\ UNCHANGED <<cohort, seen>>
    BY <1>4 DEF Cohort!ClaimSeeds, Cohort!Fresh
  <2>2. run'[a].at = "writing" /\ run'[a].choice = c
    BY <1>0, <1>4 DEF Cohort!ClaimSeeds, Cohort!Run
  <2>3. seen.times = 0
    BY <1>s, <1>4 DEF SeedsSettled
  <2>4. ASSUME NEW b \in Authors, b # a PROVE AuthorClaims(b)'
    <3>1. run'[b] = run[b] /\ AuthorClaims(b)
      BY <1>3, <2>4 DEF CohortInv, AuthorPart
    <3> QED
      BY <3>1, <1>4 DEF AuthorClaims
  <2>5. authoring' \in Cohort!Claim
    BY <2>1, <1>0 DEF Cohort!Claim
  <2>6. authoring' # None
    BY <2>5
  <2>7. AuthorClaims(a)'
    BY <2>1, <2>2, <2>3, <2>6 DEF AuthorClaims
  <2>8. SeedsSettled'
    BY <2>1, <2>3, <1>s DEF SeedsSettled
  <2> QED
    BY <2>1, <2>4, <2>5, <2>7, <2>8 DEF AuthorPart
<1>5. ASSUME NEW c \in Choices, Cohort!ClaimSeeds(a, c), authoring # None
      PROVE  UNCHANGED <<authoring, cohort, seen>> /\ AuthorPart'
  <2>1. UNCHANGED <<authoring, cohort, seen>> /\ run'[a].at = "ended"
    BY <1>5, <1>0 DEF Cohort!ClaimSeeds, Cohort!Run
  <2> QED
    BY <2>1, <1>3, AuthorKept DEF CohortInv
<1>6. ASSUME Cohort!RefuseTarget(a)
      PROVE  UNCHANGED <<authoring, cohort, seen>> /\ AuthorPart'
  <2>1. UNCHANGED <<authoring, cohort, seen>> /\ run'[a].at = "ended"
    BY <1>6, <1>0 DEF Cohort!RefuseTarget, Cohort!Run
  <2> QED
    BY <2>1, <1>3, AuthorKept DEF CohortInv
<1>7. ASSUME Cohort!WriteSeedClaim(a)
      PROVE  authoring' \in Cohort!Claim /\ cohort' = cohort /\ seen' = seen /\ AuthorPart'
  <2>1. run[a].at = "writing" /\ authoring \in Cohort!Claim /\ authoring.by = a
        /\ authoring.of = run[a].choice /\ seen.times = 0
    BY <1>7, <1>s, <1>t DEF Cohort!WriteSeedClaim, AuthorClaims
  <2>2. /\ authoring' \in Cohort!Claim /\ authoring'.whole /\ authoring'.by = a
        /\ authoring'.of = authoring.of
        /\ UNCHANGED <<cohort, seen>> /\ run'[a].at = "flushing" /\ run'[a].choice = run[a].choice
    BY <1>7, <2>1, <1>0 DEF Cohort!WriteSeedClaim, Cohort!Run, Cohort!Claim
  <2>3. ASSUME NEW b \in Authors, b # a PROVE AuthorClaims(b)'
    <3>1. run'[b] = run[b] /\ AuthorClaims(b)
      BY <1>3, <2>3 DEF CohortInv, AuthorPart
    <3> QED
      BY <3>1, <2>1, <2>2, <2>3 DEF AuthorClaims
  <2>4. AuthorClaims(a)'
    BY <2>1, <2>2 DEF AuthorClaims
  <2>5. SeedsSettled'
    BY <2>1, <2>2, <1>s DEF SeedsSettled
  <2> QED
    BY <2>2, <2>3, <2>4, <2>5 DEF AuthorPart
<1>8. ASSUME Cohort!FlushSeedClaim(a)
      PROVE  authoring' \in Cohort!Claim /\ cohort' = cohort /\ seen' = seen /\ AuthorPart'
  <2>1. run[a].at = "flushing" /\ authoring \in Cohort!Claim /\ authoring.by = a /\ authoring.whole
        /\ authoring.of = run[a].choice /\ seen.times = 0
    BY <1>8, <1>s, <1>t DEF Cohort!FlushSeedClaim, AuthorClaims
  <2>2. /\ authoring' \in Cohort!Claim /\ authoring'.whole /\ authoring'.by = a
        /\ authoring'.of = authoring.of /\ authoring'.durable
        /\ UNCHANGED <<cohort, seen>> /\ run'[a].at = "claimed" /\ run'[a].choice = run[a].choice
    BY <1>8, <2>1, <1>0 DEF Cohort!FlushSeedClaim, Cohort!Run, Cohort!Claim
  <2>3. ASSUME NEW b \in Authors, b # a PROVE AuthorClaims(b)'
    <3>1. run'[b] = run[b] /\ AuthorClaims(b)
      BY <1>3, <2>3 DEF CohortInv, AuthorPart
    <3> QED
      BY <3>1, <2>1, <2>2, <2>3 DEF AuthorClaims
  <2>4. AuthorClaims(a)'
    BY <2>1, <2>2 DEF AuthorClaims
  <2>5. SeedsSettled'
    BY <2>1, <2>2, <1>s DEF SeedsSettled
  <2> QED
    BY <2>2, <2>3, <2>4, <2>5 DEF AuthorPart
<1>9. ASSUME Cohort!SimulateSeeds(a)
      PROVE  authoring' = authoring /\ cohort' = cohort /\ seen'.times \in Nat /\ AuthorPart'
  <2>1. run[a].at = "claimed" /\ authoring # None /\ authoring.by = a /\ authoring.whole
        /\ authoring.durable /\ authoring.of = run[a].choice /\ seen.times = 0
    BY <1>9, <1>s DEF Cohort!SimulateSeeds, AuthorClaims
  <2>2. /\ seen'.times = 1 /\ seen'.of = run[a].choice
        /\ UNCHANGED <<authoring, cohort>> /\ run'[a].at = "authored" /\ run'[a].choice = run[a].choice
    BY <1>9, <2>1, <1>0 DEF Cohort!SimulateSeeds, Cohort!Run, Cohort!Again
  <2>3. ASSUME NEW b \in Authors, b # a PROVE AuthorClaims(b)'
    <3>1. run'[b] = run[b] /\ AuthorClaims(b)
      BY <1>3, <2>3 DEF CohortInv, AuthorPart
    <3> QED
      BY <3>1, <2>1, <2>2, <2>3 DEF AuthorClaims
  <2>4. cohort = None
    BY <2>1, <1>s DEF SeedsSettled
  <2>5. AuthorClaims(a)'
    BY <2>1, <2>2, <2>4 DEF AuthorClaims
  <2>6. SeedsSettled'
    BY <2>1, <2>2, <2>4 DEF SeedsSettled
  <2> QED
    BY <2>2, <2>3, <2>5, <2>6 DEF AuthorPart
<1>10. ASSUME Cohort!PublishCohort(a)
      PROVE  authoring' = authoring /\ cohort' \in Choices \cup {None} /\ seen' = seen /\ AuthorPart'
  <2>1. run[a].at = "authored" /\ authoring # None /\ authoring.by = a /\ authoring.whole
        /\ authoring.durable /\ authoring.of = run[a].choice /\ seen.times = 1
        /\ seen.of = run[a].choice
    BY <1>10, <1>s DEF Cohort!PublishCohort, AuthorClaims
  <2>2. UNCHANGED <<authoring, seen>> /\ cohort' = run[a].choice /\ run'[a].at = "ended"
    BY <1>10, <1>0 DEF Cohort!PublishCohort, Cohort!Run
  <2>3. ASSUME NEW b \in Authors, b # a PROVE AuthorClaims(b)'
    <3>1. run'[b] = run[b] /\ AuthorClaims(b)
      BY <1>3, <2>3 DEF CohortInv, AuthorPart
    <3> QED
      BY <3>1, <2>1, <2>2, <2>3 DEF AuthorClaims
  <2>4. AuthorClaims(a)'
    BY <2>2 DEF AuthorClaims
  <2>5. SeedsSettled'
    BY <2>1, <2>2 DEF SeedsSettled
  <2>6. cohort' \in Choices \cup {None}
    BY <2>2, <1>0 DEF Cohort!Run
  <2> QED
    BY <2>2, <2>3, <2>4, <2>5, <2>6 DEF AuthorPart
<1> QED
  BY <1>1, <1>2, <1>3, <1>4, <1>5, <1>6, <1>7, <1>8, <1>9, <1>10, <1>t DEF Cohort!Author

(* A selection run moves itself, and touches nothing of the authoring.     *)
LEMMA SelectorTypes ==
    ASSUME Cohort!CohortAssumption, CohortInv, NEW s \in Selectors, Cohort!Selector(s)
    PROVE  /\ run' \in [Authors \cup Selectors -> Cohort!Run]
           /\ UNCHANGED <<authoring, cohort, seen>>
           /\ \A r \in Authors \cup Selectors : r # s => run'[r] = run[r]
<1> USE DEF Cohort!CohortAssumption, Cohort!Runs, Cohort!At, Cohort!Goto, Cohort!Raise
<1>0. s \in Authors \cup Selectors /\ run \in [Authors \cup Selectors -> Cohort!Run] /\ run[s] \in Cohort!Run
  BY DEF Cohort!TypeOK, CohortInv
<1>1. ASSUME NEW c \in Choices, NEW p \in Outputs, Cohort!Prepare(s, c, p)
      PROVE  run' \in [Authors \cup Selectors -> Cohort!Run]
  BY <1>0, <1>1 DEF Cohort!Prepare, Cohort!Run
<1>2. ASSUME Cohort!Create(s) \/ Cohort!WritePreflight(s) \/ Cohort!ClaimHeldOut(s)
             \/ Cohort!WriteHeldOutClaim(s) \/ Cohort!FlushHeldOutClaim(s) \/ Cohort!OpenHeldOut(s)
             \/ Cohort!Select(s) \/ Cohort!Audit(s) \/ Cohort!MarkComplete(s) \/ Cohort!Return(s)
             \/ Cohort!MarkFailed(s)
      PROVE  run' \in [Authors \cup Selectors -> Cohort!Run]
  BY <1>0, <1>2 DEF Cohort!Create, Cohort!WritePreflight, Cohort!ClaimHeldOut, Cohort!Write,
         Cohort!WriteHeldOutClaim, Cohort!FlushHeldOutClaim, Cohort!OpenHeldOut,
         Cohort!Select, Cohort!Audit, Cohort!MarkComplete, Cohort!Return, Cohort!MarkFailed,
         Cohort!Run
<1>3. /\ UNCHANGED <<authoring, cohort, seen>>
      /\ \A r \in Authors \cup Selectors : r # s => run'[r] = run[r]
  BY <1>0 DEF Cohort!Selector, Cohort!Prepare, Cohort!Create, Cohort!WritePreflight,
              Cohort!ClaimHeldOut,
         Cohort!WriteHeldOutClaim, Cohort!FlushHeldOutClaim, Cohort!OpenHeldOut,
         Cohort!Select, Cohort!Audit, Cohort!MarkComplete, Cohort!Return, Cohort!MarkFailed
<1> QED
  BY <1>1, <1>2, <1>3 DEF Cohort!Selector

Records == {"claim", "selection", "audit"}

(* A run writes in its own directory.                                      *)
LEMMA WriteFacts ==
    ASSUME Cohort!CohortAssumption, CohortInv, NEW s \in Selectors, run[s].created,
           NEW state \in Cohort!States, NEW files \in SUBSET Records, Cohort!Write(s, state,
           files)
    PROVE  /\ output' \in [Outputs -> Cohort!Output \cup {None}]
           /\ run[s].dir \in Outputs /\ output[run[s].dir].of = s
           /\ output'[run[s].dir] # None /\ output'[run[s].dir].of = s
           /\ output'[run[s].dir].state = state
           /\ output'[run[s].dir].files = output[run[s].dir].files \cup files
           /\ \A q \in Outputs : q # run[s].dir => output'[q] = output[q]
<1> DEFINE d == run[s].dir
<1>1. d \in Outputs /\ output[d] # None /\ output[d].of = s
  BY DEF CohortInv, SelectorPart, SelectorClaims
<1>2. output \in [Outputs -> Cohort!Output \cup {None}] /\ output[d] \in Cohort!Output
  BY <1>1 DEF CohortInv, Cohort!TypeOK
<1>3. output' = [output EXCEPT ![d] = [output[d] EXCEPT !.state = state, !.files = @ \cup files]]
  BY <1>1, <1>2 DEF Cohort!Write, Cohort!Output
<1>4. [output[d] EXCEPT !.state = state, !.files = @ \cup files] \in Cohort!Output
  BY <1>2 DEF Cohort!Output, Records
<1>5. output'[d] \in Cohort!Output /\ output'[d].of = s /\ output'[d].state = state
      /\ output'[d].files = output[d].files \cup files
  BY <1>1, <1>2, <1>3, <1>4 DEF Cohort!Output
<1>6. output' \in [Outputs -> Cohort!Output \cup {None}]
      /\ \A q \in Outputs : q # d => output'[q] = output[q]
  BY <1>1, <1>2, <1>3, <1>4
<1> QED
  BY <1>1, <1>5, <1>6 DEF Cohort!CohortAssumption

(* What is left to show of a step of one selection run.                    *)
LEMMA SelectorAlone ==
    ASSUME Cohort!CohortAssumption, CohortInv, NEW s \in Selectors,
           \A r \in Authors \cup Selectors : r # s => run'[r] = run[r],
           \A q \in Outputs : output'[q] = output[q]
                              \/ /\ output[q] = None \/ output[q].of = s
                                 /\ output'[q] # None /\ output'[q].of = s,
           selecting' = selecting \/ selecting = None \/ selecting.by = s,
           held' = held \/ (selecting # None /\ selecting.by = s),
           selecting # None => selecting' # None /\ selecting'.by = selecting.by,
           SelectorClaims(s)', HeldOutSettled',
           \A q \in Outputs : output'[q] # None /\ output'[q].of = s => DirectoryOf(q)'
    PROVE  SelectorPart'
<1>1. ASSUME NEW k \in Selectors, k # s PROVE SelectorClaims(k)'
  <2>1. run'[k] = run[k] /\ SelectorClaims(k)
    BY <1>1 DEF CohortInv, SelectorPart
  <2>2. run[k].created => output'[run[k].dir] = output[run[k].dir]
    BY <2>1, <1>1 DEF SelectorClaims
  <2>3. run[k].at \in Claiming \cup Opening => selecting' = selecting /\ held' = held
    BY <2>1, <1>1 DEF SelectorClaims
  <2>4. CASE run[k].at \in Claiming \cup Opening
    BY <2>1, <2>2, <2>3, <2>4 DEF SelectorClaims, Creating
  <2>5. CASE run[k].at \notin Claiming \cup Opening
    BY <2>1, <2>2, <2>5 DEF SelectorClaims, Creating, Claiming, Opening
  <2> QED
    BY <2>4, <2>5
<1>2. ASSUME NEW q \in Outputs PROVE DirectoryOf(q)'
  <2>1. CASE output'[q] = None
    BY <2>1 DEF DirectoryOf
  <2>2. CASE output'[q] # None /\ output'[q].of = s
    BY <2>2
  <2>3. CASE output'[q] # None /\ output'[q].of # s
    <3>1. output'[q] = output[q] /\ DirectoryOf(q) /\ output[q].of \in Selectors
      BY <2>3 DEF CohortInv, SelectorPart, Cohort!TypeOK, Cohort!Output
    <3>2. run'[output[q].of] = run[output[q].of]
      BY <3>1, <2>3
    <3>3. output[q].files # {} => UNCHANGED <<selecting, held>>
      BY <3>1, <2>3 DEF DirectoryOf
    <3> QED
      BY <3>1, <3>2, <3>3, <2>3 DEF DirectoryOf
  <2> QED
    BY <2>1, <2>2, <2>3
<1> QED
  BY <1>1, <1>2 DEF SelectorPart

(* The steps of a selection run, from what it chooses to what it claims.   *)
LEMMA SelectorFacts ==
    ASSUME CohortInv, NEW s \in Selectors
    PROVE  /\ SelectorClaims(s) /\ HeldOutSettled
           /\ s \in Authors \cup Selectors /\ run \in [Authors \cup Selectors -> Cohort!Run]
           /\ run[s] \in Cohort!Run
           /\ \A q \in Outputs : DirectoryOf(q)
           /\ selecting \in Cohort!Claim \cup {None} /\ held.times \in Nat
           /\ output \in [Outputs -> Cohort!Output \cup {None}]
           /\ \A q \in Outputs : output[q] # None /\ output[q].of = s =>
                 run[s].created /\ q = run[s].dir
BY DEF CohortInv, SelectorPart, Cohort!TypeOK, Cohort!Runs, DirectoryOf

(* Preparing: the choice and a directory that is not there yet.            *)
LEMMA Prepared ==
    ASSUME Cohort!CohortAssumption, CohortInv, NEW s \in Selectors, NEW c \in Choices,
           NEW dir \in Outputs, Cohort!Prepare(s, c, dir)
    PROVE  UNCHANGED <<selecting, output, held>> /\ SelectorPart'
<1> USE DEF Cohort!At, Cohort!Goto, Cohort!Raise
<1>0. Cohort!Selector(s)
  BY DEF Cohort!Selector
<1>1. UNCHANGED <<selecting, output, held>> /\ run[s].at = "idle" /\ ~run[s].created /\ ~run[s].claimed
  BY SelectorFacts DEF Cohort!Prepare, SelectorClaims
<1>2. CASE run'[s].at = "failing"
  <2>1. /\ run'[s].created = run[s].created /\ run'[s].claimed = run[s].claimed
        /\ run'[s].choice = run[s].choice /\ run'[s].dir = run[s].dir
    BY SelectorFacts, <1>2 DEF Cohort!Prepare, Cohort!Run
  <2> QED
    BY <1>0, <1>1, <1>2, <2>1, SelectorTypes, SelectorKept DEF CohortInv, Stopping, Cohort!Runs
<1>3. CASE run'[s].at # "failing"
  <2>1. run'[s].at = "prepared" /\ ~run'[s].created /\ ~run'[s].claimed /\ run'[s].dir = dir
        /\ run'[s].choice = c
    BY SelectorFacts, <1>1, <1>3 DEF Cohort!Prepare, Cohort!Run
  <2>2. SelectorClaims(s)'
    BY <2>1 DEF SelectorClaims, Opening, Claiming, Creating
  <2>3. HeldOutSettled'
    <3>1. selecting # None => selecting.by # s
      BY <1>1, SelectorFacts DEF HeldOutSettled
    <3>2. \A r \in Selectors : r # s => run'[r] = run[r]
      BY <1>0, SelectorTypes
    <3> QED
      BY <1>1, <3>1, <3>2, SelectorFacts DEF HeldOutSettled
  <2>4. \A q \in Outputs : ~ (output'[q] # None /\ output'[q].of = s)
    BY <1>1, SelectorFacts
  <2> QED
    BY <1>0, <1>1, <2>2, <2>3, <2>4, SelectorTypes, SelectorAlone
<1> QED
  BY <1>1, <1>2, <1>3

(* Creating the directory, which is lost to a run that came second.        *)
LEMMA Created ==
    ASSUME Cohort!CohortAssumption, CohortInv, NEW s \in Selectors, Cohort!Create(s)
    PROVE  UNCHANGED <<selecting, held>> /\ output' \in [Outputs -> Cohort!Output \cup {None}]
           /\ SelectorPart'
<1> USE DEF Cohort!At, Cohort!Goto, Cohort!Raise
<1>0. Cohort!Selector(s)
  BY DEF Cohort!Selector
<1> DEFINE d == run[s].dir
<1>1. UNCHANGED <<selecting, held>> /\ run[s].at = "prepared" /\ ~run[s].created /\ ~run[s].claimed
      /\ d \in Outputs /\ run[s].choice \in Choices
  BY SelectorFacts DEF Cohort!Create, SelectorClaims
<1>2. CASE output[d] # None
  <2>1. /\ run'[s].created = run[s].created /\ run'[s].claimed = run[s].claimed
        /\ run'[s].choice = run[s].choice /\ run'[s].dir = run[s].dir
        /\ run'[s].at = "failing" /\ output' = output
    BY SelectorFacts, <1>2 DEF Cohort!Create, Cohort!Run
  <2> QED
    BY <1>0, <1>1, <1>2, <2>1, SelectorTypes, SelectorFacts, SelectorKept
    DEF CohortInv, Stopping, Cohort!Runs
<1>3. CASE output[d] = None
  <2>0. [of |-> s, state |-> "initialized", files |-> {}] \in Cohort!Output
    BY DEF Cohort!Output, Cohort!States
  <2>1. /\ run'[s].at = "created" /\ run'[s].created /\ ~run'[s].claimed /\ run'[s].dir = d
        /\ run'[s].choice = run[s].choice
        /\ output' = [output EXCEPT ![d] = [of |-> s, state |-> "initialized", files |-> {}]]
    BY SelectorFacts, <1>1, <1>3 DEF Cohort!Create, Cohort!Run
  <2>2. /\ output' \in [Outputs -> Cohort!Output \cup {None}]
        /\ output'[d] = [of |-> s, state |-> "initialized", files |-> {}]
        /\ output'[d] # None
        /\ \A q \in Outputs : q # d => output'[q] = output[q]
    BY <1>1, <2>0, <2>1, SelectorFacts DEF Cohort!CohortAssumption
  <2>3. SelectorClaims(s)'
    BY <1>1, <2>1, <2>2 DEF SelectorClaims, Opening, Claiming, Creating, FilesAt
  <2>4. HeldOutSettled'
    <3>1. selecting # None => selecting.by # s
      BY <1>1, SelectorFacts DEF HeldOutSettled
    <3>2. \A r \in Selectors : r # s => run'[r] = run[r]
      BY <1>0, SelectorTypes
    <3> QED
      BY <1>1, <3>1, <3>2, SelectorFacts DEF HeldOutSettled
  <2>5. \A q \in Outputs : output'[q] # None /\ output'[q].of = s => q = d
    BY <1>1, <2>2, SelectorFacts
  <2>6. \A q \in Outputs : output'[q] # None /\ output'[q].of = s => DirectoryOf(q)'
    BY <2>1, <2>2, <2>5 DEF DirectoryOf
  <2> QED
    BY <1>0, <1>1, <1>3, <2>2, <2>3, <2>4, <2>6, SelectorTypes, SelectorAlone
<1> QED
  BY <1>1, <1>2, <1>3

(* An exception, or an end, leaves the claim, the shards and the files     *)
(* alone.                                                                  *)
LEMMA Raised ==
    ASSUME Cohort!CohortAssumption, CohortInv, NEW s \in Selectors, NEW to \in Stopping,
           Cohort!Goto(s, to), run[s].at # "ended", UNCHANGED <<selecting, output, held>>
    PROVE  SelectorPart'
<1>1. /\ run'[s].created = run[s].created /\ run'[s].claimed = run[s].claimed
      /\ run'[s].choice = run[s].choice /\ run'[s].dir = run[s].dir
      /\ run'[s].at = to /\ \A r \in Authors \cup Selectors : r # s => run'[r] = run[r]
  BY SelectorFacts DEF Cohort!Goto, Cohort!Run
<1> QED
  BY <1>1, SelectorKept DEF CohortInv

(* A step that writes its record in its own directory.                     *)
LEMMA Wrote ==
    ASSUME Cohort!CohortAssumption, CohortInv, NEW s \in Selectors, run[s].at \in Creating,
           NEW to \in Opening \cup {"preflight"}, NEW state \in Cohort!States \ {"error"},
           NEW files \in SUBSET Records,
           Cohort!Write(s, state, files), Cohort!Goto(s, to), UNCHANGED selecting,
           FilesAt[to] = FilesAt[run[s].at] \cup files,
           IF to = "preflight" THEN run[s].at = "created" /\ held' = held
           ELSE run[s].at \in Opening \cup {"claimed"}
                /\ held'.times = 1 /\ held'.of = run[s].choice,
           state = "complete" => to = "completed"
    PROVE  output' \in [Outputs -> Cohort!Output \cup {None}] /\ SelectorPart'
<1> DEFINE d == run[s].dir
<1>1. SelectorClaims(s) /\ HeldOutSettled /\ \A q \in Outputs : DirectoryOf(q)
  BY SelectorFacts
<1>2. run[s].created /\ output[d].files = FilesAt[run[s].at] /\ run[s].choice \in Choices
  BY <1>1 DEF SelectorClaims
<1>3. /\ run'[s].created = run[s].created /\ run'[s].claimed = run[s].claimed
      /\ run'[s].choice = run[s].choice /\ run'[s].dir = run[s].dir
      /\ run'[s].at = to /\ \A r \in Authors \cup Selectors : r # s => run'[r] = run[r]
  BY SelectorFacts DEF Cohort!Goto, Cohort!Run
<1>4. state \in Cohort!States
  OBVIOUS
<1>5. /\ output' \in [Outputs -> Cohort!Output \cup {None}]
      /\ d \in Outputs /\ output[d].of = s
      /\ output'[d] # None /\ output'[d].of = s
      /\ output'[d].state = state
      /\ output'[d].files = FilesAt[to]
      /\ \A q \in Outputs : q # d => output'[q] = output[q]
  BY <1>2, <1>4, WriteFacts
<1>6. to \in Opening => /\ run[s].claimed /\ selecting # None /\ selecting.by = s
                        /\ selecting.of = run[s].choice /\ selecting.whole /\ selecting.durable
                        /\ held'.times = 1 /\ held'.of = run[s].choice
  BY <1>1 DEF SelectorClaims, Opening, Claiming
<1>7. SelectorClaims(s)'
  <2>1. CASE to = "preflight"
    <3>1. ~run[s].claimed
      BY <1>1, <2>1 DEF SelectorClaims
    <3> QED
      BY <1>2, <1>3, <1>5, <2>1, <3>1 DEF SelectorClaims, Creating, Opening, Claiming
  <2>2. CASE to \in Opening
    BY <1>2, <1>3, <1>5, <1>6, <2>2 DEF SelectorClaims, Creating, Opening, Claiming
  <2> QED
    BY <2>1, <2>2
<1>8. HeldOutSettled'
  <2>1. selecting # None => selecting.by \in Selectors /\ run'[selecting.by].claimed
    BY <1>1, <1>3 DEF HeldOutSettled
  <2>2. CASE to = "preflight"
    BY <1>1, <2>1, <2>2 DEF HeldOutSettled, Opening
  <2>3. CASE to \in Opening
    BY <1>6, <2>1, <2>3 DEF HeldOutSettled
  <2> QED
    BY <2>2, <2>3
<1>9. \A q \in Outputs : output'[q] # None /\ output'[q].of = s => q = d
  BY <1>5, SelectorFacts
<1>10. output'[d].files # {} => to \in Opening
  BY <1>5 DEF FilesAt, Creating, Opening, Claiming
<1>11. state = "complete" => output'[d].files = Records
  BY <1>5 DEF FilesAt, Creating, Opening, Claiming, Records
<1>12. \A q \in Outputs : output'[q] # None /\ output'[q].of = s => DirectoryOf(q)'
  BY <1>2, <1>3, <1>5, <1>6, <1>9, <1>10, <1>11 DEF DirectoryOf, Records
<1>13. held' = held \/ (selecting # None /\ selecting.by = s)
  BY <1>6
<1> QED
  BY <1>3, <1>5, <1>7, <1>8, <1>12, <1>13, SelectorAlone

(* Claiming the held-out data: claimed is set first, then the claim is     *)
(* written.                                                                *)
LEMMA HeldOutClaimed ==
    ASSUME Cohort!CohortAssumption, CohortInv, NEW s \in Selectors,
           \/ Cohort!ClaimHeldOut(s) \/ Cohort!WriteHeldOutClaim(s) \/ Cohort!FlushHeldOutClaim(s)
    PROVE  /\ UNCHANGED <<output, held>> /\ selecting' \in Cohort!Claim \cup {None}
           /\ SelectorPart'
<1> USE DEF Cohort!At, Cohort!Goto
<1>1. SelectorClaims(s) /\ HeldOutSettled /\ \A q \in Outputs : DirectoryOf(q)
  BY SelectorFacts
<1>2. UNCHANGED <<output, held>>
  BY DEF Cohort!ClaimHeldOut, Cohort!WriteHeldOutClaim, Cohort!FlushHeldOutClaim
<1>3. \A r \in Authors \cup Selectors : r # s => run'[r] = run[r]
  BY SelectorFacts DEF Cohort!ClaimHeldOut, Cohort!WriteHeldOutClaim, Cohort!FlushHeldOutClaim
<1>4. /\ run'[s].created = run[s].created /\ run'[s].claimed
      /\ run'[s].choice = run[s].choice /\ run'[s].dir = run[s].dir
      /\ run[s].at \in {"preflight", "writing", "flushing"}
  BY <1>1, SelectorFacts
  DEF Cohort!ClaimHeldOut, Cohort!WriteHeldOutClaim, Cohort!FlushHeldOutClaim, Cohort!Run,
      SelectorClaims, Claiming, Opening
<1>5. run[s].created /\ output[run[s].dir].files = {} /\ output[run[s].dir] # None
      /\ output[run[s].dir].of = s /\ run[s].dir \in Outputs
  BY <1>1, <1>4 DEF SelectorClaims, Creating, Opening, Claiming, FilesAt
<1>6. \A q \in Outputs : output'[q] # None /\ output'[q].of = s => DirectoryOf(q)'
  <2>1. ASSUME NEW q \in Outputs, output'[q] # None, output'[q].of = s PROVE DirectoryOf(q)'
    <3>1. output'[q] = output[q] /\ q = run[s].dir /\ DirectoryOf(q) /\ output[q].files = {}
      BY <1>1, <1>2, <1>5, <2>1, SelectorFacts
    <3>2. output[q].state \notin {"error", "complete"}
      BY <1>2, <1>4, <2>1, <3>1 DEF DirectoryOf
    <3> QED
      BY <1>2, <1>4, <1>5, <2>1, <3>1, <3>2 DEF DirectoryOf
  <2> QED
    BY <2>1
<1>7. CASE Cohort!ClaimHeldOut(s) /\ selecting # None
  <2>1. run'[s].at = "failing" /\ selecting' = selecting
    BY <1>7, SelectorFacts DEF Cohort!ClaimHeldOut, Cohort!Run
  <2>2. SelectorClaims(s)'
    BY <1>2, <1>4, <1>5, <2>1 DEF SelectorClaims, Opening, Claiming, Creating
  <2>3. HeldOutSettled'
    BY <1>1, <1>2, <1>3, <1>4, <2>1 DEF HeldOutSettled
  <2> QED
    BY <1>2, <1>3, <1>6, <2>1, <2>2, <2>3, SelectorFacts, SelectorAlone
<1>8. CASE Cohort!ClaimHeldOut(s) /\ selecting = None
  <2>1. run'[s].at = "writing"
        /\ selecting' = [by |-> s, of |-> run[s].choice, whole |-> FALSE, durable |-> FALSE]
    BY <1>8, SelectorFacts DEF Cohort!ClaimHeldOut, Cohort!Run, Cohort!Fresh
  <2>2. run[s].choice \in Choices
    BY <1>1, <1>4 DEF SelectorClaims, Creating, Claiming
  <2>3. selecting' \in Cohort!Claim
    BY <2>1, <2>2, SelectorFacts DEF Cohort!Claim, Cohort!Runs
  <2>4. selecting' # None
    BY <2>3 DEF Cohort!CohortAssumption
  <2>5. held.times = 0
    BY <1>1, <1>8 DEF HeldOutSettled
  <2>6. SelectorClaims(s)'
    BY <1>2, <1>4, <1>5, <2>1, <2>2, <2>4, <2>5 DEF SelectorClaims, Opening, Claiming, Creating,
                                                    FilesAt
  <2>7. HeldOutSettled'
    BY <1>1, <1>2, <1>4, <2>1, <2>5 DEF HeldOutSettled
  <2> QED
    BY <1>2, <1>3, <1>6, <1>8, <2>3, <2>6, <2>7, SelectorAlone
<1>9. CASE Cohort!WriteHeldOutClaim(s) \/ Cohort!FlushHeldOutClaim(s)
  <2>1. run[s].at \in {"writing", "flushing"} /\ selecting # None /\ selecting.by = s
        /\ selecting.of = run[s].choice /\ held.times = 0 /\ selecting \in Cohort!Claim
    BY <1>1, <1>9, SelectorFacts
    DEF Cohort!WriteHeldOutClaim, Cohort!FlushHeldOutClaim, SelectorClaims, Claiming
  <2>2. /\ selecting' \in Cohort!Claim /\ selecting'.by = s /\ selecting'.of = run[s].choice
        /\ \/ run'[s].at = "flushing" /\ selecting'.whole
           \/ run[s].at = "flushing" /\ run'[s].at = "claimed"
              /\ selecting'.durable /\ selecting'.whole = selecting.whole
    <3>1. CASE Cohort!WriteHeldOutClaim(s)
      BY <2>1, <3>1, SelectorFacts DEF Cohort!WriteHeldOutClaim, Cohort!Run, Cohort!Claim
    <3>2. CASE Cohort!FlushHeldOutClaim(s)
      BY <2>1, <3>2, SelectorFacts DEF Cohort!FlushHeldOutClaim, Cohort!Run, Cohort!Claim
    <3> QED
      BY <1>9, <3>1, <3>2
  <2>3. selecting' # None
    BY <2>2 DEF Cohort!CohortAssumption
  <2>4. run[s].choice \in Choices
    BY <1>1, <1>4 DEF SelectorClaims, Creating, Claiming
  <2>5. run[s].at = "flushing" => selecting.whole
    BY <1>1 DEF SelectorClaims, Claiming
  <2>6. SelectorClaims(s)'
    BY <1>2, <1>4, <1>5, <2>1, <2>2, <2>3, <2>4, <2>5
    DEF SelectorClaims, Opening, Claiming, Creating, FilesAt
  <2>7. HeldOutSettled'
    BY <1>1, <1>2, <1>4, <2>1, <2>2 DEF HeldOutSettled
  <2> QED
    BY <1>2, <1>3, <1>6, <2>1, <2>2, <2>3, <2>6, <2>7, SelectorAlone
<1> QED
  BY <1>2, <1>7, <1>8, <1>9

(* mark_failed: burned once the claim was tried, error before.             *)
LEMMA Failed ==
    ASSUME Cohort!CohortAssumption, CohortInv, NEW s \in Selectors, Cohort!MarkFailed(s)
    PROVE  /\ UNCHANGED <<selecting, held>>
           /\ output' \in [Outputs -> Cohort!Output \cup {None}]
           /\ SelectorPart'
<1> USE DEF Cohort!At
<1>1. SelectorClaims(s) /\ HeldOutSettled /\ \A q \in Outputs : DirectoryOf(q)
  BY SelectorFacts
<1>2. UNCHANGED <<selecting, held>> /\ run[s].at = "failing" /\ Cohort!Goto(s, "ended")
  BY DEF Cohort!MarkFailed
<1>3. CASE ~run[s].created
  <2>1. output' = output
    BY <1>3 DEF Cohort!MarkFailed
  <2> QED
    BY <1>2, <2>1, SelectorFacts, Raised DEF Stopping
<1>4. CASE run[s].created
  <2> DEFINE d == run[s].dir
             state == IF run[s].claimed THEN "burned" ELSE "error"
  <2>1. /\ Cohort!Write(s, state, {}) /\ state \in Cohort!States /\ {} \in SUBSET Records
        /\ state # "complete"
        /\ state = "error" => ~run[s].claimed
    BY <1>4 DEF Cohort!MarkFailed, Cohort!States
  <2> HIDE DEF state
  <2>2. /\ run'[s].created = run[s].created /\ run'[s].claimed = run[s].claimed
        /\ run'[s].choice = run[s].choice /\ run'[s].dir = run[s].dir
        /\ run'[s].at = "ended" /\ \A r \in Authors \cup Selectors : r # s => run'[r] = run[r]
    BY <1>2, SelectorFacts DEF Cohort!Goto, Cohort!Run
  <2>3. /\ output' \in [Outputs -> Cohort!Output \cup {None}]
        /\ d \in Outputs /\ output[d].of = s
        /\ output'[d] # None /\ output'[d].of = s
        /\ output'[d].state = state
        /\ output'[d].files = output[d].files \cup {}
        /\ \A q \in Outputs : q # d => output'[q] = output[q]
    BY <1>4, <2>1, WriteFacts
  <2>4. SelectorClaims(s)'
    BY <2>2, <2>3 DEF SelectorClaims, Creating, Opening, Claiming
  <2>5. HeldOutSettled'
    BY <1>1, <1>2, <2>2 DEF HeldOutSettled
  <2>6. ASSUME NEW q \in Outputs, output'[q] # None, output'[q].of = s PROVE DirectoryOf(q)'
    <3>1. q = d
      BY <2>3, <2>6, SelectorFacts
    <3>2. output[d] # None
      BY <1>1, <1>4 DEF SelectorClaims
    <3>3. DirectoryOf(q) /\ output'[q].files = output[q].files
      BY <1>1, <2>3, <3>1
    <3>4. output'[q].of = s /\ output[q].of = s /\ output'[q].state = state
      BY <2>3, <3>1
    <3>5. output'[q].files # {} =>
             /\ held.times = 1 /\ held.of = run[s].choice /\ selecting # None /\ selecting.by = s
      BY <3>1, <3>2, <3>3, <3>4 DEF DirectoryOf
    <3>6. /\ run'[s].created /\ run'[s].dir = q /\ run'[s].at = "ended"
          /\ run'[s].choice = run[s].choice
          /\ UNCHANGED <<selecting, held>> /\ output'[q].files = output[q].files
          /\ output'[q].state = "error" => ~run'[s].claimed
          /\ output'[q].state # "complete"
      BY <1>2, <1>4, <2>1, <2>2, <3>1, <3>3, <3>4
    <3> QED
      BY <3>4, <3>5, <3>6 DEF DirectoryOf
  <2> QED
    BY <1>2, <2>2, <2>3, <2>4, <2>5, <2>6, SelectorAlone
<1> QED
  BY <1>2, <1>3, <1>4, SelectorFacts

(* The steps of a selection run, from preparing to its status.             *)
LEMMA SelectionRunSteps ==
    ASSUME Cohort!CohortAssumption, CohortInv, NEW s \in Selectors, Cohort!Selector(s)
    PROVE  /\ selecting' \in Cohort!Claim \cup {None} /\ held'.times \in Nat
           /\ output' \in [Outputs -> Cohort!Output \cup {None}]
           /\ SelectorPart'
<1> USE DEF Cohort!At
<1>0. /\ SelectorClaims(s)
      /\ selecting \in Cohort!Claim \cup {None} /\ held.times \in Nat
      /\ output \in [Outputs -> Cohort!Output \cup {None}]
  BY SelectorFacts
<1>1. ASSUME NEW c \in Choices, NEW p \in Outputs, Cohort!Prepare(s, c, p)
      PROVE  UNCHANGED <<selecting, output, held>> /\ SelectorPart'
  BY <1>1, Prepared
<1>2. CASE Cohort!Create(s)
  BY <1>0, <1>2, Created
<1>3. CASE Cohort!WritePreflight(s)
  <2>1. /\ run[s].at = "created" /\ Cohort!Write(s, "preflight_complete", {})
        /\ Cohort!Goto(s, "preflight") /\ UNCHANGED <<selecting, held>>
    BY <1>3 DEF Cohort!WritePreflight
  <2>2. "preflight_complete" \in Cohort!States \ {"error"} /\ {} \in SUBSET Records
        /\ FilesAt["preflight"] = FilesAt["created"] \cup {}
    BY DEF Cohort!States, FilesAt, Creating
  <2>3. run[s].at \in Creating
    BY <2>1 DEF Creating
  <2>4. output' \in [Outputs -> Cohort!Output \cup {None}] /\ SelectorPart'
    BY <2>1, <2>2, <2>3, Wrote
  <2> QED
    BY <1>0, <2>1, <2>4
<1>4. CASE Cohort!ClaimHeldOut(s) \/ Cohort!WriteHeldOutClaim(s) \/ Cohort!FlushHeldOutClaim(s)
  BY <1>0, <1>4, HeldOutClaimed
<1>5. CASE Cohort!OpenHeldOut(s)
  <2>0. run[s].at = "claimed" /\ run[s].at \in Creating /\ UNCHANGED selecting
        /\ held.times = 0
    BY <1>0, <1>5 DEF Cohort!OpenHeldOut, Creating, Claiming, SelectorClaims
  <2>1. CASE Cohort!Write(s, "claimed", {"claim"}) /\ held' = Cohort!Again(held, run[s].choice)
             /\ Cohort!Goto(s, "opened")
    <3>1. held'.times = 1 /\ held'.of = run[s].choice
      BY <2>0, <2>1 DEF Cohort!Again
    <3>2. "claimed" \in Cohort!States \ {"error"} /\ {"claim"} \in SUBSET Records
          /\ FilesAt["opened"] = FilesAt["claimed"] \cup {"claim"}
      BY DEF Cohort!States, FilesAt, Creating, Opening, Claiming, Records
    <3>3. output' \in [Outputs -> Cohort!Output \cup {None}] /\ SelectorPart'
      BY <2>0, <2>1, <3>1, <3>2, Wrote DEF Opening
    <3> QED
      BY <1>0, <2>0, <3>1, <3>3
  <2>2. CASE Cohort!Goto(s, "failing") /\ UNCHANGED <<output, held>>
    BY <1>0, <2>0, <2>2, Raised DEF Stopping
  <2> QED
    BY <1>5, <2>1, <2>2 DEF Cohort!OpenHeldOut, Cohort!Raise
<1>6. CASE Cohort!Select(s)
  <2>1. /\ run[s].at = "opened" /\ Cohort!Write(s, "evaluating", {"selection"})
        /\ Cohort!Goto(s, "selected") /\ UNCHANGED <<selecting, held>>
    BY <1>6 DEF Cohort!Select
  <2>2. "evaluating" \in Cohort!States \ {"error"} /\ {"selection"} \in SUBSET Records
        /\ FilesAt["selected"] = FilesAt["opened"] \cup {"selection"}
    BY DEF Cohort!States, FilesAt, Creating, Opening, Records
  <2>3. run[s].at \in Creating /\ run[s].at \in Opening
        /\ held.times = 1 /\ held.of = run[s].choice
    BY <1>0, <2>1 DEF Creating, Opening, SelectorClaims
  <2>4. output' \in [Outputs -> Cohort!Output \cup {None}] /\ SelectorPart'
    BY <2>1, <2>2, <2>3, Wrote DEF Opening
  <2> QED
    BY <1>0, <2>1, <2>4
<1>7. CASE Cohort!Audit(s)
  <2>1. run[s].at = "selected" /\ UNCHANGED <<selecting, held>>
    BY <1>7 DEF Cohort!Audit
  <2>2. CASE Cohort!Write(s, "evaluating", {"audit"}) /\ Cohort!Goto(s, "audited")
    <3>1. "evaluating" \in Cohort!States \ {"error"} /\ {"audit"} \in SUBSET Records
          /\ FilesAt["audited"] = FilesAt["selected"] \cup {"audit"}
      BY DEF Cohort!States, FilesAt, Creating, Opening, Records
    <3>2. run[s].at \in Creating /\ run[s].at \in Opening
          /\ held.times = 1 /\ held.of = run[s].choice
      BY <1>0, <2>1 DEF Creating, Opening, SelectorClaims
    <3>3. output' \in [Outputs -> Cohort!Output \cup {None}] /\ SelectorPart'
      BY <2>1, <2>2, <3>1, <3>2, Wrote DEF Opening
    <3> QED
      BY <1>0, <2>1, <3>3
  <2>3. CASE Cohort!Goto(s, "failing") /\ UNCHANGED output
    BY <1>0, <2>1, <2>3, Raised DEF Stopping
  <2> QED
    BY <1>7, <2>2, <2>3 DEF Cohort!Audit, Cohort!Raise
<1>8. CASE Cohort!MarkComplete(s)
  <2>1. /\ run[s].at = "audited" /\ Cohort!Write(s, "complete", {})
        /\ Cohort!Goto(s, "completed") /\ UNCHANGED <<selecting, held>>
    BY <1>8 DEF Cohort!MarkComplete
  <2>2. "complete" \in Cohort!States \ {"error"} /\ {} \in SUBSET Records
        /\ FilesAt["completed"] = FilesAt["audited"] \cup {}
    BY DEF Cohort!States, FilesAt, Creating, Opening, Records
  <2>3. run[s].at \in Creating /\ run[s].at \in Opening
        /\ held.times = 1 /\ held.of = run[s].choice
    BY <1>0, <2>1 DEF Creating, Opening, SelectorClaims
  <2>4. output' \in [Outputs -> Cohort!Output \cup {None}] /\ SelectorPart'
    BY <2>1, <2>2, <2>3, Wrote DEF Opening
  <2> QED
    BY <1>0, <2>1, <2>4
<1>9. CASE Cohort!Return(s)
  <2>1. run[s].at = "completed" /\ Cohort!Goto(s, "ended") /\ UNCHANGED <<selecting, output, held>>
    BY <1>9 DEF Cohort!Return
  <2> QED
    BY <1>0, <2>1, Raised DEF Stopping
<1>10. CASE Cohort!MarkFailed(s)
  BY <1>0, <1>10, Failed
<1> QED
  BY <1>0, <1>1, <1>2, <1>3, <1>4, <1>5, <1>6, <1>7, <1>8, <1>9, <1>10 DEF Cohort!Selector

(* The machine goes down: what a claim loses, it had not flushed.          *)
LEMMA Survives ==
    ASSUME NEW held1, NEW held2, held1 \in Cohort!Claim \cup {None}, None \notin Cohort!Claim,
           held2 \in Cohort!Surviving(held1)
    PROVE  /\ held2 \in Cohort!Claim \cup {None}
           /\ held2 # None => held1 # None /\ held2.by = held1.by /\ held2.of = held1.of
           /\ held1 # None /\ held1.durable => held2 = held1
BY DEF Cohort!Surviving, Cohort!Claim

(* The invariant survives the loss of power in any state.                  *)
LEMMA PowerLost ==
    ASSUME Cohort!CohortAssumption, CohortInv, Cohort!PowerLoss
    PROVE  CohortInv'
<1>1. /\ run \in [Authors \cup Selectors -> Cohort!Run]
      /\ authoring \in Cohort!Claim \cup {None} /\ selecting \in Cohort!Claim \cup {None}
      /\ SeedsSettled /\ HeldOutSettled
      /\ \A s \in Selectors : SelectorClaims(s)
      /\ \A q \in Outputs : DirectoryOf(q)
      /\ output \in [Outputs -> Cohort!Output \cup {None}]
  BY DEF CohortInv, AuthorPart, SelectorPart, Cohort!TypeOK, Cohort!Runs
<1>2. /\ authoring' \in Cohort!Surviving(authoring) /\ selecting' \in Cohort!Surviving(selecting)
      /\ UNCHANGED <<cohort, output, seen, held>>
  BY DEF Cohort!PowerLoss
<1>3. /\ authoring' \in Cohort!Claim \cup {None} /\ selecting' \in Cohort!Claim \cup {None}
      /\ selecting' # None => selecting # None /\ selecting'.by = selecting.by
      /\ authoring # None /\ authoring.durable => authoring' = authoring
      /\ selecting # None /\ selecting.durable => selecting' = selecting
  BY <1>1, <1>2, Survives DEF Cohort!CohortAssumption
<1>4. /\ run' \in [Authors \cup Selectors -> Cohort!Run]
      /\ \A r \in Authors \cup Selectors :
            /\ run'[r].created = run[r].created /\ run'[r].claimed = run[r].claimed
            /\ run'[r].choice = run[r].choice /\ run'[r].dir = run[r].dir
            /\ \/ run[r].at = "idle" /\ run'[r].at = "idle"
               \/ run[r].at # "idle" /\ run'[r].at = "ended"
  <2>1. run' = [r \in Authors \cup Selectors |->
                  IF run[r].at = "idle" THEN run[r] ELSE [run[r] EXCEPT !.at = "ended"]]
    BY DEF Cohort!PowerLoss, Cohort!Runs, Cohort!At
  <2>2. ASSUME NEW r \in Authors \cup Selectors
        PROVE  /\ run'[r] \in Cohort!Run
               /\ run'[r].created = run[r].created /\ run'[r].claimed = run[r].claimed
               /\ run'[r].choice = run[r].choice /\ run'[r].dir = run[r].dir
               /\ \/ run[r].at = "idle" /\ run'[r].at = "idle"
                  \/ run[r].at # "idle" /\ run'[r].at = "ended"
    <3>1. run[r] \in Cohort!Run
      BY <1>1
    <3> QED
      BY <2>1, <3>1 DEF Cohort!Run
  <2> QED
    BY <2>1, <2>2
<1>5. Cohort!TypeOK'
  BY <1>2, <1>3, <1>4 DEF CohortInv, Cohort!TypeOK, Cohort!Runs
<1>6. AuthorPart'
  <2>1. \A a \in Authors : AuthorClaims(a)'
    BY <1>4 DEF AuthorClaims
  <2>2. SeedsSettled'
    BY <1>1, <1>2, <1>3 DEF SeedsSettled
  <2> QED
    BY <2>1, <2>2 DEF AuthorPart
<1>7. SelectorPart'
  <2>1. ASSUME NEW s \in Selectors PROVE SelectorClaims(s)'
    <3>1. SelectorClaims(s) /\ run'[s].at \in {"idle", "ended"}
      BY <1>1, <1>4
    <3> QED
      BY <1>2, <1>4, <3>1 DEF SelectorClaims, Creating, Opening, Claiming
  <2>2. HeldOutSettled'
    BY <1>1, <1>2, <1>3, <1>4 DEF HeldOutSettled
  <2>3. ASSUME NEW q \in Outputs PROVE DirectoryOf(q)'
    <3>1. CASE output[q] = None
      BY <1>2, <3>1 DEF DirectoryOf
    <3>2. CASE output[q] # None
      <4>1. output[q].of \in Authors \cup Selectors /\ output' = output /\ held' = held
        BY <1>1, <1>2, <3>2 DEF Cohort!Output
      <4>2. output[q].files # {} => selecting' = selecting
        BY <1>1, <1>3, <3>2 DEF DirectoryOf, HeldOutSettled
      <4>3. DirectoryOf(q)
        BY <1>1
      <4> QED
        BY <1>4, <3>2, <4>1, <4>2, <4>3 DEF DirectoryOf
    <3> QED
      BY <3>1, <3>2
  <2> QED
    BY <2>1, <2>2, <2>3 DEF SelectorPart
<1> QED
  BY <1>5, <1>6, <1>7 DEF CohortInv

(* The invariant survives an exception, a failed claim and a kill.         *)
LEMMA GoneWrong ==
    ASSUME Cohort!CohortAssumption, CohortInv, NEW r \in Authors \cup Selectors,
           Cohort!Fails(r) \/ Cohort!FailsClaiming(r) \/ Cohort!Kill(r)
    PROVE  CohortInv'
<1> USE DEF Cohort!Goto, Cohort!Raise, Cohort!Runs
<1>1. run \in [Authors \cup Selectors -> Cohort!Run] /\ run[r] \in Cohort!Run
  BY DEF CohortInv, Cohort!TypeOK
<1>2. /\ run' \in [Authors \cup Selectors -> Cohort!Run]
      /\ run'[r].created = run[r].created /\ run'[r].claimed = run[r].claimed
      /\ run'[r].choice = run[r].choice /\ run'[r].dir = run[r].dir
      /\ run[r].at # "ended" /\ run'[r].at \in Stopping
      /\ r \in Authors => run'[r].at = "ended"
      /\ \A k \in Authors \cup Selectors : k # r => run'[k] = run[k]
      /\ UNCHANGED <<cohort, output, seen, held>>
  BY <1>1 DEF Cohort!Fails, Cohort!FailsClaiming, Cohort!Kill, Cohort!Run, Stopping,
         Cohort!CohortAssumption
<1>3. CASE ~ Cohort!FailsClaiming(r)
  <2>1. UNCHANGED <<authoring, selecting>>
    BY <1>3 DEF Cohort!Fails, Cohort!Kill
  <2>2. AuthorPart'
    <3>1. \A a \in Authors : run'[a] = run[a] \/ run'[a].at = "ended"
      BY <1>2
    <3> QED
      BY <1>2, <2>1, <3>1, AuthorKept DEF CohortInv
  <2>3. SelectorPart'
    BY <1>2, <2>1, SelectorKept DEF CohortInv
  <2> QED
    BY <1>2, <2>1, <2>2, <2>3 DEF CohortInv, Cohort!TypeOK
<1>4. CASE Cohort!FailsClaiming(r) /\ r \in Authors
  <2>1. /\ run[r].at \in {"writing", "flushing"} /\ selecting' = selecting
        /\ authoring' = [authoring EXCEPT !.durable = TRUE]
    BY <1>4 DEF Cohort!FailsClaiming
  <2>2. authoring # None /\ authoring \in Cohort!Claim /\ authoring.by = r /\ seen.times = 0
    BY <1>4, <2>1 DEF CohortInv, AuthorPart, AuthorClaims, Cohort!TypeOK
  <2>3. authoring' \in Cohort!Claim
    BY <2>1, <2>2 DEF Cohort!Claim
  <2>4. AuthorPart'
    <3>1. ASSUME NEW a \in Authors, a # r PROVE AuthorClaims(a)'
      <4>1. AuthorClaims(a) /\ run'[a] = run[a]
        BY <1>2, <3>1 DEF CohortInv, AuthorPart
      <4> QED
        BY <1>2, <2>2, <3>1, <4>1 DEF AuthorClaims
    <3>2. r \in Authors => AuthorClaims(r)'
      BY <1>2 DEF AuthorClaims
    <3>3. SeedsSettled'
      BY <1>2, <2>2 DEF CohortInv, AuthorPart, SeedsSettled
    <3> QED
      BY <3>1, <3>2, <3>3 DEF AuthorPart
  <2>5. SelectorPart'
    BY <1>2, <2>1, SelectorKept DEF CohortInv
  <2> QED
    BY <1>2, <2>1, <2>3, <2>4, <2>5 DEF CohortInv, Cohort!TypeOK
<1>5. CASE Cohort!FailsClaiming(r) /\ r \notin Authors
  <2>1. /\ run[r].at \in {"writing", "flushing"} /\ authoring' = authoring
        /\ selecting' = [selecting EXCEPT !.durable = TRUE] /\ r \in Selectors
    BY <1>5 DEF Cohort!FailsClaiming
  <2>2. /\ selecting # None /\ selecting \in Cohort!Claim /\ selecting.by = r /\ held.times = 0
        /\ run[r].claimed
    BY <2>1, SelectorFacts DEF SelectorClaims, Claiming
  <2>3. selecting' \in Cohort!Claim /\ selecting'.by = r /\ selecting' # None
    <3>1. selecting' \in Cohort!Claim /\ selecting'.by = r
      BY <2>1, <2>2 DEF Cohort!Claim
    <3> QED
      BY <3>1 DEF Cohort!CohortAssumption
  <2>4. AuthorPart'
    <3>1. \A a \in Authors : run'[a] = run[a]
      BY <1>2, <1>5
    <3> QED
      BY <1>2, <2>1, <3>1, AuthorKept DEF CohortInv
  <2>5. SelectorClaims(r)'
    <3>1. SelectorClaims(r)
      BY <2>1, SelectorFacts
    <3> QED
      BY <1>2, <3>1 DEF SelectorClaims, Stopping, Opening, Claiming, Creating
  <2>6. HeldOutSettled'
    BY <1>2, <2>1, <2>2, <2>3, SelectorFacts DEF HeldOutSettled
  <2>7. ASSUME NEW q \in Outputs, output'[q] # None, output'[q].of = r PROVE DirectoryOf(q)'
    <3>1. DirectoryOf(q) /\ output'[q] = output[q]
      BY <1>2, <2>1, SelectorFacts
    <3>2. output[q].files = {} /\ output[q].state # "error"
      BY <1>2, <2>2, <2>7, <3>1 DEF DirectoryOf
    <3> QED
      BY <1>2, <2>7, <3>1, <3>2 DEF DirectoryOf
  <2>8. SelectorPart'
    BY <1>2, <2>1, <2>2, <2>3, <2>5, <2>6, <2>7, SelectorAlone
  <2> QED
    BY <1>2, <2>1, <2>3, <2>4, <2>8 DEF CohortInv, Cohort!TypeOK
<1> QED
  BY <1>3, <1>4, <1>5

(* Every step of every run keeps the invariant.                            *)
LEMMA CohortStep ==
    ASSUME Cohort!CohortAssumption, CohortInv, [Cohort!Next]_cohortVars
    PROVE  CohortInv'
<1>1. ASSUME NEW a \in Authors, Cohort!Author(a) PROVE CohortInv'
  <2>1. SelectorPart'
    <3>1. /\ UNCHANGED <<selecting, output, held>>
          /\ \A r \in Authors \cup Selectors : r # a => run'[r] = run[r]
      BY <1>1, AuthoringRunSteps
    <3>2. \A s \in Selectors : run'[s] = run[s]
      BY <3>1 DEF Cohort!CohortAssumption
    <3> QED
      BY <3>1, <3>2, SelectorKept DEF CohortInv
  <2> QED
    BY <1>1, <2>1, AuthoringRunSteps DEF CohortInv, Cohort!TypeOK, Cohort!Runs
<1>2. ASSUME NEW s \in Selectors, Cohort!Selector(s) PROVE CohortInv'
  <2>1. AuthorPart'
    <3>1. /\ UNCHANGED <<authoring, cohort, seen>>
          /\ \A r \in Authors \cup Selectors : r # s => run'[r] = run[r]
      BY <1>2, SelectorTypes
    <3>2. \A a \in Authors : run'[a] = run[a]
      BY <3>1 DEF Cohort!CohortAssumption
    <3> QED
      BY <3>1, <3>2, AuthorKept DEF CohortInv
  <2> QED
    BY <1>2, <2>1, SelectorTypes, SelectionRunSteps DEF CohortInv, Cohort!TypeOK, Cohort!Runs
<1>3. CASE UNCHANGED cohortVars
  BY <1>3 DEF cohortVars, CohortInv, AuthorPart, SelectorPart, AuthorClaims, SeedsSettled,
              SelectorClaims,
         HeldOutSettled, DirectoryOf, Cohort!TypeOK
<1> QED
  BY <1>1, <1>2, <1>3, PowerLost, GoneWrong DEF Cohort!Next, Cohort!Runs

(* The invariant holds before any run began.                               *)
LEMMA CohortBegins ==
    ASSUME Cohort!CohortAssumption, Cohort!Init
    PROVE  CohortInv
<1>1. Cohort!TypeOK
  BY DEF Cohort!Init, Cohort!TypeOK, Cohort!Never, Cohort!Idle, Cohort!Run
<1>2. AuthorPart
  BY DEF Cohort!Init, AuthorPart, SeedsSettled, AuthorClaims, Cohort!Never, Cohort!Idle,
         Cohort!Runs
<1>3. SelectorPart
  BY DEF Cohort!Init, SelectorPart, SelectorClaims, HeldOutSettled, DirectoryOf, Cohort!Never,
         Cohort!Idle, Cohort!Runs, Claiming, Opening, Creating
<1> QED
  BY <1>1, <1>2, <1>3 DEF CohortInv

(* Claims, files and openings of the validation cohort agree, whatever     *)
(* number of runs there are, wherever they fail and whenever the machine   *)
(* goes down (grasp_lift_validation_cohort.py, _claim.py).                 *)
THEOREM CohortInvariant ==
    ASSUME Cohort!CohortAssumption PROVE MCSpec => []CohortInv
<1>1. MCInit => CohortInv
  BY CohortBegins DEF MCInit
<1>2. CohortInv /\ [MCNext]_<<part, vars, cohortVars>> => CohortInv'
  <2> SUFFICES ASSUME CohortInv, [MCNext]_<<part, vars, cohortVars>> PROVE CohortInv'
    OBVIOUS
  <2>1. [Cohort!Next]_cohortVars
    BY DEF MCNext
  <2> QED
    BY <2>1, CohortStep
<1> QED
  BY <1>1, <1>2, PTL DEF MCSpec

(* A claim is settled when it is written and flushed, or when it survives. *)
LEMMA Settles ==
    ASSUME NEW one, NEW two, None \notin Cohort!Claim, None \notin Choices,
           one \in Cohort!Claim \cup {None}, two \in Cohort!Claim \cup {None},
           one # None /\ one.whole /\ one.durable => two # None /\ two.whole /\ two.durable,
           one # None /\ two # None => two.of = one.of
    PROVE  \/ Cohort!Settled(two) = Cohort!Settled(one)
           \/ Cohort!Settled(one) = None /\ Cohort!Settled(two) \in Choices
BY DEF Cohort!Settled, Cohort!Claim

(* Every step of authoring claims, simulates or publishes, once, or        *)
(* stutters.                                                               *)
LEMMA AuthoredSteps ==
    ASSUME Cohort!CohortAssumption, CohortInv, CohortInv', [Cohort!Next]_cohortVars
    PROVE  [Cohort!Authored!Next]_(Cohort!Authored!vars)
<1> DEFINE S == Cohort!Settled(authoring)
<1>0. authoring \in Cohort!Claim \cup {None} /\ authoring' \in Cohort!Claim \cup {None}
  BY DEF CohortInv, Cohort!TypeOK
<1>1. ASSUME UNCHANGED <<seen, cohort>>,
             authoring # None /\ authoring.whole /\ authoring.durable =>
                authoring' # None /\ authoring'.whole /\ authoring'.durable,
             authoring # None /\ authoring' # None => authoring'.of = authoring.of
      PROVE  [Cohort!Authored!Next]_(Cohort!Authored!vars)
  <2>1. S' = S \/ (S = None /\ S' \in Choices)
    BY <1>0, <1>1, Settles DEF Cohort!CohortAssumption
  <2>2. CASE S' = S
    BY <1>1, <2>2 DEF Cohort!Authored!vars
  <2>3. CASE S = None /\ S' \in Choices
    BY <1>1, <2>3 DEF Cohort!Authored!Next, Cohort!Authored!Claim
  <2> QED
    BY <2>1, <2>2, <2>3
<1>2. ASSUME NEW a \in Authors, Cohort!SimulateSeeds(a)
      PROVE  [Cohort!Authored!Next]_(Cohort!Authored!vars)
  <2>1. /\ run[a].at = "claimed" /\ UNCHANGED <<authoring, cohort>>
        /\ seen' = Cohort!Again(seen, run[a].choice)
    BY <1>2 DEF Cohort!SimulateSeeds, Cohort!At
  <2>2. /\ authoring # None /\ authoring.whole /\ authoring.durable
        /\ authoring.of = run[a].choice /\ seen.times = 0
    BY <2>1 DEF CohortInv, AuthorPart, AuthorClaims
  <2>3. S = run[a].choice /\ S # None /\ S' = S
    BY <1>0, <2>1, <2>2 DEF Cohort!Settled, Cohort!Claim, Cohort!CohortAssumption
  <2>4. seen'.times = 1 /\ seen'.of = run[a].choice
    BY <2>1, <2>2 DEF Cohort!Again
  <2> QED
    BY <2>1, <2>2, <2>3, <2>4 DEF Cohort!Authored!Next, Cohort!Authored!Open
<1>3. ASSUME NEW a \in Authors, Cohort!PublishCohort(a)
      PROVE  [Cohort!Authored!Next]_(Cohort!Authored!vars)
  <2>1. /\ run[a].at = "authored" /\ UNCHANGED <<authoring, seen>> /\ cohort' = run[a].choice
    BY <1>3 DEF Cohort!PublishCohort, Cohort!At
  <2>2. seen.times = 1 /\ seen.of = run[a].choice /\ cohort = None
    BY <2>1 DEF CohortInv, AuthorPart, AuthorClaims
  <2> QED
    BY <2>1, <2>2 DEF Cohort!Authored!Next, Cohort!Authored!Leave
<1>4. ASSUME NEW a \in Authors, Cohort!Author(a), ~Cohort!SimulateSeeds(a), ~Cohort!PublishCohort(a)
      PROVE  [Cohort!Authored!Next]_(Cohort!Authored!vars)
  <2>1. UNCHANGED <<seen, cohort>>
    BY <1>4 DEF Cohort!Author, Cohort!ClaimSeeds, Cohort!RefuseTarget, Cohort!WriteSeedClaim,
           Cohort!FlushSeedClaim
  <2>2. \/ authoring' = authoring \/ authoring = None
        \/ authoring' = [authoring EXCEPT !.whole = TRUE]
        \/ authoring' = [authoring EXCEPT !.durable = TRUE]
    BY <1>4 DEF Cohort!Author, Cohort!ClaimSeeds, Cohort!RefuseTarget, Cohort!WriteSeedClaim,
           Cohort!FlushSeedClaim
  <2>3. CASE authoring' = authoring \/ authoring = None
    BY <1>1, <2>1, <2>3
  <2>4. CASE authoring # None /\ \/ authoring' = [authoring EXCEPT !.whole = TRUE]
                                 \/ authoring' = [authoring EXCEPT !.durable = TRUE]
    <3>1. authoring' \in Cohort!Claim /\ authoring'.of = authoring.of
          /\ (authoring.whole /\ authoring.durable => authoring'.whole /\ authoring'.durable)
      BY <1>0, <2>4 DEF Cohort!Claim
    <3> QED
      BY <1>1, <2>1, <3>1 DEF Cohort!CohortAssumption
  <2> QED
    BY <2>2, <2>3, <2>4
<1>5. CASE Cohort!PowerLoss
  <2>1. UNCHANGED <<seen, cohort>> /\ authoring' \in Cohort!Surviving(authoring)
    BY <1>5 DEF Cohort!PowerLoss
  <2> QED
    BY <1>0, <1>1, <2>1, Survives DEF Cohort!CohortAssumption
<1>6. ASSUME NEW s \in Selectors, Cohort!Selector(s)
      PROVE  [Cohort!Authored!Next]_(Cohort!Authored!vars)
  BY <1>1, <1>6, SelectorTypes
<1>7. ASSUME NEW r \in Authors \cup Selectors,
             Cohort!Fails(r) \/ Cohort!FailsClaiming(r) \/ Cohort!Kill(r)
      PROVE  [Cohort!Authored!Next]_(Cohort!Authored!vars)
  <2>1. UNCHANGED <<seen, cohort>>
    BY <1>7 DEF Cohort!Fails, Cohort!FailsClaiming, Cohort!Kill
  <2>2. CASE authoring' = authoring
    BY <1>1, <2>1, <2>2
  <2>3. CASE authoring' # authoring
    <3>1. /\ r \in Authors /\ run[r].at \in {"writing", "flushing"}
          /\ authoring' = [authoring EXCEPT !.durable = TRUE]
      BY <1>7, <2>3 DEF Cohort!Fails, Cohort!FailsClaiming, Cohort!Kill
    <3>2. authoring # None
      BY <3>1 DEF CohortInv, AuthorPart, AuthorClaims
    <3>3. authoring' \in Cohort!Claim /\ authoring'.of = authoring.of
          /\ (authoring.whole /\ authoring.durable => authoring'.whole /\ authoring'.durable)
      BY <1>0, <3>1, <3>2 DEF Cohort!Claim
    <3> QED
      BY <1>1, <2>1, <3>3 DEF Cohort!CohortAssumption
  <2> QED
    BY <2>2, <2>3
<1>8. CASE UNCHANGED cohortVars
  BY <1>1, <1>8 DEF cohortVars
<1> QED
  BY <1>2, <1>3, <1>4, <1>5, <1>6, <1>7, <1>8 DEF Cohort!Next, Cohort!Runs

(* The selection that is on disk is of what was opened.                    *)
Selected(p) == output[p] # None /\ "selection" \in output[p].files

SelectionIsKnown == Cohort!Selection = IF \E p \in Outputs : Selected(p) THEN held.of ELSE None

(* What a selection on disk names is what the shards were opened for.      *)
LEMMA SelectionIsOfTheOpening == CohortInv => SelectionIsKnown
<1> SUFFICES ASSUME CohortInv PROVE SelectionIsKnown
  OBVIOUS
<1> DEFINE P == {p \in Outputs : output[p] # None /\ "selection" \in output[p].files}
<1>1. CASE P = {}
  BY <1>1 DEF SelectionIsKnown, Cohort!Selection, Selected
<1>2. CASE P # {}
  <2> DEFINE p == CHOOSE q \in P : TRUE
  <2>1. p \in P
    BY <1>2
  <2>2. run[output[p].of].choice = held.of
    BY <2>1 DEF CohortInv, SelectorPart, DirectoryOf
  <2>3. Cohort!Selection = run[output[p].of].choice
    BY <1>2 DEF Cohort!Selection
  <2> QED
    BY <2>1, <2>2, <2>3 DEF SelectionIsKnown, Selected
<1> QED
  BY <1>1, <1>2

(* The same after a step.                                                  *)
LEMMA SelectionIsOfTheOpeningNext == CohortInv' => SelectionIsKnown'
BY SelectionIsOfTheOpening, PTL

OpenedMoves == [Cohort!Opened!Next]_(Cohort!Opened!vars)

(* Every step of selecting claims, opens or leaves a result, once, or      *)
(* stutters.                                                               *)
LEMMA OpenedSteps ==
    ASSUME Cohort!CohortAssumption, CohortInv, CohortInv', [Cohort!Next]_cohortVars
    PROVE  OpenedMoves
<1> DEFINE S == Cohort!Settled(selecting)
           R == Cohort!Selection
<1>0. /\ selecting \in Cohort!Claim \cup {None} /\ selecting' \in Cohort!Claim \cup {None}
      /\ R = IF \E p \in Outputs : Selected(p) THEN held.of ELSE None
      /\ R' = IF \E p \in Outputs : Selected(p)' THEN held'.of ELSE None
  BY SelectionIsOfTheOpening, SelectionIsOfTheOpeningNext DEF CohortInv, Cohort!TypeOK,
                                                              SelectionIsKnown
<1> HIDE DEF S, R
<1>1. ASSUME UNCHANGED held, \A p \in Outputs : Selected(p)' <=> Selected(p),
             selecting # None /\ selecting.whole /\ selecting.durable =>
                selecting' # None /\ selecting'.whole /\ selecting'.durable,
             selecting # None /\ selecting' # None => selecting'.of = selecting.of
      PROVE  OpenedMoves
  <2>0. R' = R
    BY <1>0, <1>1
  <2>1. S' = S \/ (S = None /\ S' \in Choices)
    BY <1>0, <1>1, Settles DEF Cohort!CohortAssumption, S
  <2>2. CASE S' = S
    BY <1>1, <2>0, <2>2 DEF OpenedMoves, Cohort!Opened!vars, S, R
  <2>3. CASE S = None /\ S' \in Choices
    BY <1>1, <2>0, <2>3 DEF OpenedMoves, Cohort!Opened!Next, Cohort!Opened!Claim, S, R
  <2> QED
    BY <2>1, <2>2, <2>3
<1>2. ASSUME NEW a \in Authors, Cohort!Author(a) PROVE OpenedMoves
  <2>1. UNCHANGED <<selecting, output, held>>
    BY <1>2, AuthoringRunSteps
  <2> QED
    BY <1>1, <2>1 DEF Selected
<1>3. CASE Cohort!PowerLoss
  <2>1. UNCHANGED <<output, held>> /\ selecting' \in Cohort!Surviving(selecting)
    BY <1>3 DEF Cohort!PowerLoss
  <2> QED
    BY <1>0, <1>1, <2>1, Survives DEF Cohort!CohortAssumption, Selected
<1>4. ASSUME NEW r \in Authors \cup Selectors,
             Cohort!Fails(r) \/ Cohort!FailsClaiming(r) \/ Cohort!Kill(r)
      PROVE  OpenedMoves
  <2>1. UNCHANGED <<output, held>>
    BY <1>4 DEF Cohort!Fails, Cohort!FailsClaiming, Cohort!Kill
  <2>2. CASE selecting' = selecting
    BY <1>1, <2>1, <2>2 DEF Selected
  <2>3. CASE selecting' # selecting
    <3>1. /\ r \in Selectors /\ run[r].at \in {"writing", "flushing"}
          /\ selecting' = [selecting EXCEPT !.durable = TRUE]
      BY <1>4, <2>3 DEF Cohort!Fails, Cohort!FailsClaiming, Cohort!Kill
    <3>2. selecting # None
      BY <3>1, SelectorFacts DEF SelectorClaims, Claiming
    <3>3. selecting' \in Cohort!Claim /\ selecting'.of = selecting.of
          /\ (selecting.whole /\ selecting.durable => selecting'.whole /\ selecting'.durable)
      BY <1>0, <3>1, <3>2 DEF Cohort!Claim
    <3> QED
      BY <1>1, <2>1, <3>3 DEF Cohort!CohortAssumption, Selected
  <2> QED
    BY <2>2, <2>3
<1>5. CASE UNCHANGED cohortVars
  BY <1>1, <1>5 DEF cohortVars, Selected
<1>6. ASSUME NEW s \in Selectors,
             \/ Cohort!ClaimHeldOut(s) \/ Cohort!WriteHeldOutClaim(s) \/ Cohort!FlushHeldOutClaim(s)
      PROVE  OpenedMoves
  <2>1. UNCHANGED <<output, held>>
    BY <1>6 DEF Cohort!ClaimHeldOut, Cohort!WriteHeldOutClaim, Cohort!FlushHeldOutClaim
  <2>2. \/ selecting' = selecting \/ selecting = None
        \/ selecting' = [selecting EXCEPT !.whole = TRUE]
        \/ selecting' = [selecting EXCEPT !.durable = TRUE]
    BY <1>6 DEF Cohort!ClaimHeldOut, Cohort!WriteHeldOutClaim, Cohort!FlushHeldOutClaim
  <2>3. CASE selecting' = selecting \/ selecting = None
    BY <1>1, <2>1, <2>3 DEF Selected
  <2>4. CASE selecting # None /\ \/ selecting' = [selecting EXCEPT !.whole = TRUE]
                                 \/ selecting' = [selecting EXCEPT !.durable = TRUE]
    <3>1. selecting' \in Cohort!Claim /\ selecting'.of = selecting.of
          /\ (selecting.whole /\ selecting.durable => selecting'.whole /\ selecting'.durable)
      BY <1>0, <2>4 DEF Cohort!Claim
    <3> QED
      BY <1>1, <2>1, <3>1 DEF Cohort!CohortAssumption, Selected
  <2> QED
    BY <2>2, <2>3, <2>4
<1>7. ASSUME NEW s \in Selectors, run[s].created,
             NEW state \in Cohort!States, NEW files \in SUBSET Records, "selection" \notin files,
             Cohort!Write(s, state, files), UNCHANGED <<selecting, held>>
      PROVE  OpenedMoves
  <2>1. ASSUME NEW p \in Outputs PROVE Selected(p)' <=> Selected(p)
    <3>1. CASE p = run[s].dir
      <4>1. output[p] # None
        BY <1>7, <3>1, SelectorFacts DEF SelectorClaims
      <4>2. output'[p] # None /\ output'[p].files = output[p].files \cup files
        BY <1>7, <3>1, WriteFacts
      <4> QED
        BY <1>7, <4>1, <4>2 DEF Selected
    <3>2. CASE p # run[s].dir
      BY <1>7, <3>2, WriteFacts DEF Selected
    <3> QED
      BY <3>1, <3>2
  <2> QED
    BY <1>1, <1>7, <2>1
<1>8. ASSUME NEW s \in Selectors,
             \/ Cohort!WritePreflight(s) \/ Cohort!MarkComplete(s)
             \/ (Cohort!Audit(s) /\ output' # output)
             \/ (Cohort!MarkFailed(s) /\ run[s].created)
      PROVE  OpenedMoves
  <2>1. UNCHANGED <<selecting, held>>
    BY <1>8 DEF Cohort!WritePreflight, Cohort!MarkComplete, Cohort!Audit, Cohort!MarkFailed
  <2>2. \E state \in Cohort!States, files \in SUBSET Records :
           "selection" \notin files /\ Cohort!Write(s, state, files)
    <3>1. /\ {} \in SUBSET Records /\ {"audit"} \in SUBSET Records
          /\ {"preflight_complete", "complete", "evaluating", "burned", "error"} \subseteq Cohort!States
      BY DEF Records, Cohort!States
    <3> QED
      BY <1>8, <3>1 DEF Cohort!WritePreflight, Cohort!MarkComplete, Cohort!Audit,
                        Cohort!MarkFailed
  <2>3. run[s].created
    <3>1. CASE run[s].at \in {"created", "audited", "selected"}
      BY <3>1, SelectorFacts DEF SelectorClaims, Creating, Opening
    <3> QED
      BY <1>8, <3>1
      DEF Cohort!WritePreflight, Cohort!MarkComplete, Cohort!Audit, Cohort!MarkFailed, Cohort!At
  <2> QED
    BY <1>7, <2>1, <2>2, <2>3
<1>9. ASSUME NEW s \in Selectors,
             \/ \E c \in Choices, p \in Outputs : Cohort!Prepare(s, c, p)
             \/ Cohort!Return(s)
             \/ (Cohort!Audit(s) /\ output' = output)
             \/ (Cohort!MarkFailed(s) /\ ~run[s].created)
      PROVE  OpenedMoves
  <2>1. UNCHANGED <<selecting, output, held>>
    BY <1>9 DEF Cohort!Prepare, Cohort!Return, Cohort!Audit, Cohort!MarkFailed
  <2> QED
    BY <1>1, <2>1 DEF Selected
<1>10. ASSUME NEW s \in Selectors, Cohort!Create(s)
      PROVE  OpenedMoves
  <2>1. UNCHANGED <<selecting, held>> /\ output \in [Outputs -> Cohort!Output \cup {None}]
        /\ \/ output' = output
           \/ /\ output[run[s].dir] = None
              /\ output' = [output EXCEPT ![run[s].dir] =
                               [of |-> s, state |-> "initialized", files |-> {}]]
    BY <1>10, SelectorFacts DEF Cohort!Create
  <2>2. ASSUME NEW p \in Outputs PROVE Selected(p)' <=> Selected(p)
    BY <2>1 DEF Selected
  <2> QED
    BY <1>1, <2>1, <2>2
<1>11. ASSUME NEW s \in Selectors, Cohort!OpenHeldOut(s)
      PROVE  OpenedMoves
  <2>1. run[s].at = "claimed" /\ UNCHANGED selecting
    BY <1>11 DEF Cohort!OpenHeldOut, Cohort!At
  <2>2. /\ selecting # None /\ selecting.whole /\ selecting.durable
        /\ selecting.of = run[s].choice /\ held.times = 0 /\ run[s].created
    BY <2>1, SelectorFacts DEF SelectorClaims, Claiming, Creating
  <2>3. Cohort!Write(s, "claimed", {"claim"}) /\ held' = Cohort!Again(held, run[s].choice)
    BY <1>11, <2>2 DEF Cohort!OpenHeldOut, Cohort!Holds
  <2>4. S = run[s].choice /\ S # None /\ S' = S
    BY <1>0, <2>1, <2>2 DEF Cohort!Settled, Cohort!Claim, Cohort!CohortAssumption, S
  <2>5. held'.times = 1 /\ held'.of = run[s].choice
    BY <2>2, <2>3 DEF Cohort!Again
  <2>6. \A p \in Outputs : ~Selected(p)
    BY <2>2 DEF Selected, CohortInv, SelectorPart, DirectoryOf
  <2>7. \A p \in Outputs : ~Selected(p)'
    <3>1. "claimed" \in Cohort!States /\ {"claim"} \in SUBSET Records
      BY DEF Cohort!States, Records
    <3>2. /\ output'[run[s].dir].files = output[run[s].dir].files \cup {"claim"}
          /\ run[s].dir \in Outputs
          /\ \A q \in Outputs : q # run[s].dir => output'[q] = output[q]
      BY <2>2, <2>3, <3>1, WriteFacts
    <3>3. output[run[s].dir] # None
      BY <2>2, SelectorFacts DEF SelectorClaims
    <3> QED
      BY <2>6, <3>2, <3>3 DEF Selected
  <2>8. R = None /\ R' = None
    BY <1>0, <2>6, <2>7
  <2> QED
    BY <2>2, <2>4, <2>5, <2>8 DEF OpenedMoves, Cohort!Opened!Next, Cohort!Opened!Open, S, R
<1>12. ASSUME NEW s \in Selectors, Cohort!Select(s)
      PROVE  OpenedMoves
  <2>1. /\ run[s].at = "opened" /\ UNCHANGED <<selecting, held>>
        /\ Cohort!Write(s, "evaluating", {"selection"})
    BY <1>12 DEF Cohort!Select, Cohort!At
  <2>2. /\ held.times = 1 /\ run[s].created /\ output[run[s].dir].files = {"claim"}
        /\ selecting # None /\ selecting.by = s
    BY <2>1, SelectorFacts DEF SelectorClaims, Creating, Opening, Claiming, FilesAt
  <2>3. \A p \in Outputs : ~Selected(p)
    <3>1. ASSUME NEW p \in Outputs, Selected(p) PROVE FALSE
      <4>1. output[p] # None /\ output[p].of = s
        BY <2>2, <3>1 DEF Selected, CohortInv, SelectorPart, DirectoryOf
      <4>2. p = run[s].dir
        BY <4>1, SelectorFacts
      <4> QED
        BY <2>2, <3>1, <4>2 DEF Selected
    <3> QED
      BY <3>1
  <2>4. \E p \in Outputs : Selected(p)'
    <3>1. "evaluating" \in Cohort!States /\ {"selection"} \in SUBSET Records
      BY DEF Cohort!States, Records
    <3>2. /\ output'[run[s].dir].files = output[run[s].dir].files \cup {"selection"}
          /\ run[s].dir \in Outputs /\ output'[run[s].dir] # None
      BY <2>1, <2>2, <3>1, WriteFacts
    <3> QED
      BY <3>2 DEF Selected
  <2>5. R = None /\ R' = held.of
    BY <1>0, <2>1, <2>3, <2>4
  <2> QED
    BY <2>1, <2>2, <2>5 DEF OpenedMoves, Cohort!Opened!Next, Cohort!Opened!Leave, S, R
<1>13. ASSUME NEW s \in Selectors, Cohort!Selector(s)
       PROVE  OpenedMoves
  <2>1. CASE Cohort!Audit(s) \/ Cohort!MarkFailed(s)
    BY <1>8, <1>9, <2>1
  <2>2. CASE ~(Cohort!Audit(s) \/ Cohort!MarkFailed(s))
    BY <1>6, <1>8, <1>9, <1>10, <1>11, <1>12, <1>13, <2>2 DEF Cohort!Selector
  <2> QED
    BY <2>1, <2>2
<1> QED
  BY <1>2, <1>3, <1>4, <1>5, <1>13 DEF Cohort!Next, Cohort!Runs

(* A step of the composition is one of the cohort, or none of it.          *)
LEMMA CohortMoves ==
    [MCNext]_<<part, vars, cohortVars>> => [Cohort!Next]_cohortVars
BY DEF MCNext

(* What status.json says, from the invariant.                              *)
LEMMA HonestStatus ==
    ASSUME CohortInv PROVE Cohort!StatusIsHonest
<1> SUFFICES ASSUME NEW p \in Outputs, output[p] # None
             PROVE  /\ output[p].state = "error" =>
                          (selecting = None \/ selecting.by # output[p].of)
                    /\ output[p].state = "complete" =>
                          /\ selecting # None /\ selecting.by = output[p].of /\ held.times = 1
                          /\ output[p].files = {"claim", "selection", "audit"}
  BY DEF Cohort!StatusIsHonest
<1>1. DirectoryOf(p) /\ HeldOutSettled
  BY DEF CohortInv, SelectorPart
<1> QED
  BY <1>1 DEF DirectoryOf, HeldOutSettled

(* A decision of the long run is of the test that was claimed for it, and  *)
(* the status of a selection never asks for a fresh output once the claim  *)
(* is taken (SelectionOutput.mark_failed, mark_complete).                  *)
THEOREM TrueFiles ==
    ASSUME Cohort!CohortAssumption PROVE MCSpec => []FilesAreTrue
<1>1. LongRunInv /\ CohortInv => FilesAreTrue
  BY HonestStatus DEF LongRunInv, FilesAreTrue
<1> QED
  BY <1>1, LongRunInvariant, CohortInvariant, PTL

(* Nothing is claimed, opened or left at the beginning.                    *)
LEMMA CohortFresh == Cohort!Init => Cohort!Authored!Init /\ Cohort!Opened!Init
<1> SUFFICES ASSUME Cohort!Init PROVE Cohort!Authored!Init /\ Cohort!Opened!Init
  OBVIOUS
<1>1. Cohort!Selection = None
  BY DEF Cohort!Init, Cohort!Selection
<1> QED
  BY <1>1 DEF Cohort!Init, Cohort!Authored!Init, Cohort!Opened!Init, Cohort!Never, Cohort!Settled

(* The seeds are authored once and the held-out shards opened once, for    *)
(* what was claimed, by whoever came first (the O_EXCL claims).            *)
THEOREM SeedsAndShardsOpenedOnce ==
    ASSUME Cohort!CohortAssumption PROVE MCSpec => OpenedOnce
<1>1. MCInit => Cohort!Authored!Init /\ Cohort!Opened!Init
  BY CohortFresh DEF MCInit
<1>2. CohortInv /\ CohortInv' /\ [MCNext]_<<part, vars, cohortVars>> =>
         [Cohort!Authored!Next]_(Cohort!Authored!vars) /\ [Cohort!Opened!Next]_(Cohort!Opened!vars)
  BY CohortMoves, AuthoredSteps, OpenedSteps DEF OpenedMoves
<1> QED
  BY <1>1, <1>2, CohortInvariant, PTL
  DEF MCSpec, OpenedOnce, Cohort!AuthoredOnce, Cohort!OpenedOnce, Cohort!Authored!Spec,
      Cohort!Opened!Spec
=============================================================================
