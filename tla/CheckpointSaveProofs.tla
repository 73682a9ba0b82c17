------------------------ MODULE CheckpointSaveProofs ------------------------
(***************************************************************************)
(* The theorems of CheckpointSave, for every set of ranks and every bound: *)
(* its invariant SaveInv is inductive, so what a rank was told is on disk  *)
(* and its own, failures are orderly and have a cause, latest.json names   *)
(* an accepted checkpoint, and save() implements the write-once registry   *)
(* of whole checkpoints.                                                   *)
(***************************************************************************)
EXTENDS CheckpointSave, TLAPS

USE CheckpointAssumption

(* A rank inside save() places every other living rank in its stretch. *)
LEMMA SameStretch ==
    ASSUME Aligned, NEW r \in Ranks, NEW S \in Stretches,
           pc[r] \in S, pc[r] # "failed"
    PROVE  \A s \in Ranks : pc[s] \in S \cup {"dead"}
BY DEF Aligned, Stretches

(* One rank moves inside its stretch, or dies. *)
LEMMA MoveAligned ==
    ASSUME TypeOK, Aligned, NEW r \in Ranks, NEW S \in Stretches, NEW to,
           pc[r] \in S, pc[r] # "failed", to \in S \cup {"dead"},
           to \in {"assemble", "seal", "rename", "point"} => r = Zero,
           Goto(r, to)
    PROVE  Aligned'
<1>1. \A s \in Ranks : pc[s] \in S \cup {"dead"}
    BY SameStretch
<1>2. \A s \in Ranks : pc'[s] \in S \cup {"dead"}
    BY <1>1 DEF Goto, TypeOK
<1>3. \A s \in Ranks : pc'[s] \in {"assemble", "seal", "rename", "point"} => s = Zero
    BY DEF Goto, TypeOK, Aligned
<1> QED
    BY <1>2, <1>3 DEF Aligned

LEMMA EmptyIsDirectory == Empty \in Directory
BY DEF Empty, Directory

(* Init establishes the invariant. *)
LEMMA InitInv == Init => SaveInv
<1> SUFFICES ASSUME Init PROVE SaveInv
    OBVIOUS
<1>1. TypeOK
  <2>1. 0 \in 0 .. MaxAttempts /\ 0 \in Generations
    BY DEF Generations
  <2> QED
    BY <2>1 DEF Init, TypeOK
<1>2. Aligned /\ OwnDirectory /\ WrittenOrReported /\ Renaming /\ Outcome
    BY DEF Init, Aligned, OwnDirectory, Opened, WrittenOrReported, Renaming, Outcome, At
<1>3. Committed /\ AcknowledgedIsOwn /\ LatestIsAccepted
    BY DEF Init, Committed, AcknowledgedIsOwn, LatestIsAccepted, Generations
<1> QED
    BY <1>1, <1>2, <1>3 DEF SaveInv

(* Launches: every rank is down before, and the new number is unused.      *)
LEMMA StartInv ==
    ASSUME SaveInv, NEW g \in Generations, NEW to \in {"enter", "train"}, Start(g, to)
    PROVE  SaveInv'
<1> USE DEF SaveInv
<1>1. TypeOK'
  <2>1. attempt + 1 \in 0 .. MaxAttempts /\ attempt + 1 # 0
    BY DEF Start, TypeOK
  <2>2. [r \in Ranks |-> to] \in [Ranks -> Working]
    BY DEF Working
  <2> QED
    BY <2>1, <2>2 DEF Start, TypeOK, disk
<1>2. Aligned'
    BY DEF Start, Aligned, Stretches
<1>3. OwnDirectory' /\ WrittenOrReported' /\ Renaming'
    BY DEF Start, OwnDirectory, Opened, WrittenOrReported, Renaming, At
<1>4. \A h \in Generations : ~Mine(h)'
    BY DEF Start, Committed, Mine, TypeOK, disk
<1>5. Outcome'
    BY <1>4 DEF Start, Outcome, At
<1>6. Committed'
    BY <1>4 DEF Start, Committed, TypeOK, disk
<1>7. AcknowledgedIsOwn' /\ LatestIsAccepted'
    BY DEF Start, AcknowledgedIsOwn, LatestIsAccepted, Resumable, disk
<1> QED
    BY <1>1, <1>2, <1>3, <1>5, <1>6, <1>7
LEMMA LaunchFreshInv == ASSUME SaveInv, LaunchFresh PROVE SaveInv'
<1>1. 0 \in Generations
    BY DEF Generations
<1> QED
    BY <1>1, StartInv DEF LaunchFresh

LEMMA ResumeInv == ASSUME SaveInv, Resume PROVE SaveInv'
<1>1. PICK g \in Resumable : Start(g, "train")
    BY DEF Resume
<1>2. g \in Generations
    BY <1>1 DEF Resumable
<1> QED
    BY <1>1, <1>2, StartInv

(* The next generation is beyond everything this launch has committed. *)
LEMMA TrainInv == ASSUME SaveInv, Train PROVE SaveInv'
<1> USE DEF SaveInv
<1>1. PICK to \in {"train", "enter"} : pc' = [r \in Ranks |-> to]
    BY DEF Train
<1>2. TypeOK'
  <2>1. gen + 1 \in Generations
    BY DEF Train, TypeOK, Generations
  <2>2. [r \in Ranks |-> to] \in [Ranks -> Working]
    BY DEF Working
  <2> QED
    BY <1>1, <2>1, <2>2 DEF Train, TypeOK, disk
<1>3. Aligned'
    BY <1>1 DEF Aligned, Stretches
<1>4. OwnDirectory' /\ WrittenOrReported' /\ Renaming'
    BY <1>1 DEF OwnDirectory, Opened, WrittenOrReported, Renaming, At
<1>5. ~Mine(gen)'
  <2>1. gen \in Nat /\ gen + 1 \in Generations
    BY DEF Train, TypeOK, Generations
  <2> QED
    BY <2>1 DEF Train, Committed, Mine, disk
<1>6. Outcome'
    BY <1>1, <1>5 DEF Outcome, At
<1>7. Committed'
  <2>1. gen \in Nat /\ \A g \in Generations : g \in Nat
    BY DEF TypeOK, Generations
  <2> QED
    BY <2>1 DEF Train, Committed, Mine, disk
<1>8. AcknowledgedIsOwn' /\ LatestIsAccepted'
    BY DEF Train, AcknowledgedIsOwn, LatestIsAccepted, Resumable, disk
<1> QED
    BY <1>2, <1>3, <1>4, <1>6, <1>7, <1>8

LEMMA EndInv == ASSUME SaveInv, End PROVE SaveInv'
<1> USE DEF SaveInv
<1>1. TypeOK'
    BY DEF End, TypeOK, disk
<1>2. Aligned' /\ OwnDirectory' /\ WrittenOrReported' /\ Renaming' /\ Outcome'
    BY DEF End, Aligned, OwnDirectory, Opened, WrittenOrReported, Renaming, Outcome, At
<1>3. Committed' /\ AcknowledgedIsOwn' /\ LatestIsAccepted'
    BY DEF End, Committed, Mine, AcknowledgedIsOwn, LatestIsAccepted, Resumable, disk
<1> QED
    BY <1>1, <1>2, <1>3

-----------------------------------------------------------------------------
(* Steps that write no directory and only move one rank: what the others   *)
(* rely on.                                                                *)

LEMMA EnterOtherInv == ASSUME SaveInv, NEW r \in Ranks, EnterOther(r) PROVE SaveInv'
<1> USE DEF SaveInv
<1>1. \A s \in Ranks : pc[s] \in {"enter", "sync1", "dead"}
    BY SameStretch DEF EnterOther, Stretches
<1>2. /\ pc' = [pc EXCEPT ![r] = "sync1"] /\ r # Zero
      /\ \A s \in Ranks : pc'[s] \in {"enter", "sync1", "dead"}
      /\ pc'[Zero] = pc[Zero]
    BY <1>1 DEF EnterOther, Goto, TypeOK
<1>3. TypeOK'
    BY <1>2 DEF EnterOther, TypeOK, disk, Working
<1>4. Aligned'
    BY <1>2 DEF Aligned, Stretches
<1>5. OwnDirectory' /\ WrittenOrReported' /\ Renaming'
    BY <1>2 DEF EnterOther, OwnDirectory, Opened, WrittenOrReported, Renaming, At, disk
<1>6. Outcome'
    BY <1>2 DEF EnterOther, Outcome, Mine, Cause, At, disk
<1>7. Committed' /\ AcknowledgedIsOwn' /\ LatestIsAccepted'
    BY DEF EnterOther, Committed, Mine, AcknowledgedIsOwn, LatestIsAccepted, Resumable, disk
<1> QED
    BY <1>3, <1>4, <1>5, <1>6, <1>7

LEMMA ReceiveInv == ASSUME SaveInv, NEW r \in Ranks, Receive(r) PROVE SaveInv'
<1> USE DEF SaveInv
<1> DEFINE S == {"receive", "write", "sync2", "failed"}
<1>1. \A s \in Ranks : pc[s] \in S \cup {"dead"}
    BY SameStretch DEF Receive, Stretches
<1>2. PICK to \in {"failed", "write"} :
         /\ to = IF initError THEN "failed" ELSE "write"
         /\ pc' = [pc EXCEPT ![r] = to]
    BY DEF Receive, Goto
<1>3. /\ \A s \in Ranks : pc'[s] \in S \cup {"dead"}
      /\ \A s \in Ranks : s # r => pc'[s] = pc[s]
      /\ pc'[r] = to
    BY <1>1, <1>2 DEF TypeOK
<1>4. TypeOK'
    BY <1>2 DEF Receive, TypeOK, disk, Working
<1>5. Aligned'
    BY <1>3 DEF Aligned, Stretches
<1>6. OwnDirectory'
    BY <1>2, <1>3 DEF Receive, OwnDirectory, Opened, At, disk
<1>7. WrittenOrReported' /\ Renaming'
    BY <1>3 DEF Receive, WrittenOrReported, Renaming, At, disk
<1>8. Outcome'
  <2>1. CASE initError
    <3>1. Cause
        BY <2>1 DEF Receive, Outcome, At
    <3>2. \A s \in Ranks : pc[s] \in {"receive", "failed", "dead"}
        BY <1>1, <2>1 DEF OwnDirectory, Opened, At
    <3>3. Cause'
        BY <3>1 DEF Receive, Cause, Mine, disk
    <3> QED
        BY <1>2, <1>3, <2>1, <3>2, <3>3 DEF Receive, Outcome, At
  <2>2. CASE ~initError
    <3>1. \A s \in Ranks : pc[s] # "failed"
        BY <2>2 DEF Receive, Outcome
    <3> QED
        BY <1>2, <1>3, <2>2, <3>1 DEF Receive, Outcome, At
  <2> QED
    BY <2>1, <2>2
<1>9. Committed' /\ AcknowledgedIsOwn' /\ LatestIsAccepted'
    BY DEF Receive, Committed, Mine, AcknowledgedIsOwn, LatestIsAccepted, Resumable, disk
<1> QED
    BY <1>4, <1>5, <1>6, <1>7, <1>8, <1>9

LEMMA CheckInv == ASSUME SaveInv, NEW r \in Ranks, Check(r) PROVE SaveInv'
<1> USE DEF SaveInv
<1> DEFINE S == {"check", "train", "failed"}
<1>1. \A s \in Ranks : pc[s] \in S \cup {"dead"}
    BY SameStretch DEF Check, Stretches
<1>2. PICK to \in {"failed", "train"} :
         /\ to = "train" <=> final[gen] # None
         /\ pc' = [pc EXCEPT ![r] = to]
         /\ saved' = IF to = "train" THEN [saved EXCEPT ![r] = gen] ELSE saved
    BY DEF Check, Goto, Committed, TypeOK
<1>3. /\ \A s \in Ranks : pc'[s] \in S \cup {"dead"}
      /\ \A s \in Ranks : s # r => pc'[s] = pc[s]
      /\ pc'[r] = to
    BY <1>1, <1>2 DEF TypeOK
<1>4. Mine(gen) \/ (final[gen] = None /\ fault)
    BY DEF Check, Outcome, At
<1>5. TypeOK'
    BY <1>2 DEF Check, TypeOK, disk, Working
<1>6. Aligned'
    BY <1>3 DEF Aligned, Stretches
<1>7. OwnDirectory' /\ WrittenOrReported' /\ Renaming'
    BY <1>3 DEF OwnDirectory, Opened, WrittenOrReported, Renaming, At
<1>8. Outcome'
  <2>1. Mine(gen)' <=> Mine(gen)
    BY DEF Check, Mine, disk
  <2>2. CASE final[gen] = None
    <3>1. \A s \in Ranks : pc[s] \in {"check", "failed", "dead"}
        BY <1>1, <2>2 DEF Check, Outcome, At
    <3> QED
        BY <1>2, <1>3, <1>4, <2>1, <2>2, <3>1 DEF Check, Outcome, At, disk, Mine
  <2>3. CASE final[gen] # None
    <3>1. \A s \in Ranks : pc[s] # "failed"
        BY <2>3 DEF Check, Outcome
    <3> QED
        BY <1>2, <1>3, <1>4, <2>1, <2>3, <3>1 DEF Check, Outcome, At, disk
  <2> QED
    BY <2>2, <2>3
<1>9. AcknowledgedIsOwn'
    BY <1>2, <1>4 DEF Check, AcknowledgedIsOwn, Mine, TypeOK, disk
<1>10. Committed' /\ LatestIsAccepted'
    BY DEF Check, Committed, Mine, LatestIsAccepted, Resumable, disk
<1> QED
    BY <1>5, <1>6, <1>7, <1>8, <1>9, <1>10

(* A dying rank takes nothing away that the others rely on. *)
LEMMA DieInv == ASSUME SaveInv, NEW r \in Ranks, Die(r) PROVE SaveInv'
<1> USE DEF SaveInv
<1>1. /\ pc' = [pc EXCEPT ![r] = "dead"]
      /\ \A s \in Ranks : pc'[s] = pc[s] \/ pc'[s] = "dead"
      /\ \A labels : "dead" \notin labels /\ At(labels)' => At(labels)
    BY DEF Die, Goto, TypeOK, At
<1>2. TypeOK'
    BY <1>1 DEF Die, TypeOK, disk, Working
<1>3. Aligned'
    BY <1>1 DEF Die, Aligned, Stretches
<1>4. OwnDirectory'
    BY <1>1 DEF Die, OwnDirectory, Opened, disk, At
<1>5. WrittenOrReported' /\ Renaming'
    BY <1>1 DEF Die, WrittenOrReported, Renaming, disk, At
<1>6. Outcome'
    BY <1>1 DEF Die, Outcome, Mine, Cause, disk, At
<1>7. Committed' /\ AcknowledgedIsOwn' /\ LatestIsAccepted'
    BY DEF Die, Committed, Mine, AcknowledgedIsOwn, LatestIsAccepted, Resumable, disk
<1> QED
    BY <1>2, <1>3, <1>4, <1>5, <1>6, <1>7
-----------------------------------------------------------------------------
(* Steps of rank zero and of the writers: what happens to the directory.   *)

(* What a rank in `label' and its fellows look like after it moves to `to' *)
(* inside its stretch.                                                     *)
LEMMA MovedIn ==
    ASSUME TypeOK, Aligned, NEW r \in Ranks, NEW S \in Stretches, NEW to,
           pc[r] \in S, pc[r] # "failed", to \in S, Goto(r, to)
    PROVE  /\ \A s \in Ranks : pc[s] \in S \cup {"dead"}
           /\ \A s \in Ranks : pc'[s] \in S \cup {"dead"}
           /\ \A s \in Ranks : s # r => pc'[s] = pc[s]
           /\ pc'[r] = to
BY SameStretch DEF Goto, TypeOK

LEMMA PrepareInv == ASSUME SaveInv, Prepare \/ PrepareFails PROVE SaveInv'
<1> USE DEF SaveInv
<1> DEFINE S == {"enter", "sync1"}
<1>1. /\ pc[Zero] = "enter" /\ Goto(Zero, "sync1")
      /\ UNCHANGED <<final, latest, attempt, gen, accepted, saved>>
    BY DEF Prepare, PrepareFails
<1>2. /\ \A s \in Ranks : pc'[s] \in S \cup {"dead"}
      /\ pc'[Zero] = "sync1"
    BY <1>1, MovedIn DEF Stretches
<1>3. /\ initError' => Cause'
      /\ initError' \in BOOLEAN /\ fault' \in BOOLEAN
      /\ ~initError' => final[gen] = None /\ partial'[gen] = Empty
      /\ partial' \in [Generations -> Directory \cup {None}]
  <2>1. ~Mine(gen)
    BY <1>1 DEF Outcome
  <2>2. CASE Prepare
    BY <2>1, <2>2, EmptyIsDirectory DEF Prepare, TypeOK, Cause, Mine
  <2>3. CASE PrepareFails
    BY <2>1, <2>3 DEF PrepareFails, TypeOK, Cause, Mine
  <2> QED
    BY <2>2, <2>3
<1>4. TypeOK'
    BY <1>1, <1>3 DEF TypeOK, Goto, Working
<1>5. Aligned'
    BY <1>2 DEF Aligned, Stretches
<1>6. OwnDirectory'
    BY <1>1, <1>2, <1>3, EmptyIsDirectory DEF OwnDirectory, Opened, At, Empty
<1>7. WrittenOrReported' /\ Renaming'
    BY <1>2 DEF WrittenOrReported, Renaming, At
<1>8. Outcome'
    BY <1>2, <1>3 DEF Outcome, At
<1>9. Committed' /\ AcknowledgedIsOwn' /\ LatestIsAccepted'
    BY <1>1 DEF Committed, Mine, AcknowledgedIsOwn, LatestIsAccepted, Resumable
<1> QED
    BY <1>4, <1>5, <1>6, <1>7, <1>8, <1>9

LEMMA WriteRankInv ==
    ASSUME SaveInv, NEW r \in Ranks, WriteRank(r) \/ WriteRankFails(r)
    PROVE  SaveInv'
<1> USE DEF SaveInv
<1> DEFINE S == {"receive", "write", "sync2", "failed"}
           d == partial[gen]
<1>1. /\ pc[r] = "write" /\ Goto(r, "sync2")
      /\ UNCHANGED <<final, latest, attempt, gen, accepted, initError, saved>>
    BY DEF WriteRank, WriteRankFails
<1>2. /\ \A s \in Ranks : pc[s] \in S \cup {"dead"}
      /\ \A s \in Ranks : pc'[s] \in S \cup {"dead"}
      /\ \A s \in Ranks : s # r => pc'[s] = pc[s]
      /\ pc'[r] = "sync2"
    BY <1>1, MovedIn DEF Stretches
<1>3. /\ ~initError /\ final[gen] = None /\ d \in Directory
      /\ \A s \in Ranks : d.ranks[s] \in {None, attempt}
      /\ d.errors # {} => fault
      /\ d.error => fault
    BY <1>1 DEF OwnDirectory, Opened, At, TypeOK
<1>4. attempt \in Attempts
    BY <1>1 DEF TypeOK, Attempts
<1>5. PICK e \in Directory :
         /\ partial' = [partial EXCEPT ![gen] = e]
         /\ \A s \in Ranks : e.ranks[s] \in {None, attempt}
         /\ \A s \in Ranks : d.ranks[s] = attempt => e.ranks[s] = attempt
         /\ d.errors \subseteq e.errors
         /\ e.errors # {} => fault'
         /\ e.error = d.error
         /\ e.ranks[r] = attempt \/ r \in e.errors
         /\ fault' \in BOOLEAN /\ (fault => fault')
  <2>1. CASE WriteRank(r)
    <3> DEFINE e == [d EXCEPT !.ranks[r] = attempt]
    <3>1. e \in Directory
        BY <1>3, <1>4 DEF Directory
    <3>2. partial' = [partial EXCEPT ![gen] = e]
        BY <2>1 DEF WriteRank
    <3> QED
        BY <1>3, <1>4, <2>1, <3>1, <3>2 DEF WriteRank, Directory, TypeOK
  <2>2. CASE WriteRankFails(r)
    <3> DEFINE e == [d EXCEPT !.errors = @ \cup {r}]
    <3>1. e \in Directory
        BY <1>3 DEF Directory
    <3>2. partial' = [partial EXCEPT ![gen] = e]
        BY <2>2 DEF WriteRankFails
    <3> QED
        BY <1>3, <2>2, <3>1, <3>2 DEF WriteRankFails, Directory, TypeOK
  <2> QED
    BY <2>1, <2>2, <1>1 DEF WriteRank, WriteRankFails
<1>6. partial'[gen] = e /\ e # None
    BY <1>5 DEF TypeOK
<1>7. TypeOK'
    BY <1>1, <1>5 DEF TypeOK, Goto, Working
<1>8. Aligned'
    BY <1>2 DEF Aligned, Stretches
<1>9. OwnDirectory'
    BY <1>1, <1>3, <1>5, <1>6 DEF OwnDirectory
<1>10. WrittenOrReported'
    BY <1>1, <1>2, <1>5, <1>6 DEF WrittenOrReported, At
<1>11. Renaming'
    BY <1>2 DEF Renaming
<1>12. Outcome'
  <2>1. \A s \in Ranks : pc[s] # "failed"
    BY <1>1, <1>3 DEF Outcome
  <2> QED
    BY <1>1, <1>2, <1>3, <2>1 DEF Outcome, At
<1>13. Committed' /\ AcknowledgedIsOwn' /\ LatestIsAccepted'
    BY <1>1 DEF Committed, Mine, AcknowledgedIsOwn, LatestIsAccepted, Resumable
<1> QED
    BY <1>7, <1>8, <1>9, <1>10, <1>11, <1>12, <1>13
LEMMA AssembleInv ==
    ASSUME SaveInv, Assemble \/ (CommitFails /\ pc[Zero] = "assemble")
    PROVE  SaveInv'
<1> USE DEF SaveInv
<1> DEFINE S == {"assemble", "sync3"}
           d == partial[gen]
<1>1. /\ pc[Zero] = "assemble" /\ Goto(Zero, "sync3")
      /\ UNCHANGED <<final, latest, attempt, gen, accepted, initError, saved>>
    BY DEF Assemble, CommitFails
<1>2. /\ \A s \in Ranks : pc'[s] \in S \cup {"dead"}
      /\ \A s \in Ranks : s # Zero => pc'[s] = pc[s]
      /\ pc'[Zero] = "sync3"
    BY <1>1, MovedIn DEF Stretches
<1>3. /\ ~initError /\ final[gen] = None /\ d \in Directory
      /\ \A s \in Ranks : d.ranks[s] \in {None, attempt}
      /\ d.errors # {} => fault
      /\ d.error => fault
    BY <1>1 DEF OwnDirectory, Opened, At, TypeOK
<1>4. attempt \in Attempts /\ None # attempt
    BY <1>1 DEF TypeOK, Attempts
<1>5. \A s \in Ranks : d.ranks[s] = attempt \/ s \in d.errors
    BY <1>1 DEF WrittenOrReported, At
<1>6. PICK e \in Directory :
         /\ partial' = [partial EXCEPT ![gen] = e]
         /\ e.ranks = d.ranks /\ e.errors = d.errors
         /\ e.error => fault'
         /\ ~e.error => /\ d.errors = {}
                        /\ e.state = attempt
                        /\ e.accepted = accepted
         /\ fault' \in BOOLEAN /\ (fault => fault')
  <2>1. CASE Assemble
    <3> DEFINE whole == d.errors = {} /\ \A r \in Ranks : d.ranks[r] # None
               e == IF whole THEN [d EXCEPT !.state = attempt, !.accepted = accepted]
                             ELSE [d EXCEPT !.error = TRUE]
    <3>1. partial' = [partial EXCEPT ![gen] = e]
        BY <2>1 DEF Assemble
    <3>2. e \in Directory
        BY <1>3, <1>4 DEF Directory, TypeOK
    <3>3. fault' = fault /\ (~whole => fault)
        BY <1>3, <1>4, <1>5, <2>1 DEF Assemble
    <3>4. CASE whole
        BY <1>3, <3>1, <3>2, <3>3, <3>4 DEF Directory, TypeOK
    <3>5. CASE ~whole
        BY <1>3, <3>1, <3>2, <3>3, <3>5 DEF Directory, TypeOK
    <3> QED
        BY <3>4, <3>5
  <2>2. CASE CommitFails
    <3> DEFINE e == [d EXCEPT !.error = TRUE]
    <3>1. e \in Directory
        BY <1>3 DEF Directory
    <3>2. partial' = [partial EXCEPT ![gen] = e]
        BY <2>2 DEF CommitFails
    <3> QED
        BY <1>3, <2>2, <3>1, <3>2 DEF CommitFails, Directory, TypeOK
  <2> QED
    BY <2>1, <2>2
<1>7. partial'[gen] = e /\ e # None
    BY <1>6 DEF TypeOK
<1>8. TypeOK'
    BY <1>1, <1>6 DEF TypeOK, Goto, Working
<1>9. Aligned'
  <2>1. \A s \in Ranks : pc'[s] \in {"assemble", "seal", "rename", "point"} => s = Zero
    BY <1>2 DEF Aligned
  <2> QED
    BY <1>2, <2>1 DEF Aligned, Stretches
<1>10. OwnDirectory'
    BY <1>1, <1>3, <1>6, <1>7 DEF OwnDirectory
<1>11. WrittenOrReported'
    BY <1>1, <1>5, <1>6, <1>7 DEF WrittenOrReported
<1>12. Renaming'
  <2>1. ~e.error => e.ranks = [r \in Ranks |-> attempt]
    BY <1>3, <1>5, <1>6 DEF Directory
  <2> QED
    BY <1>1, <1>2, <1>6, <1>7, <2>1 DEF Renaming, Summary, Registry!Whole
<1>13. Outcome'
    BY <1>2, <1>3, <1>1 DEF Outcome, At
<1>14. Committed' /\ AcknowledgedIsOwn' /\ LatestIsAccepted'
    BY <1>1 DEF Committed, Mine, AcknowledgedIsOwn, LatestIsAccepted, Resumable
<1> QED
    BY <1>8, <1>9, <1>10, <1>11, <1>12, <1>13, <1>14

LEMMA SealInv ==
    ASSUME SaveInv, Seal \/ (CommitFails /\ pc[Zero] \in {"seal", "rename"})
    PROVE  SaveInv'
<1> USE DEF SaveInv
<1> DEFINE S == {"seal", "rename", "point", "sync4"}
           d == partial[gen]
<1>1. PICK to \in {"rename", "sync4"} :
         /\ pc[Zero] \in {"seal", "rename"} /\ Goto(Zero, to)
         /\ UNCHANGED <<final, latest, attempt, gen, accepted, initError, saved>>
    BY DEF Seal, CommitFails
<1>2. /\ \A s \in Ranks : pc'[s] \in S \cup {"dead"}
      /\ \A s \in Ranks : s # Zero => pc'[s] = pc[s]
      /\ pc'[Zero] = to
    BY <1>1, MovedIn DEF Stretches
<1>3. /\ ~initError /\ final[gen] = None /\ d \in Directory
      /\ \A s \in Ranks : d.ranks[s] \in {None, attempt}
      /\ d.errors # {} => fault
      /\ ~d.error
      /\ Summary(d) = Registry!Whole(attempt, accepted)
    BY <1>1 DEF OwnDirectory, Opened, At, TypeOK, Renaming
<1>4. PICK e \in Directory :
         /\ partial' = [partial EXCEPT ![gen] = e]
         /\ e.ranks = d.ranks /\ e.errors = d.errors
         /\ e.state = d.state /\ e.accepted = d.accepted
         /\ to = "sync4" => fault'
         /\ to = "rename" => e.complete /\ ~e.error
         /\ e.error => fault'
         /\ fault' \in BOOLEAN /\ (fault => fault')
  <2>1. CASE Seal
    <3> DEFINE e == [d EXCEPT !.complete = TRUE]
    <3>1. e \in Directory
        BY <1>3 DEF Directory
    <3>2. partial' = [partial EXCEPT ![gen] = e] /\ to = "rename"
        BY <1>1, <1>2, <2>1 DEF Seal, Goto, TypeOK
    <3> QED
        BY <1>3, <2>1, <3>1, <3>2 DEF Seal, Directory, TypeOK
  <2>2. CASE CommitFails
    <3> DEFINE e == [d EXCEPT !.error = TRUE]
    <3>1. e \in Directory
        BY <1>3 DEF Directory
    <3>2. partial' = [partial EXCEPT ![gen] = e] /\ to = "sync4"
        BY <1>1, <1>2, <2>2 DEF CommitFails, Goto, TypeOK
    <3> QED
        BY <1>3, <2>2, <3>1, <3>2 DEF CommitFails, Directory, TypeOK
  <2> QED
    BY <2>1, <2>2
<1>5. partial'[gen] = e /\ e # None
    BY <1>4 DEF TypeOK
<1>6. TypeOK'
    BY <1>1, <1>4 DEF TypeOK, Goto, Working
<1>7. Aligned'
  <2>1. \A s \in Ranks : pc'[s] \in {"assemble", "seal", "rename", "point"} => s = Zero
    BY <1>2 DEF Aligned
  <2> QED
    BY <1>2, <2>1 DEF Aligned, Stretches
<1>8. OwnDirectory'
    BY <1>1, <1>3, <1>4, <1>5 DEF OwnDirectory
<1>9. WrittenOrReported'
    BY <1>2 DEF WrittenOrReported, At
<1>10. Renaming'
    BY <1>1, <1>2, <1>3, <1>4, <1>5 DEF Renaming, Summary, Registry!Whole
<1>11. Outcome'
    BY <1>1, <1>2, <1>3, <1>4 DEF Outcome, At
<1>12. Committed' /\ AcknowledgedIsOwn' /\ LatestIsAccepted'
    BY <1>1 DEF Committed, Mine, AcknowledgedIsOwn, LatestIsAccepted, Resumable
<1> QED
    BY <1>6, <1>7, <1>8, <1>9, <1>10, <1>11, <1>12

LEMMA RenameInv == ASSUME SaveInv, Rename PROVE SaveInv'
<1> USE DEF SaveInv
<1> DEFINE S == {"seal", "rename", "point", "sync4"}
           d == partial[gen]
<1>1. /\ pc[Zero] = "rename" /\ Goto(Zero, "point")
      /\ final' = [final EXCEPT ![gen] = d]
      /\ partial' = [partial EXCEPT ![gen] = None]
      /\ final[gen] = None
      /\ UNCHANGED <<latest, attempt, gen, accepted, initError, saved, fault>>
    BY DEF Rename
<1>2. /\ \A s \in Ranks : pc[s] \in S \cup {"dead"}
      /\ \A s \in Ranks : pc'[s] \in S \cup {"dead"}
      /\ \A s \in Ranks : s # Zero => pc'[s] = pc[s]
      /\ pc'[Zero] = "point"
    BY <1>1, MovedIn DEF Stretches
<1>3. /\ ~initError /\ d \in Directory /\ d # None
      /\ d.complete /\ d.state = attempt /\ d.accepted = accepted
    BY <1>1 DEF OwnDirectory, Opened, At, TypeOK, Renaming, Summary, Registry!Whole
<1>4. attempt \in 1 .. attempt /\ gen \in Nat
    BY <1>1 DEF TypeOK, Generations
<1>5. TypeOK'
    BY <1>1, <1>3 DEF TypeOK, Goto, Working
<1>6. Aligned'
    BY <1>2 DEF Aligned, Stretches
<1>7. \A s \in Ranks : pc'[s] \notin {"write", "sync2", "assemble", "sync3", "seal",
                                      "rename", "receive", "sync1", "enter", "check",
                                      "train", "failed"}
    BY <1>1, <1>2 DEF Aligned
<1>8. OwnDirectory' /\ WrittenOrReported' /\ Renaming'
    BY <1>7 DEF OwnDirectory, Opened, WrittenOrReported, Renaming, At
<1>9. final'[gen] = d /\ \A g \in Generations : g # gen => final'[g] = final[g]
    BY <1>1 DEF TypeOK
<1>10. Outcome'
    BY <1>1, <1>2, <1>3, <1>7, <1>9 DEF Outcome, At, Mine
<1>11. Committed'
    BY <1>1, <1>3, <1>4, <1>9 DEF Committed, Mine
<1>12. AcknowledgedIsOwn'
    BY <1>1, <1>3, <1>9 DEF AcknowledgedIsOwn, TypeOK
<1>13. LatestIsAccepted'
    BY <1>1, <1>3, <1>9 DEF LatestIsAccepted, Resumable, TypeOK
<1> QED
    BY <1>5, <1>6, <1>8, <1>10, <1>11, <1>12, <1>13

LEMMA PointInv == ASSUME SaveInv, Point \/ PointFails PROVE SaveInv'
<1> USE DEF SaveInv
<1> DEFINE S == {"seal", "rename", "point", "sync4"}
<1>1. /\ pc[Zero] = "point" /\ Goto(Zero, "sync4")
      /\ latest' \in {latest, IF accepted THEN gen ELSE latest}
      /\ fault' \in BOOLEAN /\ (fault => fault')
      /\ UNCHANGED <<partial, final, attempt, gen, accepted, initError, saved>>
    BY DEF Point, PointFails, TypeOK, disk
<1>2. /\ \A s \in Ranks : pc[s] \in S \cup {"dead"}
      /\ \A s \in Ranks : pc'[s] \in S \cup {"dead"}
      /\ pc'[Zero] = "sync4"
      /\ \A s \in Ranks : pc'[s] \in {"seal", "rename", "point"} => s = Zero
    BY <1>1, MovedIn DEF Stretches, Aligned
<1>3. Mine(gen) /\ final[gen].accepted = accepted
    BY <1>1 DEF Outcome
<1>4. TypeOK'
    BY <1>1 DEF TypeOK, Goto, Working
<1>5. Aligned'
    BY <1>2 DEF Aligned, Stretches
<1>6. OwnDirectory' /\ WrittenOrReported' /\ Renaming'
    BY <1>2 DEF OwnDirectory, Opened, WrittenOrReported, Renaming, At
<1>7. Outcome'
    BY <1>1, <1>2, <1>3 DEF Outcome, At, Mine
<1>8. Committed' /\ AcknowledgedIsOwn'
    BY <1>1 DEF Committed, Mine, AcknowledgedIsOwn
<1>9. LatestIsAccepted'
    BY <1>1, <1>3 DEF LatestIsAccepted, Resumable, Mine, TypeOK
<1> QED
    BY <1>4, <1>5, <1>6, <1>7, <1>8, <1>9

(* When the barrier opens every rank stands at the same one. *)
LEMMA SameSync ==
    ASSUME TypeOK, Aligned, \A r \in Ranks : pc[r] \in Syncs
    PROVE  \A r \in Ranks : pc[r] = pc[Zero]
BY DEF Aligned, Stretches, Syncs

LEMMA BarrierInv == ASSUME SaveInv, Barrier PROVE SaveInv'
<1> USE DEF SaveInv
<1>1. /\ \A r \in Ranks : pc[r] = pc[Zero]
      /\ pc[Zero] \in Syncs
      /\ pc' = [r \in Ranks |-> After(r)]
      /\ UNCHANGED <<disk, attempt, gen, accepted, initError, saved, fault>>
    BY SameSync DEF Barrier
<1>2. Committed' /\ AcknowledgedIsOwn' /\ LatestIsAccepted'
    BY <1>1 DEF Committed, Mine, AcknowledgedIsOwn, LatestIsAccepted, Resumable, disk
<1>3. CASE pc[Zero] = "sync1"
  <2>1. pc' = [r \in Ranks |-> "receive"]
    BY <1>1, <1>3 DEF After
  <2>2. TypeOK'
    BY <1>1, <1>3, <2>1 DEF TypeOK, Working, disk
  <2>3. Aligned'
    BY <2>1 DEF Aligned, Stretches
  <2>4. OwnDirectory'
    BY <1>1, <1>3, <2>1 DEF OwnDirectory, Opened, At, disk
  <2>5. WrittenOrReported' /\ Renaming'
    BY <2>1 DEF WrittenOrReported, Renaming, At
  <2>6. Outcome'
    BY <1>1, <1>3, <2>1 DEF Outcome, At, Cause, Mine, disk
  <2> QED
    BY <1>2, <2>2, <2>3, <2>4, <2>5, <2>6
<1>4. CASE pc[Zero] = "sync2"
  <2>1. pc' = [r \in Ranks |-> IF r = Zero THEN "assemble" ELSE "sync3"]
    BY <1>1, <1>4 DEF After
  <2>2. TypeOK'
    BY <1>1, <1>4, <2>1 DEF TypeOK, Working, disk
  <2>3. Aligned'
    BY <2>1 DEF Aligned, Stretches
  <2>4. OwnDirectory'
    BY <1>1, <1>4, <2>1 DEF OwnDirectory, Opened, At, disk
  <2>5. WrittenOrReported' /\ Renaming'
    BY <1>1, <1>4, <2>1 DEF WrittenOrReported, Renaming, At, disk
  <2>6. Outcome'
    BY <1>1, <1>4, <2>1 DEF Outcome, At
  <2> QED
    BY <1>2, <2>2, <2>3, <2>4, <2>5, <2>6
<1>5. CASE pc[Zero] = "sync3"
  <2>1. pc' = [r \in Ranks |-> IF r = Zero /\ ~partial[gen].error
                               THEN "seal" ELSE "sync4"]
    BY <1>1, <1>5 DEF After
  <2>2. TypeOK'
    BY <1>1, <1>5, <2>1 DEF TypeOK, Working, disk
  <2>3. Aligned'
    BY <2>1 DEF Aligned, Stretches
  <2>4. OwnDirectory'
    BY <1>1, <1>5, <2>1 DEF OwnDirectory, Opened, At, disk
  <2>5. WrittenOrReported' /\ Renaming'
    BY <1>1, <1>5, <2>1 DEF WrittenOrReported, Renaming, At, disk, Registry!Whole, Summary
  <2>6. Outcome'
    <3>1. final[gen] = None /\ (partial[gen].error => fault)
        BY <1>5 DEF OwnDirectory, Opened, At
    <3> QED
        BY <1>1, <1>5, <2>1, <3>1 DEF Outcome, At, Mine, disk
  <2> QED
    BY <1>2, <2>2, <2>3, <2>4, <2>5, <2>6
<1>6. CASE pc[Zero] = "sync4"
  <2>1. pc' = [r \in Ranks |-> "check"]
    BY <1>1, <1>6 DEF After
  <2>2. TypeOK'
    BY <1>1, <1>6, <2>1 DEF TypeOK, Working, disk
  <2>3. Aligned'
    BY <2>1 DEF Aligned, Stretches
  <2>4. OwnDirectory' /\ WrittenOrReported' /\ Renaming'
    BY <2>1 DEF OwnDirectory, Opened, WrittenOrReported, Renaming, At
  <2>5. Outcome'
    BY <1>1, <1>6, <2>1 DEF Outcome, At, Mine, disk
  <2> QED
    BY <1>2, <2>2, <2>3, <2>4, <2>5
<1> QED
    BY <1>1, <1>3, <1>4, <1>5, <1>6 DEF Syncs
LEMMA UnchangedInv == ASSUME SaveInv, UNCHANGED vars PROVE SaveInv'
<1> USE DEF SaveInv, vars
<1>1. TypeOK' /\ Aligned' /\ Committed' /\ AcknowledgedIsOwn' /\ LatestIsAccepted'
    BY DEF TypeOK, Aligned, Committed, Mine, AcknowledgedIsOwn, LatestIsAccepted, Resumable
<1>2. OwnDirectory' /\ WrittenOrReported' /\ Renaming'
    BY DEF OwnDirectory, Opened, WrittenOrReported, Renaming, At, Summary, Registry!Whole
<1>3. Outcome'
    BY DEF Outcome, At, Mine, Cause
<1> QED
    BY <1>1, <1>2, <1>3

LEMMA NextInv == ASSUME SaveInv, [Next]_vars PROVE SaveInv'
<1>1. CASE LaunchFresh
    BY <1>1, LaunchFreshInv
<1>2. CASE Resume
    BY <1>2, ResumeInv
<1>3. CASE Train
    BY <1>3, TrainInv
<1>4. CASE End
    BY <1>4, EndInv
<1>5. CASE Barrier
    BY <1>5, BarrierInv
<1>6. CASE RankZeroNext
  <2>1. CASE Prepare \/ PrepareFails
    BY <2>1, PrepareInv
  <2>2. CASE Assemble \/ (CommitFails /\ pc[Zero] = "assemble")
    BY <2>2, AssembleInv
  <2>3. CASE Seal \/ (CommitFails /\ pc[Zero] \in {"seal", "rename"})
    BY <2>3, SealInv
  <2>4. CASE Rename
    BY <2>4, RenameInv
  <2>5. CASE Point \/ PointFails
    BY <2>5, PointInv
  <2> QED
    BY <1>6, <2>1, <2>2, <2>3, <2>4, <2>5 DEF RankZeroNext, CommitFails
<1>7. ASSUME NEW r \in Ranks, RankNext(r) PROVE SaveInv'
    BY <1>7, EnterOtherInv, ReceiveInv, WriteRankInv, CheckInv, DieInv DEF RankNext
<1>8. CASE UNCHANGED vars
    BY <1>8, UnchangedInv
<1> QED
    BY <1>1, <1>2, <1>3, <1>4, <1>5, <1>6, <1>7, <1>8 DEF Next

-----------------------------------------------------------------------------
(* SaveInv holds in every reachable state, for any number of ranks,        *)
(* generations and launches: at every point of save() the ranks are in one *)
(* stretch and the directory in use is their own.                          *)
THEOREM SaveInvariant == Spec => []SaveInv
<1>1. SaveInv /\ [Next]_vars => SaveInv'
    BY NextInv
<1> QED
    BY InitInv, <1>1, PTL DEF Spec

(* What save() acknowledged to a rank is on disk, written by this launch.  *)
THEOREM AcknowledgedCheckpointsAreOwn == Spec => []AcknowledgedIsOwn
<1>1. SaveInv => AcknowledgedIsOwn
    BY DEF SaveInv
<1> QED
    BY <1>1, SaveInvariant, PTL

(* A failing save fails on every rank and strands none at a barrier.       *)
THEOREM FailureIsOrderly == Spec => []OrderlyFailure
<1>1. SaveInv => OrderlyFailure
    BY DEF SaveInv, OrderlyFailure, Outcome
<1> QED
    BY <1>1, SaveInvariant, PTL

(* A leftover of an earlier launch is never the reason a save fails.       *)
THEOREM FailureHasCause == Spec => []FailsOnlyForCause
<1>1. SaveInv => FailsOnlyForCause
    BY DEF SaveInv, FailsOnlyForCause, Outcome, Cause, Mine
<1> QED
    BY <1>1, SaveInvariant, PTL

(* latest.json names a complete, accepted checkpoint.                      *)
THEOREM LatestPointsToAccepted == Spec => []LatestIsAccepted
<1>1. SaveInv => LatestIsAccepted
    BY DEF SaveInv
<1> QED
    BY <1>1, SaveInvariant, PTL

-----------------------------------------------------------------------------
(* Refinement: only Rename, Check and a launch change what the registry    *)
(* shows.                                                                  *)

LEMMA SummaryExists == ASSUME NEW d \in Directory PROVE Summary(d) \in Content
BY DEF Summary, Directory, Content

LEMMA InitRefines == Init => Registry!RegistryInit
BY DEF Init, Registry!RegistryInit

LEMMA StepRefines ==
    ASSUME SaveInv, [Next]_vars
    PROVE  [Registry!RegistryNext]_(Registry!registryVars)
<1> USE DEF SaveInv
<1>1. ASSUME UNCHANGED final, UNCHANGED saved
      PROVE  UNCHANGED Registry!registryVars
    BY <1>1 DEF Registry!registryVars
<1>2. ASSUME NEW g, NEW to, Start(g, to) PROVE Registry!Restart
    BY <1>2 DEF Start, Registry!Restart, disk
<1>3. ASSUME NEW r \in Ranks, Check(r) PROVE [Registry!RegistryNext]_(Registry!registryVars)
  <2>1. CASE final[gen] = None
    BY <1>1, <1>3, <2>1 DEF Check, disk
  <2>2. CASE final[gen] # None
    <3>1. gen \in Generations /\ final[gen] \in Directory /\ final[gen].complete
        BY <2>2 DEF TypeOK, Committed
    <3>2. UNCHANGED final /\ saved' = [saved EXCEPT ![r] = gen]
        BY <1>3, <2>2, <3>1 DEF Check, disk
    <3>3. Registry!Acknowledge(r, gen)
        BY <2>2, <3>1, <3>2, SummaryExists DEF Registry!Acknowledge
    <3> QED
        BY <3>1, <3>3 DEF Registry!RegistryNext
  <2> QED
    BY <2>1, <2>2
<1>4. ASSUME Rename PROVE Registry!RegistryNext
  <2> DEFINE d == partial[gen]
  <2>1. /\ pc[Zero] = "rename" /\ final[gen] = None /\ UNCHANGED saved
        /\ final' = [final EXCEPT ![gen] = d]
    BY <1>4 DEF Rename
  <2>2. /\ d # None /\ Summary(d) = Registry!Whole(attempt, accepted)
    BY <2>1 DEF OwnDirectory, Opened, At, Renaming
  <2>3. attempt \in Attempts /\ accepted \in BOOLEAN /\ gen \in Generations
    BY <2>1 DEF TypeOK, Attempts
  <2>4. PICK g \in Generations : g = gen
    BY <2>3
  <2>5. Registry!Commit(g)
    BY <2>1, <2>2, <2>3, <2>4 DEF Registry!Commit, TypeOK
  <2> QED
    BY <2>5 DEF Registry!RegistryNext
<1>5. CASE LaunchFresh \/ Resume
    BY <1>2, <1>5 DEF LaunchFresh, Resume, Registry!RegistryNext
<1>6. CASE Train \/ End \/ Barrier \/ UNCHANGED vars
    BY <1>1, <1>6 DEF Train, End, Barrier, vars, disk
<1>7. CASE RankZeroNext
  <2>1. CASE Rename
    BY <1>4, <2>1
  <2>2. CASE ~Rename
    BY <1>1, <1>7, <2>2 DEF RankZeroNext, Prepare, PrepareFails, Assemble, Seal, Point,
                            CommitFails, PointFails, disk
  <2> QED
    BY <2>1, <2>2
<1>8. ASSUME NEW r \in Ranks, RankNext(r)
      PROVE  [Registry!RegistryNext]_(Registry!registryVars)
  <2>1. CASE Check(r)
    BY <1>3, <2>1
  <2>2. CASE ~Check(r)
    BY <1>1, <1>8, <2>2 DEF RankNext, EnterOther, Receive, WriteRank, WriteRankFails, Die, disk
  <2> QED
    BY <2>1, <2>2
<1> QED
    BY <1>5, <1>6, <1>7, <1>8 DEF Next

(* The collective, crash-prone save() is a write-once registry: each       *)
(* generation is committed once, at once, with all its parts of one launch.*)
THEOREM SaveImplementsRegistry == Spec => ImplementsRegistry
<1>1. SaveInv /\ [Next]_vars => [Registry!RegistryNext]_(Registry!registryVars)
    BY StepRefines
<1> QED
    BY InitRefines, SaveInvariant, <1>1, PTL
       DEF Spec, ImplementsRegistry, Registry!RegistrySpec
=============================================================================
