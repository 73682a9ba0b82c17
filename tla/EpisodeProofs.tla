---------------------------- MODULE EpisodeProofs ----------------------------
(***************************************************************************)
(* Theorems about what one of the ranks does to bring in an episode, each  *)
(* in the behaviours of MCFlywheelRun in which that part moves: the        *)
(* verdicts of the transfer task, whatever its four counts are, and of the *)
(* lift, whatever the limits of the oracle and of the controller are; and  *)
(* that the collection of the episode stops only over what physics did and *)
(* that its finished ledger tells what happened.                           *)
(***************************************************************************)
EXTENDS MCFlywheelRun, BasicFacts

-----------------------------------------------------------------------------
(* The transfer task.  The invariant ties the latches of the code to what  *)
(* the frames showed, phase by phase: before the grasp nothing is latched; *)
(* carrying, the latches say how high and where the bottle last was in the *)
(* hand; after the release the settle count is the rest seen since.        *)

Remembrance == [row : Nat, carried : BOOLEAN, top : 0..2, left : Transfer!Place,
                free : Nat, still : Nat, again : BOOLEAN, here : Transfer!Place]

TransferTypes ==
    /\ Transfer!TypeOK
    /\ moved \in BOOLEAN /\ reached \in BOOLEAN /\ armed \in BOOLEAN
    /\ transferred \in BOOLEAN /\ fail \in BOOLEAN
    /\ seen \in [world : Transfer!World, ready : BOOLEAN, placed : BOOLEAN]
    /\ told \in [reward : Int, terminated : BOOLEAN, truncated : BOOLEAN, once : BOOLEAN]
    /\ past \in Remembrance
    /\ frame > 0 => transferStep < TransferSteps

BeforeTransferGrasp ==
    phase = "approach" =>
        /\ grip < GraspFrames /\ past.row = grip
        /\ gap = 0 /\ best = 0 /\ ~moved /\ ~reached /\ ~armed
        /\ ~past.carried /\ past.top = 0 /\ past.free = 0 /\ past.still = 0 /\ ~past.again

InTheHand ==
    phase = "carrying" =>
        /\ past.carried /\ past.free = gap /\ gap < ReleaseFrames
        /\ past.top = best /\ (moved <=> best >= 1) /\ (reached <=> best = 2)
        /\ (armed <=> reached /\ past.left = "goal")
        /\ past.still = 0 /\ ~past.again

LetGo ==
    phase = "released" =>
        /\ Transfer!SetDown /\ ~past.again
        /\ past.free \in {ReleaseFrames, ReleaseFrames + 1}
        /\ past.still = settle /\ settle < SettleFrames
        /\ (past.free = ReleaseFrames => settle = 0)

TransferInv == /\ TransferTypes /\ BeforeTransferGrasp /\ InTheHand /\ LetGo
       /\ Transfer!VerdictIsDeserved /\ Transfer!VerdictIsTold /\ Transfer!PlacedLagsAtReleaseOnly

(* What a frame shows of the world, field by field. *)
LEMMA FieldsOfWorld == ASSUME NEW w \in Transfer!World PROVE
    /\ w.touch \in {"none", "some", "opposed"}
    /\ w.place \in Transfer!Place /\ w.static \in BOOLEAN
    /\ Transfer!Lift(w.place) \in 0..2
    /\ Transfer!Touched(w) \in BOOLEAN /\ Transfer!Valid(w) \in BOOLEAN
    /\ Transfer!Valid(w) => Transfer!Lift(w.place) = 0
  BY DEF Transfer!World, Transfer!Place, Transfer!Lift, Transfer!Touched, Transfer!Valid

(* The counters of a transfer are naturals within their bounds. *)
LEMMA TransferCounts == ASSUME Transfer!TransferAssumption, TransferTypes PROVE
    /\ grip \in Nat /\ gap \in Nat /\ settle \in Nat /\ best \in 0..2
    /\ frame \in Nat /\ transferStep \in Nat
    /\ frame <= FramesPerStep /\ transferStep <= TransferSteps
    /\ FramesPerStep \in Nat \ {0} /\ GraspFrames \in Nat \ {0} /\ ReleaseFrames \in Nat \ {0}
    /\ SettleFrames \in Nat \ {0} /\ TransferSteps \in Nat \ {0}
  BY DEF Transfer!TransferAssumption, TransferTypes, Transfer!TypeOK

(* What a frame without a verdict adds to the history, field by field.     *)
LEMMA Remembered ==
    ASSUME Transfer!TransferAssumption, NEW p \in Remembrance, NEW w \in Transfer!World, NEW q,
           q = Transfer!Remember(p, w)
    PROVE  /\ q \in Remembrance
           /\ q.carried <=> p.carried \/ (w.touch = "opposed" /\ p.row + 1 = GraspFrames)
           /\ q.row = IF q.carried \/ w.touch # "opposed" THEN 0 ELSE p.row + 1
           /\ q.free = IF ~q.carried \/ Transfer!Touched(w) THEN 0
                       ELSE IF p.free > ReleaseFrames THEN p.free ELSE p.free + 1
           /\ q.top = IF q.carried /\ Transfer!Touched(w) /\ Transfer!Lift(w.place) > p.top
                      THEN Transfer!Lift(w.place) ELSE p.top
           /\ q.left = IF q.carried /\ Transfer!Touched(w) THEN w.place ELSE p.left
           /\ q.still = IF q.free > ReleaseFrames /\ w.static THEN p.still + 1 ELSE 0
           /\ q.again <=> p.again \/ (Transfer!Touched(w) /\ p.free >= ReleaseFrames)
           /\ q.here = w.place
<1> DEFINE row == IF p.carried \/ w.touch # "opposed" THEN 0 ELSE p.row + 1
           carried == p.carried \/ row = GraspFrames
           free == IF carried /\ ~Transfer!Touched(w)
                   THEN IF p.free > ReleaseFrames THEN p.free ELSE p.free + 1 ELSE 0
<1>1. /\ Transfer!Lift(w.place) \in 0..2 /\ w.place \in Transfer!Place
      /\ Transfer!Touched(w) \in BOOLEAN /\ w.static \in BOOLEAN
  BY FieldsOfWorld
<1>2. /\ p.row \in Nat /\ p.carried \in BOOLEAN /\ p.top \in 0..2 /\ p.left \in Transfer!Place
      /\ p.free \in Nat /\ p.still \in Nat /\ p.again \in BOOLEAN /\ p.here \in Transfer!Place
  BY DEF Remembrance
<1>3. q.carried = carried /\ q.row = IF carried THEN 0 ELSE row
  BY DEF Transfer!Remember
<1>4. q.free = free /\ q.here = w.place
  BY DEF Transfer!Remember
<1>5. q.top = IF carried /\ Transfer!Touched(w) /\ Transfer!Lift(w.place) > p.top
              THEN Transfer!Lift(w.place) ELSE p.top
  BY DEF Transfer!Remember
<1>6. q.left = IF carried /\ Transfer!Touched(w) THEN w.place ELSE p.left
  BY DEF Transfer!Remember
<1>7. q.still = IF free > ReleaseFrames /\ w.static THEN p.still + 1 ELSE 0
  BY DEF Transfer!Remember
<1>8. q.again = (p.again \/ (Transfer!Touched(w) /\ p.free >= ReleaseFrames))
  BY DEF Transfer!Remember
<1>9. row \in Nat /\ free \in Nat /\ carried \in BOOLEAN
  BY <1>1, <1>2
<1>10. carried <=> p.carried \/ (w.touch = "opposed" /\ p.row + 1 = GraspFrames)
  BY <1>2 DEF Transfer!TransferAssumption
<1>11. q \in Remembrance
  <2>1. q = [row |-> q.row, carried |-> q.carried, top |-> q.top, left |-> q.left,
             free |-> q.free, still |-> q.still, again |-> q.again, here |-> q.here]
    BY DEF Transfer!Remember
  <2>2. q.row \in Nat /\ q.carried \in BOOLEAN /\ q.free \in Nat /\ q.here \in Transfer!Place
    BY <1>1, <1>3, <1>4, <1>9
  <2>3. q.top \in 0..2 /\ q.left \in Transfer!Place
    BY <1>1, <1>2, <1>5, <1>6
  <2>4. q.still \in Nat /\ q.again \in BOOLEAN
    BY <1>2, <1>7, <1>8
  <2> QED BY <2>1, <2>2, <2>3, <2>4 DEF Remembrance
<1>12. q.row = IF q.carried \/ w.touch # "opposed" THEN 0 ELSE p.row + 1
  BY <1>2, <1>3, <1>10
<1> QED BY <1>3, <1>4, <1>5, <1>6, <1>7, <1>8, <1>10, <1>11, <1>12

(* The fields of the history after the frame w, and of its evaluation.     *)
LEMMA FrameFacts ==
    ASSUME Transfer!TransferAssumption, TransferTypes, NEW w \in Transfer!World,
           seen' = Transfer!Evaluation(w)
    PROVE  /\ seen' \in [world : Transfer!World, ready : BOOLEAN, placed : BOOLEAN]
           /\ seen'.world = w
           /\ seen'.placed =
                (phase \in {"released", "success"} /\ Transfer!Valid(w) /\ ~Transfer!Touched(w))
<1>1. Transfer!Valid(w) \in BOOLEAN /\ Transfer!Touched(w) \in BOOLEAN
  BY FieldsOfWorld
<1> QED BY <1>1 DEF Transfer!Evaluation, TransferTypes

(* The type invariant after a frame whose phase, counters and memory are well typed. *)
LEMMA FrameTypes ==
    ASSUME Transfer!TransferAssumption, TransferTypes, NEW w \in Transfer!World,
           seen' = Transfer!Evaluation(w),
           frame' = frame + 1, frame < FramesPerStep, transferStep < TransferSteps,
           UNCHANGED <<transferStep, told>>,
           past' \in Remembrance,
           phase' \in {"approach", "carrying", "released", "success", "fail"},
           grip' \in 0..GraspFrames, gap' \in 0..ReleaseFrames, settle' \in 0..SettleFrames,
           best' \in 0..2, moved' \in BOOLEAN, reached' \in BOOLEAN, armed' \in BOOLEAN,
           transferred' \in BOOLEAN, fail' \in BOOLEAN
    PROVE  TransferTypes'
<1>1. frame' \in 0..FramesPerStep /\ transferStep' \in 0..TransferSteps
  BY TransferCounts
<1>2. Transfer!TypeOK'
  BY <1>1 DEF Transfer!TypeOK
<1>3. told' \in [reward : Int, terminated : BOOLEAN, truncated : BOOLEAN, once : BOOLEAN]
  BY DEF TransferTypes
<1> QED BY <1>2, <1>3, FrameFacts DEF TransferTypes

(* Once there is a verdict a frame changes only what was seen.             *)
LEMMA FrameAfterVerdict ==
    ASSUME Transfer!TransferAssumption, TransferInv, NEW w \in Transfer!World,
           seen' = Transfer!Evaluation(w), Transfer!Advance(w),
           transferred \/ fail, past' = past, frame' = frame + 1, frame < FramesPerStep,
           transferStep < TransferSteps, UNCHANGED <<transferStep, told>>
    PROVE  TransferInv'
<1>1. UNCHANGED <<phase, grip, gap, settle, best, moved, reached, armed, transferred, fail>>
  BY DEF Transfer!Advance
<1>2. phase \in {"success", "fail"} /\ frame \in Nat /\ frame' # 0
  <2>1. frame \in Nat /\ frame' # 0
    BY TransferCounts DEF TransferInv
  <2>2. phase \in {"success", "fail"}
    BY DEF TransferInv, Transfer!VerdictIsTold
  <2> QED BY <2>1, <2>2
<1>3. TransferTypes'
  <2>1. TransferTypes
    BY DEF TransferInv
  <2>2. /\ past' \in Remembrance
        /\ phase' \in {"approach", "carrying", "released", "success", "fail"}
        /\ grip' \in 0..GraspFrames /\ gap' \in 0..ReleaseFrames /\ settle' \in 0..SettleFrames
        /\ best' \in 0..2 /\ moved' \in BOOLEAN /\ reached' \in BOOLEAN /\ armed' \in BOOLEAN
        /\ transferred' \in BOOLEAN /\ fail' \in BOOLEAN
    BY <1>1, <2>1 DEF TransferTypes, Transfer!TypeOK
  <2> QED BY <2>1, <2>2, FrameTypes
<1>4. BeforeTransferGrasp' /\ InTheHand' /\ LetGo' /\ Transfer!PlacedLagsAtReleaseOnly'
  BY <1>1, <1>2 DEF BeforeTransferGrasp, InTheHand, LetGo, Transfer!PlacedLagsAtReleaseOnly
<1>5. Transfer!VerdictIsDeserved'
  BY <1>1 DEF TransferInv, Transfer!VerdictIsDeserved, Transfer!SetDown
<1>6. Transfer!VerdictIsTold'
  BY <1>1, <1>2 DEF TransferInv, Transfer!VerdictIsTold
<1> QED BY <1>3, <1>4, <1>5, <1>6 DEF TransferInv

(* A frame of the approach: the hold is counted, begins again, or becomes the grasp. *)
LEMMA FrameBeforeGrasp ==
    ASSUME Transfer!TransferAssumption, TransferInv, NEW w \in Transfer!World,
           seen' = Transfer!Evaluation(w), Transfer!Advance(w),
           ~transferred, ~fail, phase = "approach", past' = Transfer!Remember(past, w),
           frame' = frame + 1, frame < FramesPerStep, transferStep < TransferSteps,
           UNCHANGED <<transferStep, told>>
    PROVE  TransferInv'
<1>1. Transfer!Approach(w) /\ frame \in Nat /\ frame' # 0
  <2>1. frame \in Nat /\ frame' # 0
    BY TransferCounts DEF TransferInv
  <2>2. Transfer!Approach(w)
    BY DEF Transfer!Advance
  <2> QED BY <2>1, <2>2
<1>2. /\ grip < GraspFrames /\ past.row = grip /\ gap = 0 /\ best = 0
      /\ ~moved /\ ~reached /\ ~armed /\ ~past.carried /\ past.top = 0 /\ past.free = 0
      /\ past.still = 0 /\ ~past.again /\ grip \in Nat
  BY DEF TransferInv, BeforeTransferGrasp, TransferTypes, Transfer!TypeOK
<1>3. past \in Remembrance /\ TransferTypes
  BY DEF TransferInv, TransferTypes
<1>4. CASE w.touch = "opposed" /\ grip + 1 >= GraspFrames
  <2>1. Transfer!Touched(w) /\ grip' = grip + 1 /\ Transfer!Carry(w) /\ grip + 1 = GraspFrames
    BY <1>1, <1>2, <1>4 DEF Transfer!Approach, Transfer!Touched, Transfer!TransferAssumption
  <2>2. /\ gap' = 0 /\ phase' = "carrying" /\ best' = Transfer!Lift(w.place)
        /\ (moved' <=> Transfer!Lift(w.place) >= 1) /\ (reached' <=> Transfer!Lift(w.place) = 2)
        /\ (armed' <=> reached' /\ Transfer!Valid(w)) /\ UNCHANGED <<settle, transferred, fail>>
        /\ moved' \in BOOLEAN /\ reached' \in BOOLEAN /\ armed' \in BOOLEAN
    <3>1. Transfer!Lift(w.place) \in 0..2 /\ Transfer!Valid(w) \in BOOLEAN
      BY FieldsOfWorld
    <3>2. gap' = 0 /\ phase' = "carrying" /\ UNCHANGED <<settle, transferred, fail>>
      BY <2>1 DEF Transfer!Carry
    <3>3. best' = Transfer!Lift(w.place)
      BY <1>2, <2>1, <3>1 DEF Transfer!Carry
    <3>4. /\ moved' = (moved \/ Transfer!Lift(w.place) >= 1)
          /\ armed' = (reached' /\ Transfer!Valid(w))
      BY <2>1 DEF Transfer!Carry
    <3>5. reached' = (reached \/ (moved' /\ best' >= 2))
      BY <2>1 DEF Transfer!Carry
    <3>6. (moved' <=> Transfer!Lift(w.place) >= 1) /\ moved' \in BOOLEAN
      BY <1>2, <3>4
    <3>7. (reached' <=> Transfer!Lift(w.place) = 2) /\ reached' \in BOOLEAN
      <4>1. /\ best' >= 2 <=> Transfer!Lift(w.place) = 2
            /\ Transfer!Lift(w.place) = 2 => Transfer!Lift(w.place) >= 1
        BY <3>1, <3>3
      <4> DEFINE high == best' >= 2
                 two == Transfer!Lift(w.place) = 2
                 one == Transfer!Lift(w.place) >= 1
      <4>2. reached' = (reached \/ (moved' /\ high))
        BY <3>5
      <4>3. (high <=> two) /\ (two => one) /\ (moved' <=> one)
        BY <3>6, <4>1
      <4> HIDE DEF high, two, one
      <4>4. (reached' <=> two) /\ reached' \in BOOLEAN
        BY <1>2, <4>2, <4>3
      <4> QED BY <4>4 DEF two
    <3> QED BY <3>1, <3>2, <3>3, <3>4, <3>6, <3>7
  <2>3. /\ past'.carried /\ past'.free = 0 /\ past'.top = Transfer!Lift(w.place)
        /\ past'.left = w.place /\ past'.still = 0 /\ ~past'.again
    <3> DEFINE p == past
               q == past'
    <3>1. q = Transfer!Remember(p, w) /\ p \in Remembrance
      BY <1>3
    <3>2. w.touch = "opposed" /\ p.row + 1 = GraspFrames /\ p.top = 0 /\ p.still = 0 /\ ~p.again
      BY <1>2, <1>4, <2>1
    <3>3. q.carried /\ q.free = 0 /\ q.left = w.place
      BY <2>1, <3>1, <3>2, Remembered
    <3>4. Transfer!Lift(w.place) \in 0..2
      BY FieldsOfWorld
    <3>5. q.top = Transfer!Lift(w.place)
      BY <2>1, <3>1, <3>2, <3>3, <3>4, Remembered
    <3>6. q.still = 0
      BY <3>1, <3>3, Remembered DEF Transfer!TransferAssumption
    <3>7. ~q.again
      BY <1>2, <3>1, <3>2, Remembered DEF Transfer!TransferAssumption
    <3> QED BY <3>3, <3>5, <3>6, <3>7
  <2>4. TransferTypes'
    <3>1. Transfer!Lift(w.place) \in 0..2 /\ Transfer!Valid(w) \in BOOLEAN
      BY FieldsOfWorld
    <3>2. past' \in Remembrance
      BY <1>3, Remembered
    <3>3. grip' \in 0..GraspFrames /\ gap' \in 0..ReleaseFrames /\ settle' \in 0..SettleFrames
      BY <1>2, <1>3, <2>1, <2>2, TransferCounts DEF Transfer!TransferAssumption, TransferTypes,
                                                    Transfer!TypeOK
    <3> QED BY <1>3, <2>2, <3>1, <3>2, <3>3, FrameTypes DEF TransferTypes
  <2>5. BeforeTransferGrasp' /\ InTheHand' /\ LetGo' /\ Transfer!PlacedLagsAtReleaseOnly'
    BY <2>2, <2>3 DEF BeforeTransferGrasp, InTheHand, LetGo, Transfer!PlacedLagsAtReleaseOnly,
                      Transfer!Valid, Transfer!TransferAssumption
  <2>6. Transfer!VerdictIsDeserved' /\ Transfer!VerdictIsTold'
    BY <1>1, <2>2, <2>3 DEF TransferInv, Transfer!VerdictIsDeserved, Transfer!VerdictIsTold
  <2> QED BY <2>4, <2>5, <2>6 DEF TransferInv
<1>5. CASE ~(w.touch = "opposed" /\ grip + 1 >= GraspFrames)
  <2>1. /\ grip' = IF w.touch = "opposed" THEN grip + 1 ELSE 0
        /\ grip' < GraspFrames /\ grip' \in Nat
        /\ UNCHANGED <<phase, gap, settle, best, moved, reached, armed, transferred, fail>>
    BY <1>1, <1>2, <1>5 DEF Transfer!Approach, Transfer!TransferAssumption
  <2>2. /\ ~past'.carried /\ past'.free = 0 /\ past'.top = 0 /\ past'.row = grip'
        /\ past'.still = 0 /\ ~past'.again
    <3> DEFINE p == past
               q == past'
    <3>1. q = Transfer!Remember(p, w) /\ p \in Remembrance
      BY <1>3
    <3>2. /\ ~p.carried /\ p.row = grip /\ p.top = 0 /\ p.still = 0 /\ ~p.again /\ p.free = 0
          /\ ~(w.touch = "opposed" /\ p.row + 1 = GraspFrames)
      BY <1>2, <1>5 DEF Transfer!TransferAssumption
    <3>3. ~q.carried
      BY <3>1, <3>2, Remembered
    <3> QED BY <2>1, <3>1, <3>2, <3>3, Remembered DEF Transfer!TransferAssumption
  <2>3. TransferTypes'
    <3>1. past' \in Remembrance
      BY <1>3, Remembered
    <3>2. grip' \in 0..GraspFrames
      BY <2>1 DEF Transfer!TransferAssumption
    <3> QED BY <1>3, <2>1, <3>1, <3>2, FrameTypes DEF TransferTypes, Transfer!TypeOK
  <2>4. BeforeTransferGrasp' /\ InTheHand' /\ LetGo' /\ Transfer!PlacedLagsAtReleaseOnly'
    BY <1>2, <2>1, <2>2 DEF BeforeTransferGrasp, InTheHand, LetGo,
                            Transfer!PlacedLagsAtReleaseOnly
  <2>5. Transfer!VerdictIsDeserved' /\ Transfer!VerdictIsTold'
    BY <1>1, <2>1 DEF TransferInv, Transfer!VerdictIsDeserved, Transfer!VerdictIsTold
  <2> QED BY <2>3, <2>4, <2>5 DEF TransferInv
<1> QED BY <1>4, <1>5

(* A frame with the bottle in the hand: it is carried on, put down, dropped, or let go
   after enough free frames. *)
LEMMA FrameInTheHand ==
    ASSUME Transfer!TransferAssumption, TransferInv, NEW w \in Transfer!World,
           seen' = Transfer!Evaluation(w), Transfer!Advance(w),
           ~transferred, ~fail, phase = "carrying", past' = Transfer!Remember(past, w),
           frame' = frame + 1, frame < FramesPerStep, transferStep < TransferSteps,
           UNCHANGED <<transferStep, told>>
    PROVE  TransferInv'
<1>1. Transfer!Carry(w) /\ grip' = grip /\ frame \in Nat /\ frame' # 0
  <2>1. frame \in Nat /\ frame' # 0
    BY TransferCounts DEF TransferInv
  <2>2. Transfer!Carry(w) /\ grip' = grip
    BY DEF Transfer!Advance
  <2> QED BY <2>1, <2>2
<1>2. /\ past.carried /\ past.free = gap /\ gap < ReleaseFrames /\ past.top = best
      /\ (moved <=> best >= 1) /\ (reached <=> best = 2)
      /\ (armed <=> reached /\ past.left = "goal")
      /\ past.still = 0 /\ ~past.again /\ gap \in Nat /\ best \in 0..2
      /\ moved \in BOOLEAN /\ reached \in BOOLEAN /\ armed \in BOOLEAN
  BY DEF TransferInv, InTheHand, TransferTypes, Transfer!TypeOK
<1>3. past \in Remembrance /\ TransferTypes
  BY DEF TransferInv, TransferTypes
<1>4. CASE Transfer!Touched(w)
  <2>1. /\ gap' = 0 /\ phase' = "carrying"
        /\ best' = IF Transfer!Lift(w.place) > best THEN Transfer!Lift(w.place) ELSE best
        /\ (moved' <=> best' >= 1) /\ (reached' <=> best' = 2)
        /\ (armed' <=> reached' /\ Transfer!Valid(w)) /\ UNCHANGED <<settle, transferred, fail>>
        /\ moved' \in BOOLEAN /\ reached' \in BOOLEAN /\ armed' \in BOOLEAN
    BY <1>1, <1>2, <1>4, FieldsOfWorld DEF Transfer!Carry
  <2>2. /\ past'.carried /\ past'.free = 0 /\ past'.top = best'
        /\ past'.left = w.place /\ past'.still = 0 /\ ~past'.again
    <3> DEFINE p == past
               q == past'
    <3>1. q = Transfer!Remember(p, w) /\ p \in Remembrance
      BY <1>3
    <3>2. q.carried /\ q.free = 0
      BY <1>2, <1>4, <3>1, Remembered
    <3>3. q.still = 0 /\ ~q.again
      BY <1>2, <3>1, <3>2, Remembered DEF Transfer!TransferAssumption
    <3>4. q.top = best' /\ q.left = w.place
      BY <1>2, <1>4, <2>1, <3>1, <3>2, Remembered
    <3> QED BY <3>2, <3>3, <3>4
  <2>3. TransferTypes'
    <3>1. Transfer!Lift(w.place) \in 0..2 /\ Transfer!Valid(w) \in BOOLEAN
      BY FieldsOfWorld
    <3>2. past' \in Remembrance
      BY <1>3, Remembered
    <3>3. gap' \in 0..ReleaseFrames /\ best' \in 0..2
      BY <1>2, <2>1, <3>1 DEF Transfer!TransferAssumption
    <3> QED BY <1>1, <1>3, <2>1, <3>1, <3>2, <3>3, FrameTypes DEF TransferTypes, Transfer!TypeOK
  <2>4. BeforeTransferGrasp' /\ InTheHand' /\ LetGo' /\ Transfer!PlacedLagsAtReleaseOnly'
    BY <2>1, <2>2 DEF BeforeTransferGrasp, InTheHand, LetGo, Transfer!PlacedLagsAtReleaseOnly,
                      Transfer!Valid, Transfer!TransferAssumption
  <2>5. Transfer!VerdictIsDeserved' /\ Transfer!VerdictIsTold'
    BY <1>1, <2>1, <2>2 DEF TransferInv, Transfer!VerdictIsDeserved, Transfer!VerdictIsTold
  <2> QED BY <2>3, <2>4, <2>5 DEF TransferInv
<1>5. CASE ~Transfer!Touched(w)
  <2>1. /\ gap' = gap + 1 /\ UNCHANGED <<best, moved, reached, armed, transferred>>
        /\ phase' = IF gap + 1 < ReleaseFrames THEN "carrying"
                    ELSE IF armed THEN "released" ELSE "fail"
        /\ fail' = (gap + 1 >= ReleaseFrames /\ ~armed)
        /\ settle' = IF gap + 1 >= ReleaseFrames /\ armed THEN 0 ELSE settle
        /\ gap + 1 <= ReleaseFrames
    BY <1>1, <1>2, <1>5 DEF Transfer!Carry, Transfer!TransferAssumption
  <2>2. /\ past'.carried /\ past'.free = gap + 1 /\ past'.top = best
        /\ past'.left = past.left /\ past'.still = 0 /\ ~past'.again
    <3> DEFINE p == past
               q == past'
    <3>1. q = Transfer!Remember(p, w) /\ p \in Remembrance
      BY <1>3
    <3>2. q.carried /\ q.free = gap + 1
      BY <1>2, <1>5, <3>1, Remembered DEF Transfer!TransferAssumption
    <3>3. q.still = 0 /\ ~q.again
      BY <1>2, <1>5, <2>1, <3>1, <3>2, Remembered DEF Transfer!TransferAssumption
    <3>4. q.top = best /\ q.left = p.left
      BY <1>2, <1>5, <3>1, Remembered
    <3> QED BY <3>2, <3>3, <3>4
  <2>3. TransferTypes'
    <3>1. past' \in Remembrance
      BY <1>3, Remembered
    <3>2. gap' \in 0..ReleaseFrames /\ settle' \in 0..SettleFrames
      BY <1>2, <1>3, <2>1 DEF Transfer!TransferAssumption, TransferTypes, Transfer!TypeOK
    <3>3. fail' \in BOOLEAN /\ phase' \in {"carrying", "released", "fail"}
      BY <1>2, <2>1
    <3> QED BY <1>1, <1>3, <2>1, <3>1, <3>2, <3>3, FrameTypes DEF TransferTypes, Transfer!TypeOK
  <2>4. BeforeTransferGrasp' /\ InTheHand'
    BY <1>2, <2>1, <2>2 DEF BeforeTransferGrasp, InTheHand
  <2>5. LetGo' /\ Transfer!PlacedLagsAtReleaseOnly'
    BY <1>2, <2>1, <2>2 DEF LetGo, Transfer!PlacedLagsAtReleaseOnly, Transfer!SetDown,
                            Transfer!TransferAssumption
  <2>6. Transfer!VerdictIsDeserved'
    <3>1. fail' => past'.free = ReleaseFrames /\ ~Transfer!SetDown'
      <4>1. gap + 1 >= ReleaseFrames => gap + 1 = ReleaseFrames
        BY <1>2, <2>1 DEF Transfer!TransferAssumption
      <4>2. ~armed => ~(past.top = 2 /\ past.left = "goal")
        BY <1>2
      <4>3. fail' => gap + 1 >= ReleaseFrames /\ ~armed
        BY <2>1
      <4>4. fail' => past'.free = ReleaseFrames
        BY <2>2, <4>1, <4>3
      <4>5. fail' => ~Transfer!SetDown'
        <5>1. past'.top = past.top /\ past'.left = past.left
          BY <1>2, <2>2
        <5> QED BY <4>2, <4>3, <5>1 DEF Transfer!SetDown
      <4> QED BY <4>4, <4>5
    <3>2. phase' = "released" => Transfer!SetDown' /\ past'.free >= ReleaseFrames /\ ~past'.again
      BY <2>5 DEF LetGo, Transfer!TransferAssumption
    <3>3. ~transferred'
      BY <2>1
    <3> QED BY <2>1, <2>2, <3>1, <3>2, <3>3 DEF Transfer!VerdictIsDeserved
  <2>7. Transfer!VerdictIsTold'
    <3> DEFINE out == gap + 1 >= ReleaseFrames
    <3>1. phase' = IF ~out THEN "carrying" ELSE IF armed THEN "released" ELSE "fail"
      BY <1>2, <2>1 DEF Transfer!TransferAssumption
    <3>2. fail' = (out /\ ~armed) /\ transferred' = transferred
      BY <2>1
    <3> HIDE DEF out
    <3>3. fail' = (phase' = "fail") /\ transferred' = (phase' = "success")
      <4>1. out \in BOOLEAN
        BY DEF out
      <4>2. ~transferred /\ transferred \in BOOLEAN
        BY DEF TransferInv, TransferTypes
      <4> QED BY <1>2, <3>1, <3>2, <4>1, <4>2
    <3>4. (told'.once => transferred') /\ frame' # 0
      BY <1>1, <3>2 DEF TransferInv, Transfer!VerdictIsTold
    <3> QED BY <3>3, <3>4 DEF Transfer!VerdictIsTold
  <2> QED BY <2>3, <2>4, <2>5, <2>6, <2>7 DEF TransferInv
<1> QED BY <1>4, <1>5

(* A frame after the release: the bottle rests towards success, is touched again, or
   moves away and the transfer fails. *)
LEMMA FrameLetGo ==
    ASSUME Transfer!TransferAssumption, TransferInv, NEW w \in Transfer!World,
           seen' = Transfer!Evaluation(w), Transfer!Advance(w),
           ~transferred, ~fail, phase = "released", past' = Transfer!Remember(past, w),
           frame' = frame + 1, frame < FramesPerStep, transferStep < TransferSteps,
           UNCHANGED <<transferStep, told>>
    PROVE  TransferInv'
<1>1. /\ Transfer!Settle(w) /\ UNCHANGED <<grip, gap, best, moved, reached, armed>>
      /\ frame \in Nat /\ frame' # 0
  <2>1. frame \in Nat /\ frame' # 0
    BY TransferCounts DEF TransferInv
  <2>2. Transfer!Settle(w) /\ UNCHANGED <<grip, gap, best, moved, reached, armed>>
    BY DEF Transfer!Advance
  <2> QED BY <2>1, <2>2
<1>2. /\ past.carried /\ past.top = 2 /\ past.left = "goal" /\ ~past.again
      /\ past.free \in {ReleaseFrames, ReleaseFrames + 1} /\ ReleaseFrames \in Nat \ {0}
      /\ past.still = settle /\ settle < SettleFrames /\ settle \in Nat
      /\ (past.free = ReleaseFrames => settle = 0)
  BY DEF TransferInv, LetGo, Transfer!SetDown, TransferTypes, Transfer!TypeOK,
         Transfer!TransferAssumption
<1>3. past \in Remembrance /\ TransferTypes
  BY DEF TransferInv, TransferTypes
<1>4. CASE Transfer!Touched(w)
  <2>1. fail' /\ phase' = "fail" /\ UNCHANGED <<settle, transferred>> /\ fail' \in BOOLEAN
    BY <1>1, <1>4 DEF Transfer!Settle
  <2>2. past' \in Remembrance /\ past'.again
    <3> DEFINE p == past
               q == past'
    <3>1. q = Transfer!Remember(p, w) /\ p \in Remembrance
      BY <1>3
    <3> QED BY <1>2, <1>4, <3>1, Remembered
  <2>3. TransferTypes'
    BY <1>1, <1>3, <2>1, <2>2, FrameTypes DEF TransferTypes, Transfer!TypeOK
  <2>4. BeforeTransferGrasp' /\ InTheHand' /\ LetGo' /\ Transfer!PlacedLagsAtReleaseOnly'
    BY <2>1 DEF BeforeTransferGrasp, InTheHand, LetGo, Transfer!PlacedLagsAtReleaseOnly
  <2>5. Transfer!VerdictIsDeserved' /\ Transfer!VerdictIsTold'
    BY <1>1, <2>1, <2>2 DEF TransferInv, Transfer!VerdictIsDeserved, Transfer!VerdictIsTold
  <2> QED BY <2>3, <2>4, <2>5 DEF TransferInv
<1>5. CASE ~Transfer!Touched(w)
  <2> DEFINE over == settle' >= SettleFrames
  <2>1. /\ settle' = IF w.static THEN settle + 1 ELSE 0
        /\ transferred' = (over /\ Transfer!Valid(w)) /\ fail' = (over /\ ~Transfer!Valid(w))
        /\ phase' = IF ~over THEN "released" ELSE IF Transfer!Valid(w) THEN "success" ELSE "fail"
    BY <1>1, <1>5 DEF Transfer!Settle
  <2>2. /\ past'.carried /\ past'.top = 2 /\ past'.left = "goal" /\ ~past'.again
        /\ past'.free = ReleaseFrames + 1 /\ past'.here = w.place
    <3> DEFINE p == past
               q == past'
    <3>1. q = Transfer!Remember(p, w) /\ p \in Remembrance
      BY <1>3
    <3>2. q.carried /\ q.here = w.place
      BY <1>2, <3>1, Remembered
    <3> QED BY <1>2, <1>5, <3>1, <3>2, Remembered
  <2>3. past'.still = settle'
    <3> DEFINE p == past
               q == past'
    <3>1. q = Transfer!Remember(p, w) /\ p \in Remembrance
      BY <1>3
    <3>2. q.still = IF q.free > ReleaseFrames /\ w.static THEN p.still + 1 ELSE 0
      BY <3>1, Remembered
    <3>3. q.free > ReleaseFrames
      BY <1>2, <2>2
    <3> QED BY <1>2, <2>1, <3>2, <3>3
  <2>4. settle' \in Nat /\ settle' <= SettleFrames /\ SettleFrames \in Nat \ {0}
    BY <1>2, <2>1 DEF Transfer!TransferAssumption
  <2>5. Transfer!Valid(w) \in BOOLEAN /\ w.place \in Transfer!Place
    BY FieldsOfWorld
  <2>6. TransferTypes'
    <3>1. past' \in Remembrance
      BY <1>3, Remembered
    <3>2. settle' \in 0..SettleFrames
      BY <2>4
    <3>3. /\ transferred' \in BOOLEAN /\ fail' \in BOOLEAN
          /\ phase' \in {"released", "success", "fail"}
      BY <2>1
    <3> QED BY <1>1, <1>3, <3>1, <3>2, <3>3, FrameTypes DEF TransferTypes, Transfer!TypeOK
  <2>7. BeforeTransferGrasp' /\ InTheHand'
    BY <2>1 DEF BeforeTransferGrasp, InTheHand
  <2>8. LetGo'
    BY <1>2, <2>1, <2>2, <2>3, <2>4 DEF LetGo, Transfer!SetDown
  <2>9. Transfer!PlacedLagsAtReleaseOnly'
    BY FrameFacts DEF TransferInv, Transfer!PlacedLagsAtReleaseOnly
  <2>10. Transfer!VerdictIsDeserved'
    <3>1. transferred' => past'.here = "goal" /\ past'.still >= SettleFrames
      BY <2>1, <2>2, <2>3 DEF Transfer!Valid
    <3>2. fail' => past'.here # "goal" /\ past'.still >= SettleFrames
      BY <2>1, <2>2, <2>3 DEF Transfer!Valid
    <3>3. Transfer!SetDown' /\ past'.free > ReleaseFrames /\ past'.free >= ReleaseFrames
      BY <1>2, <2>2 DEF Transfer!SetDown
    <3>4. phase' # "carrying"
      BY <2>1
    <3> QED BY <2>2, <3>1, <3>2, <3>3, <3>4 DEF Transfer!VerdictIsDeserved
  <2>11. Transfer!VerdictIsTold'
    BY <1>1, <2>1, <2>5 DEF TransferInv, Transfer!VerdictIsTold
  <2> QED BY <2>6, <2>7, <2>8, <2>9, <2>10, <2>11 DEF TransferInv
<1> QED BY <1>4, <1>5

(* The records a transfer begins with are well typed. *)
LEMMA FirstRecords ==
    /\ Transfer!NoPast \in Remembrance
    /\ Transfer!Unseen \in [world : Transfer!World, ready : BOOLEAN, placed : BOOLEAN]
    /\ Transfer!Silent \in
          [reward : Int, terminated : BOOLEAN, truncated : BOOLEAN, once : BOOLEAN]
<1>1. "table" \in Transfer!Place
  BY DEF Transfer!Place
<1>2. Transfer!Unseen.world \in Transfer!World
  BY <1>1 DEF Transfer!Unseen, Transfer!World
<1> QED BY <1>1, <1>2 DEF Transfer!NoPast, Remembrance, Transfer!Unseen, Transfer!Silent

(* A world that has just been reset is in step with its history.           *)
LEMMA TransferBegins ==
    ASSUME Transfer!TransferAssumption, Transfer!Init PROVE TransferInv
<1>1. TransferTypes
  <2>1. Transfer!TypeOK /\ ~(frame > 0)
    BY DEF Transfer!Init, Transfer!TypeOK, Transfer!TransferAssumption
  <2> QED BY <2>1, FirstRecords DEF Transfer!Init, TransferTypes
<1>2. BeforeTransferGrasp /\ InTheHand /\ LetGo
  BY DEF Transfer!Init, BeforeTransferGrasp, InTheHand, LetGo, Transfer!NoPast,
         Transfer!TransferAssumption
<1>3. Transfer!VerdictIsDeserved /\ Transfer!VerdictIsTold /\ Transfer!PlacedLagsAtReleaseOnly
  BY DEF Transfer!Init, Transfer!VerdictIsDeserved, Transfer!VerdictIsTold,
         Transfer!PlacedLagsAtReleaseOnly, Transfer!Silent
<1> QED BY <1>1, <1>2, <1>3 DEF TransferInv

(* A frame, the end of a control step and a reset keep them in step.       *)
LEMMA TransferStep ==
    ASSUME Transfer!TransferAssumption, TransferInv, [Transfer!Next]_transferVars
    PROVE  TransferInv'
<1>1. CASE Transfer!Frame
  <2>1. PICK w \in Transfer!World :
          /\ seen' = Transfer!Evaluation(w) /\ Transfer!Advance(w)
          /\ past' = IF transferred \/ fail THEN past ELSE Transfer!Remember(past, w)
    BY <1>1 DEF Transfer!Frame
  <2>2. /\ frame' = frame + 1 /\ frame < FramesPerStep /\ transferStep < TransferSteps
        /\ UNCHANGED <<transferStep, told>>
    BY <1>1 DEF Transfer!Frame
  <2>3. CASE transferred \/ fail
    BY <2>1, <2>2, <2>3, FrameAfterVerdict
  <2>4. CASE ~transferred /\ ~fail /\ phase = "approach"
    BY <2>1, <2>2, <2>4, FrameBeforeGrasp
  <2>5. CASE ~transferred /\ ~fail /\ phase = "carrying"
    BY <2>1, <2>2, <2>5, FrameInTheHand
  <2>6. CASE ~transferred /\ ~fail /\ phase = "released"
    BY <2>1, <2>2, <2>6, FrameLetGo
  <2>7. phase \in {"approach", "carrying", "released"} \/ transferred \/ fail
    BY DEF TransferInv, TransferTypes, Transfer!TypeOK, Transfer!VerdictIsTold
  <2> QED BY <2>3, <2>4, <2>5, <2>6, <2>7
<1>2. CASE Transfer!EndStep
  <2>1. /\ UNCHANGED <<phase, grip, gap, settle, best, moved, reached, armed, transferred, fail,
                       seen, past>>
        /\ frame' = 0 /\ transferStep' = transferStep + 1
        /\ told'.terminated = (transferred \/ fail) /\ told'.once = (told.once \/ transferred)
    BY <1>2 DEF Transfer!EndStep
  <2>2. told' \in [reward : Int, terminated : BOOLEAN, truncated : BOOLEAN, once : BOOLEAN]
    <3>1. Transfer!Dense \in Int
      <4>1. transferred \/ fail \/ phase \in {"approach", "carrying", "released"}
        BY DEF TransferInv, TransferTypes, Transfer!TypeOK, Transfer!VerdictIsTold
      <4>2. transferred \in BOOLEAN /\ fail \in BOOLEAN
        BY DEF TransferInv, TransferTypes
      <4> QED BY <4>1, <4>2 DEF Transfer!Dense
    <3> QED BY <1>2, <3>1 DEF Transfer!EndStep, TransferInv, TransferTypes
  <2>3. transferStep' \in 0..TransferSteps
    BY <1>2, TransferCounts DEF Transfer!EndStep, TransferInv, TransferTypes
  <2>4. TransferTypes'
    BY <2>1, <2>2, <2>3 DEF TransferInv, TransferTypes, Transfer!TypeOK,
                            Transfer!TransferAssumption
  <2>5. /\ BeforeTransferGrasp' /\ InTheHand' /\ LetGo'
        /\ Transfer!PlacedLagsAtReleaseOnly' /\ Transfer!VerdictIsDeserved'
    BY <2>1 DEF TransferInv, BeforeTransferGrasp, InTheHand, LetGo,
                Transfer!PlacedLagsAtReleaseOnly, Transfer!VerdictIsDeserved,
                Transfer!SetDown
  <2>6. Transfer!VerdictIsTold'
    BY <2>1 DEF TransferInv, Transfer!VerdictIsTold
  <2> QED BY <2>4, <2>5, <2>6 DEF TransferInv
<1>3. CASE Transfer!Reset
  <2>1. TransferTypes'
    <3>1. Transfer!TypeOK' /\ ~(frame' > 0)
      BY <1>3 DEF Transfer!Reset, Transfer!TypeOK, Transfer!TransferAssumption
    <3> QED BY <1>3, <3>1, FirstRecords DEF Transfer!Reset, TransferTypes
  <2>2. BeforeTransferGrasp' /\ InTheHand' /\ LetGo'
    BY <1>3 DEF Transfer!Reset, BeforeTransferGrasp, InTheHand, LetGo, Transfer!NoPast,
                Transfer!TransferAssumption
  <2>3. /\ Transfer!VerdictIsDeserved' /\ Transfer!VerdictIsTold'
        /\ Transfer!PlacedLagsAtReleaseOnly'
    BY <1>3 DEF Transfer!Reset, Transfer!VerdictIsDeserved, Transfer!VerdictIsTold,
                Transfer!PlacedLagsAtReleaseOnly, Transfer!Silent
  <2> QED BY <2>1, <2>2, <2>3 DEF TransferInv
<1>4. CASE UNCHANGED transferVars
  BY <1>4 DEF transferVars, TransferInv, TransferTypes, Transfer!TypeOK, BeforeTransferGrasp,
              InTheHand, LetGo, Transfer!VerdictIsDeserved,
              Transfer!VerdictIsTold, Transfer!PlacedLagsAtReleaseOnly, Transfer!SetDown
<1> QED BY <1>1, <1>2, <1>3, <1>4 DEF Transfer!Next

(* A success was earned and a failure has a cause, the caller is told what *)
(* the frames decided, and the report lags behind the phase in the frame   *)
(* of the release alone, however many frames each count asks for           *)
(* (_advance_transfer_phase and _advance_episode).                         *)
THEOREM TransferSound == ASSUME Transfer!TransferAssumption PROVE MCSpec => []TransferIsSound
<1>1. MCInit => (part = "transfer" => TransferInv)
  BY TransferBegins DEF MCInit
<1>2. /\ part = "transfer" => TransferInv
      /\ [MCNext]_<<part, vars, collectVars, transferVars, graspVars>>
      => (part = "transfer" => TransferInv)'
  BY TransferStep DEF MCNext, transferVars
<1>3. (part = "transfer" => TransferInv) => TransferIsSound
  BY DEF TransferInv, TransferTypes, TransferIsSound, Transfer!TransferIsSound
<1> QED BY <1>1, <1>2, <1>3, PTL DEF MCSpec

-----------------------------------------------------------------------------
(* The lift of a bottle.  While the rows of the world are open the oracle's *)
(* counters are the history's, and neither has a verdict; the controller's *)
(* counters never claim more than was held; and what its rows cost is paid *)
(* for by budgets that no retry restores.                                  *)

LiftPhases == {"approach", "close", "confirm", "lift", "success_hold"} \cup Grasp!Terminal
Oracles == [confirmed : BOOLEAN, gap : Nat, hold : Nat, success : BOOLEAN, failure : BOOLEAN,
            faults : SUBSET {"forbidden", "pose", "dropped", "overflow"}]
Controllers == [phase : LiftPhases, approach : Nat, closed : Nat, elapsed : Nat, stable : Nat,
                confirm : Nat, lift : Nat, hold : Nat, tentative : BOOLEAN, frozen : BOOLEAN]
Records == [steps : Nat, success : BOOLEAN, failure : BOOLEAN, phase : LiftPhases \cup {None}]
Stories == [run : Nat, top : Nat, empty : Nat, full : BOOLEAN, lost : BOOLEAN, bad : BOOLEAN]

GraspTypes ==
    /\ driver \in {"author", "policy"} /\ batch \in {"running", "ended", "aborted"}
    /\ liftStep \in 0 .. LiftSteps /\ (batch = "running" => liftStep < LiftSteps)
    /\ frames \in Seq(Grasp!Contact) /\ Len(frames) <= FramesPerStep /\ palm \in BOOLEAN
    /\ oracle \in Oracles /\ ctl \in Controllers /\ record \in Records /\ story \in Stories
    /\ record.steps <= liftStep

(* The oracle's counters are below their limits until it has a verdict,    *)
(* and it never has two.                                                   *)
OracleHolds ==
    /\ oracle.gap <= DropSteps /\ oracle.hold <= HoldSteps
    /\ ~(oracle.success /\ oracle.failure)
    /\ (~oracle.success /\ ~oracle.failure) => oracle.gap < DropSteps /\ oracle.hold < HoldSteps

(* While the rows are open.                                                *)
OpenRows ==
    ~Grasp!Closed =>
        /\ ~oracle.success /\ ~oracle.failure /\ ~record.success /\ ~record.failure
        /\ story.full = oracle.confirmed /\ story.empty = oracle.gap /\ story.top = oracle.hold
        /\ ~story.lost /\ ~story.bad
        /\ record.steps > 0 => record.phase \notin Grasp!Terminal

(* What the counters of a controller mean, phase by phase, when the target *)
(* has been held for the last run control steps.                           *)
Held(c, run) ==
    /\ c.phase = "approach" =>
        c.approach < ApproachSteps /\ c.elapsed = 0 /\ c.stable = 0 /\ ~c.tentative /\ ~c.frozen
    /\ c.phase = "close" =>
        /\ c.elapsed < MaxClose /\ ~c.frozen
        /\ IF c.tentative THEN run >= c.stable ELSE c.stable = 0
    /\ c.phase = "confirm" =>
        /\ c.elapsed <= MaxClose /\ c.confirm < ConfirmSteps /\ c.tentative /\ c.frozen
        /\ run >= StableSteps + c.confirm
    /\ c.phase = "lift" =>
        /\ c.elapsed <= MaxClose /\ c.lift < MaxLift /\ c.hold = 0 /\ c.tentative /\ c.frozen
        /\ run >= StableSteps + ConfirmSteps + c.lift
    /\ c.phase = "success_hold" =>
        /\ c.elapsed <= MaxClose /\ c.hold < MaxHold /\ c.tentative /\ c.frozen
        /\ run >= StableSteps + ConfirmSteps + MaxLift + c.hold

Holding == (driver = "policy" => ctl = Grasp!NewController) /\ Held(ctl, story.run)

(* What n rows cost, after v visits to the confirmation that took a steps  *)
(* of closing and b of confirming.                                         *)
Costs(c, n, a, b) ==
    /\ c.phase = "approach" => a = 0 /\ b = 0 /\ n <= c.approach
    /\ c.phase = "close" => a + c.stable <= c.elapsed /\ n <= ApproachSteps + c.elapsed + b
    /\ c.phase = "confirm" =>
        a + StableSteps <= c.elapsed /\ n <= ApproachSteps + c.elapsed + b + c.confirm
    /\ c.phase = "lift" => a <= c.elapsed /\ n <= ApproachSteps + c.elapsed + b + c.lift
    /\ c.phase = "success_hold" =>
        a <= c.elapsed /\ n <= ApproachSteps + c.elapsed + b + MaxLift + c.hold
    /\ c.phase \in Grasp!Terminal =>
        a <= MaxClose /\ n <= ApproachSteps + MaxClose + b + MaxLift + MaxHold

Paid(c, n) == \E v \in Nat : Costs(c, n, v * StableSteps, v * ConfirmSteps)

Budget == driver = "author" => Paid(ctl, record.steps)

GraspKnown ==
    /\ GraspTypes /\ OracleHolds /\ OpenRows /\ Holding /\ Budget
    /\ Grasp!VerdictIsDeserved /\ Grasp!PhaseMatchesOutcome

(* The numbers of the specification, one by one.                           *)
LEMMA GraspNumbers ==
    ASSUME Grasp!GraspAssumption
    PROVE  /\ FramesPerStep \in Nat \ {0} /\ GraspFrames \in Nat \ {0} /\ DropSteps \in Nat \ {0}
           /\ HoldSteps \in Nat \ {0} /\ ApproachSteps \in Nat \ {0} /\ MinCloseStep \in Nat \ {0}
           /\ MaxClose \in Nat \ {0} /\ StableSteps \in Nat \ {0} /\ ConfirmSteps \in Nat \ {0}
           /\ MaxLift \in Nat \ {0} /\ MaxHold \in Nat \ {0} /\ LiftSteps \in Nat \ {0}
           /\ GraspFrames <= FramesPerStep
BY DEF Grasp!GraspAssumption

(* The longest run of opposed frames is n long or longer exactly when      *)
(* there is one of n frames.                                               *)
LEMMA GripIsLong ==
    ASSUME NEW fs \in Seq(Grasp!Contact), NEW n \in Nat \ {0}
    PROVE  Grasp!LongestGrip(fs) >= n <=>
               \E k \in 0 .. (Len(fs) - n) : \A j \in 1 .. n : fs[k + j] = "opposed"
<1> DEFINE Grip(m) == \E k \in 0 .. (Len(fs) - m) : \A j \in 1 .. m : fs[k + j] = "opposed"
           S == {0} \cup {m \in 1 .. Len(fs) : Grip(m)}
           top == Grasp!LongestGrip(fs)
<1>1. Len(fs) \in Nat /\ DOMAIN fs = 1 .. Len(fs)
  OBVIOUS
<1>2. top = CHOOSE x \in S : \A y \in S : x >= y
  BY <1>1 DEF Grasp!LongestGrip, Grasp!Max
<1>3. S \subseteq 0 .. Len(fs) /\ S # {}
  BY <1>1
<1>4. \E x \in S : \A y \in S : y <= x
  <2> HIDE DEF S
  <2> QED BY <1>1, <1>3, GreatestNatural
<1>5. top \in S /\ \A y \in S : top >= y
  <2>1. \A x, y \in S : y <= x <=> x >= y
    <3> HIDE DEF S
    <3> QED BY <1>1, <1>3
  <2>2. \E x \in S : \A y \in S : x >= y
    <3> HIDE DEF S
    <3> QED BY <1>4, <2>1
  <2> HIDE DEF S, top
  <2> QED BY <1>2, <2>2
<1>6. ASSUME Grip(n) PROVE top >= n
  <2>1. n \in 1 .. Len(fs)
    <3>1. 0 .. (Len(fs) - n) # {}
      BY <1>6
    <3> QED BY <1>1, <3>1
  <2>2. n \in S
    BY <1>6, <2>1
  <2> QED BY <1>5, <2>2
<1>7. ASSUME top >= n PROVE Grip(n)
  <2>1. top \in 1 .. Len(fs) /\ Grip(top)
    <3> HIDE DEF top, Grip
    <3> QED BY <1>1, <1>3, <1>5, <1>7
  <2>2. PICK k \in 0 .. (Len(fs) - top) : \A j \in 1 .. top : fs[k + j] = "opposed"
    BY <2>1
  <2> HIDE DEF top
  <2>3. k \in 0 .. (Len(fs) - n) /\ \A j \in 1 .. n : j \in 1 .. top
    BY <1>1, <1>7, <2>1
  <2> QED BY <2>2, <2>3
<1> QED BY <1>6, <1>7

(* A firm control step was opposed at every frame.                         *)
LEMMA FirmIsGrip ==
    ASSUME Grasp!GraspAssumption, NEW fs \in Seq(Grasp!Contact), Len(fs) = FramesPerStep,
           NEW e, Grasp!Firm(fs, e)
    PROVE  (\A k \in DOMAIN fs : fs[k] = "opposed") /\ ~e.palm
<1>1. FramesPerStep \in Nat \ {0} /\ DOMAIN fs = 1 .. FramesPerStep
  BY GraspNumbers
<1>2. PICK k \in 0 .. (Len(fs) - FramesPerStep) :
          \A j \in 1 .. FramesPerStep : fs[k + j] = "opposed"
  BY <1>1, GripIsLong DEF Grasp!Firm
<1>3. k = 0
  BY <1>1
<1> QED BY <1>1, <1>2, <1>3 DEF Grasp!Firm

(* What the oracle makes of a control step, field by field.                *)
LEMMA OracleSteps ==
    ASSUME Grasp!GraspAssumption, NEW o \in Oracles, ~o.success, ~o.failure, NEW fs, NEW e, NEW s,
           e.palm \in BOOLEAN, e.overflow \in BOOLEAN, s.tilted \in BOOLEAN, s.lifted \in BOOLEAN,
           NEW q, q = Grasp!Evaluate(o, fs, e, s), o.gap < DropSteps, o.hold < HoldSteps
    PROVE  /\ q \in Oracles /\ q.gap <= DropSteps /\ q.hold <= HoldSteps
           /\ ~(q.success /\ q.failure)
           /\ ~q.success /\ ~q.failure => q.gap < DropSteps /\ q.hold < HoldSteps
           /\ q.confirmed <=> o.confirmed \/ Grasp!LongestGrip(fs) >= GraspFrames
           /\ q.gap = IF q.confirmed /\ ~Grasp!HadContact(fs) THEN o.gap + 1 ELSE 0
           /\ q.failure <=> e.palm \/ s.tilted \/ e.overflow \/ q.gap >= DropSteps
           /\ q.success <=> q.hold >= HoldSteps
           /\ ~q.failure => q.hold = IF q.confirmed /\ Grasp!OpposedNow(fs) /\ s.lifted
                                     THEN o.hold + 1 ELSE 0
           /\ q.failure => q.hold = 0
<1> DEFINE confirmed == o.confirmed \/ Grasp!LongestGrip(fs) >= GraspFrames
           lapse == IF confirmed /\ ~Grasp!HadContact(fs) THEN o.gap + 1 ELSE 0
           faults == {f \in {"forbidden"} : e.palm} \cup {f \in {"pose"} : s.tilted}
                       \cup {f \in {"dropped"} : lapse >= DropSteps}
                       \cup {f \in {"overflow"} : e.overflow}
           hold == IF confirmed /\ Grasp!OpposedNow(fs) /\ s.lifted /\ faults = {}
                   THEN o.hold + 1 ELSE 0
           won == hold >= HoldSteps
           lost == faults # {}
<1>1. q = [confirmed |-> confirmed, gap |-> lapse, hold |-> hold,
           success |-> won, failure |-> lost, faults |-> faults]
  BY DEF Grasp!Evaluate
<1>2. o.gap \in Nat /\ o.hold \in Nat /\ o.confirmed \in BOOLEAN
  BY DEF Oracles
<1>3. lapse \in Nat /\ hold \in Nat /\ lapse <= DropSteps /\ hold <= HoldSteps
      /\ DropSteps \in Nat \ {0} /\ HoldSteps \in Nat \ {0}
  <2> HIDE DEF confirmed, faults
  <2> QED BY <1>2, GraspNumbers
<1>4. confirmed \in BOOLEAN
  BY <1>2
<1>5. /\ faults \in SUBSET {"forbidden", "pose", "dropped", "overflow"}
      /\ faults # {} <=> e.palm \/ s.tilted \/ e.overflow \/ lapse >= DropSteps
  <2> HIDE DEF lapse
  <2>1. /\ faults \subseteq {"forbidden", "pose", "dropped", "overflow"}
        /\ "forbidden" \in faults <=> e.palm
        /\ "pose" \in faults <=> s.tilted
        /\ "dropped" \in faults <=> lapse >= DropSteps
        /\ "overflow" \in faults <=> e.overflow
    OBVIOUS
  <2> QED BY <2>1
<1>6. hold = IF confirmed /\ Grasp!OpposedNow(fs) /\ s.lifted /\ faults = {}
             THEN o.hold + 1 ELSE 0
  OBVIOUS
<1>7. lapse = IF confirmed /\ ~Grasp!HadContact(fs) THEN o.gap + 1 ELSE 0
  OBVIOUS
<1>8. confirmed <=> o.confirmed \/ Grasp!LongestGrip(fs) >= GraspFrames
  OBVIOUS
<1> HIDE DEF confirmed, lapse, faults, hold
<1>9. q \in Oracles
  BY <1>1, <1>3, <1>4, <1>5 DEF Oracles
<1>10. /\ q.confirmed = confirmed /\ q.gap = lapse /\ q.hold = hold /\ q.faults = faults
       /\ (q.success <=> hold >= HoldSteps) /\ (q.failure <=> faults # {})
  <2> HIDE DEF won, lost
  <2>1. /\ q.confirmed = confirmed /\ q.gap = lapse /\ q.hold = hold /\ q.faults = faults
        /\ q.success = won /\ q.failure = lost
    BY <1>1
  <2> QED BY <2>1 DEF won, lost
<1>11. ~q.success /\ ~q.failure => q.gap < DropSteps /\ q.hold < HoldSteps
  <2>1. ~(hold >= HoldSteps) => hold < HoldSteps
    BY <1>3
  <2>2. ~(lapse >= DropSteps) => lapse < DropSteps
    BY <1>3
  <2> QED BY <1>5, <1>10, <2>1, <2>2
<1>12. ~(q.success /\ q.failure)
  <2>1. faults # {} => ~(hold >= HoldSteps)
    BY <1>3, <1>6
  <2> QED BY <1>10, <2>1
<1> QED BY <1>3, <1>5, <1>6, <1>7, <1>8, <1>9, <1>10, <1>11, <1>12

(* A step of the controller in a phase of its own: it goes on to another   *)
(* phase of its own, or gives up.                                          *)
Continues(d, run, n) ==
    /\ d \in Controllers /\ d.phase \notin {"succeeded", "oracle_failed"}
    /\ Held(d, run) /\ Paid(d, n)

(* The approach.                                                           *)
LEMMA ApproachContinues ==
    ASSUME Grasp!GraspAssumption, NEW c \in Controllers, c.phase = "approach", NEW run,
           Held(c, run), NEW more \in Nat, NEW n \in Nat, Paid(c, n)
    PROVE  Continues(Grasp!AfterApproach(c), more, n + 1)
<1> DEFINE d == Grasp!AfterApproach(c)
<1>1. /\ d \in Controllers /\ d.approach = c.approach + 1
      /\ d.phase = IF c.approach + 1 >= ApproachSteps THEN "close" ELSE "approach"
      /\ d.elapsed = c.elapsed /\ d.stable = c.stable /\ d.tentative = c.tentative
      /\ d.frozen = c.frozen
  <2> DEFINE x == c.approach + 1
             p == IF x >= ApproachSteps THEN "close" ELSE "approach"
  <2>1. d = [c EXCEPT !.approach = x, !.phase = p]
    BY DEF Grasp!AfterApproach
  <2>2. x \in Nat /\ p \in LiftPhases
    BY DEF Controllers, LiftPhases
  <2> HIDE DEF x, p, d
  <2>3. d \in Controllers
    BY <2>1, <2>2 DEF Controllers
  <2>4. /\ d.approach = x /\ d.phase = p /\ d.elapsed = c.elapsed /\ d.stable = c.stable
        /\ d.tentative = c.tentative /\ d.frozen = c.frozen
    BY <2>1 DEF Controllers
  <2> QED BY <2>3, <2>4 DEF x, p
<1>2. /\ c.approach \in Nat /\ c.approach < ApproachSteps /\ c.elapsed = 0 /\ c.stable = 0
      /\ ~c.tentative /\ ~c.frozen
  BY DEF Held, Controllers
<1>3. PICK v \in Nat : Costs(c, n, v * StableSteps, v * ConfirmSteps)
  BY DEF Paid
<1> DEFINE a == v * StableSteps
           b == v * ConfirmSteps
<1>4. a = 0 /\ b = 0 /\ n <= c.approach
  BY <1>3 DEF Costs
<1> HIDE DEF a, b, d
<1>5. Held(d, more)
  BY <1>1, <1>2, GraspNumbers DEF Held
<1>6. Costs(d, n + 1, a, b)
  BY <1>1, <1>2, <1>4, GraspNumbers DEF Costs, Grasp!Terminal
<1>7. Paid(d, n + 1)
  BY <1>6 DEF Paid, a, b
<1> QED BY <1>1, <1>5, <1>7 DEF Continues, d

(* Closing: a target counts as held by the frames that held it.            *)
LEMMA CloseContinues ==
    ASSUME Grasp!GraspAssumption, NEW c \in Controllers, c.phase = "close", NEW run \in Nat,
           Held(c, run), NEW more \in Nat, NEW n \in Nat, Paid(c, n),
           NEW firm \in BOOLEAN, NEW same \in BOOLEAN, NEW still \in BOOLEAN,
           firm => more = run + 1
    PROVE  Continues(Grasp!AfterClose(c, firm, same, still), more, n + 1)
<1> DEFINE d == Grasp!AfterClose(c, firm, same, still)
           elapsed == c.elapsed + 1
           closed == IF c.tentative THEN c.closed ELSE c.closed + 1
           found == ~c.tentative /\ firm /\ closed >= MinCloseStep
           kept == c.tentative /\ firm
           stable == IF kept /\ same THEN c.stable + 1
                     ELSE IF kept \/ found THEN 1
                     ELSE IF c.tentative THEN 0 ELSE c.stable
           verified == kept /\ same /\ stable >= StableSteps /\ still
           marked == kept \/ found
           confirm == IF verified THEN 0 ELSE c.confirm
           next == IF verified THEN "confirm"
                   ELSE IF elapsed >= MaxClose THEN "exhausted" ELSE c.phase
<1>1. d = [c EXCEPT !.elapsed = elapsed, !.closed = closed, !.stable = stable,
                    !.tentative = marked, !.frozen = c.frozen \/ verified,
                    !.confirm = confirm, !.phase = next]
  BY DEF Grasp!AfterClose
<1>2. /\ c.elapsed \in Nat /\ c.closed \in Nat /\ c.stable \in Nat /\ c.confirm \in Nat
      /\ c.tentative \in BOOLEAN /\ c.elapsed < MaxClose /\ ~c.frozen
      /\ IF c.tentative THEN run >= c.stable ELSE c.stable = 0
  BY DEF Held, Controllers
<1>3. found \in BOOLEAN /\ kept \in BOOLEAN /\ verified \in BOOLEAN
  BY <1>2
<1>4. elapsed = c.elapsed + 1 /\ elapsed \in Nat /\ closed \in Nat
  BY <1>2
<1>5. /\ stable \in Nat /\ stable <= c.stable + 1
      /\ (kept \/ found) => more >= stable
      /\ ~(kept \/ found) => stable = 0
      /\ verified => stable >= StableSteps /\ kept
  <2> HIDE DEF closed
  <2> QED BY <1>2
<1> HIDE DEF elapsed, closed, found, kept, stable, verified
<1> DEFINE ice == c.frozen \/ verified
<1>14. /\ marked \in BOOLEAN /\ confirm \in Nat /\ next \in LiftPhases /\ ice \in BOOLEAN
       /\ next = IF verified THEN "confirm"
                 ELSE IF elapsed >= MaxClose THEN "exhausted" ELSE "close"
       /\ marked = (kept \/ found) /\ ice = (c.frozen \/ verified)
  BY <1>2, <1>3, <1>4 DEF LiftPhases, Grasp!Terminal, Controllers
<1>15. d = [c EXCEPT !.elapsed = elapsed, !.closed = closed, !.stable = stable,
                     !.tentative = marked, !.frozen = ice, !.confirm = confirm, !.phase = next]
  BY <1>1
<1> HIDE DEF marked, confirm, next, ice, d
<1>6. /\ d.elapsed = elapsed /\ d.stable = stable /\ d.tentative = (kept \/ found)
      /\ d.frozen = (c.frozen \/ verified) /\ (verified => d.confirm = 0)
      /\ d.phase = IF verified THEN "confirm"
                   ELSE IF elapsed >= MaxClose THEN "exhausted" ELSE "close"
  <2>1. /\ d.elapsed = elapsed /\ d.stable = stable /\ d.tentative = marked
        /\ d.frozen = ice /\ d.confirm = confirm /\ d.phase = next
    BY <1>15 DEF Controllers
  <2>2. verified => confirm = 0
    BY DEF confirm
  <2> QED BY <1>14, <2>1, <2>2
<1>7. d \in Controllers
  <2>1. /\ c \in Controllers /\ elapsed \in Nat /\ closed \in Nat /\ stable \in Nat
        /\ marked \in BOOLEAN /\ ice \in BOOLEAN /\ confirm \in Nat /\ next \in LiftPhases
    BY <1>4, <1>5, <1>14
  <2> DEFINE e == [c EXCEPT !.elapsed = elapsed, !.closed = closed, !.stable = stable,
                            !.confirm = confirm]
  <2>2. e \in Controllers
    BY ONLY <2>1 DEF Controllers
  <2> HIDE DEF e
  <2>3. [e EXCEPT !.tentative = marked, !.frozen = ice, !.phase = next] \in Controllers
    BY ONLY <2>1, <2>2 DEF Controllers
  <2>4. d = [e EXCEPT !.tentative = marked, !.frozen = ice, !.phase = next]
    BY ONLY <1>15, <2>1 DEF Controllers, e
  <2> QED BY <2>3, <2>4
<1>8. PICK v \in Nat : Costs(c, n, v * StableSteps, v * ConfirmSteps)
  BY DEF Paid
<1> DEFINE a == v * StableSteps
           b == v * ConfirmSteps
<1>9. a \in Nat /\ b \in Nat /\ a + c.stable <= c.elapsed /\ n <= ApproachSteps + c.elapsed + b
  BY <1>8, GraspNumbers DEF Costs
<1> HIDE DEF a, b
<1>10. Held(d, more)
  BY <1>2, <1>3, <1>4, <1>5, <1>6, GraspNumbers DEF Held
<1>11. Costs(d, n + 1, a, b)
  BY <1>2, <1>3, <1>4, <1>5, <1>6, <1>9, GraspNumbers DEF Costs, Grasp!Terminal
<1>12. Paid(d, n + 1)
  BY <1>11 DEF Paid, a, b
<1>13. d.phase \notin {"succeeded", "oracle_failed"}
  BY <1>6
<1> QED BY <1>7, <1>10, <1>12, <1>13 DEF Continues, d

(* Confirming: a visit that comes to nothing has been paid for by the      *)
(* closing steps that led to it.                                           *)
LEMMA ConfirmContinues ==
    ASSUME Grasp!GraspAssumption, NEW c \in Controllers, c.phase = "confirm", NEW run \in Nat,
           Held(c, run), NEW more \in Nat, NEW n \in Nat, Paid(c, n),
           NEW firm \in BOOLEAN, firm => more = run + 1
    PROVE  Continues(Grasp!AfterConfirm(c, firm), more, n + 1)
<1> DEFINE d == Grasp!AfterConfirm(c, firm)
<1>1. /\ c.elapsed \in Nat /\ c.confirm \in Nat /\ c.elapsed <= MaxClose
      /\ c.confirm < ConfirmSteps /\ c.tentative /\ c.frozen /\ run >= StableSteps + c.confirm
      /\ c.tentative \in BOOLEAN /\ c.frozen \in BOOLEAN
  BY DEF Held, Controllers
<1>2. PICK v \in Nat : Costs(c, n, v * StableSteps, v * ConfirmSteps)
  BY DEF Paid
<1> DEFINE a == v * StableSteps
           b == v * ConfirmSteps
<1>3. /\ a \in Nat /\ b \in Nat /\ a + StableSteps <= c.elapsed
      /\ n <= ApproachSteps + c.elapsed + b + c.confirm
  BY <1>2, GraspNumbers DEF Costs
<1>4. (v + 1) * StableSteps = a + StableSteps /\ (v + 1) * ConfirmSteps = b + ConfirmSteps
  BY GraspNumbers
<1>5. \A w \in Nat : Costs(d, n + 1, w * StableSteps, w * ConfirmSteps) => Paid(d, n + 1)
  BY DEF Paid
<1> HIDE DEF a, b
<1>6. CASE firm /\ c.confirm + 1 >= ConfirmSteps
  <2>1. /\ d \in Controllers /\ d.phase = "lift" /\ d.lift = 0 /\ d.hold = 0
        /\ d.elapsed = c.elapsed /\ d.tentative = c.tentative /\ d.frozen = c.frozen
    <3>1. d = [c EXCEPT !.confirm = c.confirm + 1, !.phase = "lift", !.lift = 0, !.hold = 0]
      BY <1>6 DEF Grasp!AfterConfirm
    <3>2. c.confirm + 1 \in Nat /\ "lift" \in LiftPhases
      BY <1>1 DEF LiftPhases
    <3> HIDE DEF d
    <3> QED BY <3>1, <3>2 DEF Controllers
  <2> HIDE DEF d
  <2>2. Held(d, more)
    BY <1>1, <1>6, <2>1, GraspNumbers DEF Held
  <2>3. Costs(d, n + 1, a + StableSteps, b + ConfirmSteps)
    BY <1>1, <1>3, <1>6, <2>1, GraspNumbers DEF Costs, Grasp!Terminal
  <2> QED BY <1>4, <1>5, <2>1, <2>2, <2>3 DEF Continues, d
<1>7. CASE firm /\ ~(c.confirm + 1 >= ConfirmSteps)
  <2>1. /\ d \in Controllers /\ d.phase = "confirm" /\ d.confirm = c.confirm + 1
        /\ d.elapsed = c.elapsed /\ d.tentative = c.tentative /\ d.frozen = c.frozen
    <3>1. d = [c EXCEPT !.confirm = c.confirm + 1, !.phase = c.phase, !.lift = c.lift,
                        !.hold = c.hold]
      BY <1>7 DEF Grasp!AfterConfirm
    <3>2. c.confirm + 1 \in Nat /\ c.phase = "confirm"
      BY <1>1
    <3> HIDE DEF d
    <3> QED BY <3>1, <3>2 DEF Controllers
  <2> HIDE DEF d
  <2>2. Held(d, more)
    BY <1>1, <1>7, <2>1, GraspNumbers DEF Held
  <2>3. Costs(d, n + 1, a, b)
    BY <1>1, <1>3, <1>7, <2>1, GraspNumbers DEF Costs, Grasp!Terminal
  <2> QED BY <1>5, <2>1, <2>2, <2>3 DEF Continues, a, b, d
<1>8. CASE ~firm
  <2>1. /\ d \in Controllers /\ d.phase = IF c.elapsed < MaxClose THEN "close" ELSE "rejected"
        /\ ~d.tentative /\ ~d.frozen /\ d.stable = 0 /\ d.elapsed = c.elapsed
    BY <1>8 DEF Grasp!AfterConfirm, Controllers, LiftPhases, Grasp!Terminal
  <2> HIDE DEF d
  <2>2. Held(d, more)
    BY <1>1, <2>1, GraspNumbers DEF Held
  <2>3. Costs(d, n + 1, a + StableSteps, b + ConfirmSteps)
    BY <1>1, <1>3, <2>1, GraspNumbers DEF Costs, Grasp!Terminal
  <2> QED BY <1>4, <1>5, <2>1, <2>2, <2>3 DEF Continues, d
<1> QED BY <1>6, <1>7, <1>8

(* Lifting.                                                                *)
LEMMA LiftContinues ==
    ASSUME Grasp!GraspAssumption, NEW c \in Controllers, c.phase = "lift", NEW run \in Nat,
           Held(c, run), NEW more \in Nat, NEW n \in Nat, Paid(c, n),
           NEW firm \in BOOLEAN, firm => more = run + 1
    PROVE  Continues(Grasp!AfterLift(c, firm), more, n + 1)
<1> DEFINE d == Grasp!AfterLift(c, firm)
<1>1. /\ c.elapsed \in Nat /\ c.lift \in Nat /\ c.elapsed <= MaxClose /\ c.lift < MaxLift
      /\ c.hold = 0 /\ c.tentative /\ c.frozen
      /\ run >= StableSteps + ConfirmSteps + c.lift
  BY DEF Held, Controllers
<1>2. PICK v \in Nat : Costs(c, n, v * StableSteps, v * ConfirmSteps)
  BY DEF Paid
<1> DEFINE a == v * StableSteps
           b == v * ConfirmSteps
<1>3. a \in Nat /\ b \in Nat /\ a <= c.elapsed /\ n <= ApproachSteps + c.elapsed + b + c.lift
  BY <1>2, GraspNumbers DEF Costs
<1>4. /\ d \in Controllers /\ d.elapsed = c.elapsed /\ d.hold = c.hold
      /\ d.tentative = c.tentative /\ d.frozen = c.frozen
      /\ d.phase = IF ~firm THEN "rejected"
                   ELSE IF c.lift + 1 >= MaxLift THEN "success_hold" ELSE "lift"
      /\ firm => d.lift = c.lift + 1
  <2>1. CASE ~firm
    <3>1. d = [c EXCEPT !.phase = "rejected"]
      BY <2>1 DEF Grasp!AfterLift
    <3> HIDE DEF d
    <3> QED BY <2>1, <3>1 DEF Controllers, LiftPhases, Grasp!Terminal
  <2>2. CASE firm
    <3> DEFINE x == c.lift + 1
               p == IF x >= MaxLift THEN "success_hold" ELSE c.phase
    <3>1. d = [c EXCEPT !.lift = x, !.phase = p]
      BY <2>2 DEF Grasp!AfterLift
    <3>2. x \in Nat /\ p \in LiftPhases
      BY <1>1 DEF LiftPhases, Grasp!Terminal
    <3> HIDE DEF x, p, d
    <3>3. d \in Controllers
      BY <3>1, <3>2 DEF Controllers
    <3>4. /\ d.lift = x /\ d.phase = p /\ d.elapsed = c.elapsed
          /\ d.tentative = c.tentative /\ d.frozen = c.frozen /\ d.hold = c.hold
      BY <3>1 DEF Controllers
    <3> QED BY <2>2, <3>3, <3>4 DEF x, p
  <2> QED BY <2>1, <2>2
<1> HIDE DEF a, b, d
<1>5. Held(d, more)
  BY <1>1, <1>4, GraspNumbers DEF Held
<1>6. Costs(d, n + 1, a, b)
  BY <1>1, <1>3, <1>4, GraspNumbers DEF Costs, Grasp!Terminal
<1>7. Paid(d, n + 1)
  BY <1>6 DEF Paid, a, b
<1> QED BY <1>4, <1>5, <1>7 DEF Continues, d

(* Holding what was lifted.                                                *)
LEMMA HoldContinues ==
    ASSUME Grasp!GraspAssumption, NEW c \in Controllers, c.phase = "success_hold",
           NEW run \in Nat, Held(c, run), NEW more \in Nat, NEW n \in Nat, Paid(c, n),
           NEW firm \in BOOLEAN, firm => more = run + 1
    PROVE  Continues(Grasp!AfterSuccessHold(c, firm), more, n + 1)
<1> DEFINE d == Grasp!AfterSuccessHold(c, firm)
<1>1. /\ c.elapsed \in Nat /\ c.hold \in Nat /\ c.elapsed <= MaxClose /\ c.hold < MaxHold
      /\ c.tentative /\ c.frozen /\ run >= StableSteps + ConfirmSteps + MaxLift + c.hold
  BY DEF Held, Controllers
<1>2. PICK v \in Nat : Costs(c, n, v * StableSteps, v * ConfirmSteps)
  BY DEF Paid
<1> DEFINE a == v * StableSteps
           b == v * ConfirmSteps
<1>3. /\ a \in Nat /\ b \in Nat /\ a <= c.elapsed
      /\ n <= ApproachSteps + c.elapsed + b + MaxLift + c.hold
  BY <1>2, GraspNumbers DEF Costs
<1>4. /\ d \in Controllers /\ d.elapsed = c.elapsed
      /\ d.tentative = c.tentative /\ d.frozen = c.frozen
      /\ d.phase = IF ~firm THEN "rejected"
                   ELSE IF c.hold + 1 >= MaxHold THEN "exhausted" ELSE "success_hold"
      /\ firm => d.hold = c.hold + 1
  <2>1. CASE ~firm
    <3>1. d = [c EXCEPT !.phase = "rejected"]
      BY <2>1 DEF Grasp!AfterSuccessHold
    <3> HIDE DEF d
    <3> QED BY <2>1, <3>1 DEF Controllers, LiftPhases, Grasp!Terminal
  <2>2. CASE firm
    <3> DEFINE x == c.hold + 1
               p == IF x >= MaxHold THEN "exhausted" ELSE c.phase
    <3>1. d = [c EXCEPT !.hold = x, !.phase = p]
      BY <2>2 DEF Grasp!AfterSuccessHold
    <3>2. x \in Nat /\ p \in LiftPhases
      BY <1>1 DEF LiftPhases, Grasp!Terminal
    <3> HIDE DEF x, p, d
    <3>3. d \in Controllers
      BY <3>1, <3>2 DEF Controllers
    <3>4. /\ d.hold = x /\ d.phase = p /\ d.elapsed = c.elapsed
          /\ d.tentative = c.tentative /\ d.frozen = c.frozen
      BY <3>1 DEF Controllers
    <3> QED BY <2>2, <3>3, <3>4 DEF x, p
  <2> QED BY <2>1, <2>2
<1> HIDE DEF a, b, d
<1>5. Held(d, more)
  BY <1>1, <1>4, GraspNumbers DEF Held
<1>6. Costs(d, n + 1, a, b)
  BY <1>1, <1>3, <1>4, GraspNumbers DEF Costs, Grasp!Terminal
<1>7. Paid(d, n + 1)
  BY <1>6 DEF Paid, a, b
<1> QED BY <1>4, <1>5, <1>7 DEF Continues, d

(* A controller that is stopped by a verdict has kept within its budget.   *)
LEMMA VerdictIsPaid ==
    ASSUME Grasp!GraspAssumption, NEW c \in Controllers, c.phase \notin Grasp!Terminal,
           NEW run, Held(c, run), NEW n \in Nat, Paid(c, n),
           NEW d \in Controllers, d.phase \in Grasp!Terminal
    PROVE  Paid(d, n + 1)
<1>1. PICK v \in Nat : Costs(c, n, v * StableSteps, v * ConfirmSteps)
  BY DEF Paid
<1> DEFINE a == v * StableSteps
           b == v * ConfirmSteps
<1>2. a \in Nat /\ b \in Nat
  BY GraspNumbers
<1>3. (v + 1) * StableSteps = a + StableSteps /\ (v + 1) * ConfirmSteps = b + ConfirmSteps
  BY GraspNumbers
<1>4. Costs(c, n, a, b)
  BY <1>1
<1> HIDE DEF a, b
<1>5. /\ c.elapsed \in Nat /\ c.approach \in Nat /\ c.stable \in Nat /\ c.confirm \in Nat
      /\ c.lift \in Nat /\ c.hold \in Nat
  BY DEF Controllers
<1>6. CASE c.phase = "confirm"
  <2>1. Costs(d, n + 1, a + StableSteps, b + ConfirmSteps)
    BY <1>2, <1>4, <1>5, <1>6, GraspNumbers DEF Costs, Held, Grasp!Terminal
  <2> QED BY <1>3, <2>1 DEF Paid
<1>7. CASE c.phase # "confirm"
  <2>1. c.phase \in {"approach", "close", "lift", "success_hold"}
    BY <1>7 DEF Controllers, LiftPhases
  <2>2. Costs(d, n + 1, a, b)
    BY <1>2, <1>4, <1>5, <2>1, GraspNumbers DEF Costs, Held, Grasp!Terminal
  <2> QED BY <2>2 DEF Paid, a, b
<1> QED BY <1>6, <1>7

(* What observe makes of a control step, whatever phase it is made in.     *)
LEMMA ObserveSteps ==
    ASSUME Grasp!GraspAssumption, NEW c \in Controllers, c.phase \notin Grasp!Terminal,
           NEW run \in Nat, Held(c, run), NEW more \in Nat, NEW n \in Nat, Paid(c, n),
           NEW o \in Oracles, ~(o.success /\ o.failure), NEW fs \in Seq(Grasp!Contact),
           Len(fs) = FramesPerStep, NEW e,
           e.palm \in BOOLEAN, e.overflow \in BOOLEAN,
           NEW s, s.same \in BOOLEAN, s.still \in BOOLEAN,
           Grasp!Firm(fs, e) => more = run + 1,
           NEW d, d = Grasp!Observe(c, o, fs, e, s)
    PROVE  /\ d \in Controllers /\ Held(d, more) /\ Paid(d, n + 1)
           /\ (d.phase = "succeeded") <=> o.success
           /\ (d.phase = "oracle_failed") <=> o.failure /\ ~o.success
<1>1. c.phase \in {"approach", "close", "confirm", "lift", "success_hold"}
      /\ o.success \in BOOLEAN /\ o.failure \in BOOLEAN
  BY DEF Controllers, LiftPhases, Oracles
<1>2. CASE o.success \/ o.failure
  <2>1. d = [c EXCEPT !.phase = IF o.success THEN "succeeded" ELSE "oracle_failed"]
    <3>1. CASE o.success
      <4>1. d = [c EXCEPT !.phase = "succeeded"]
        BY <1>1, <3>1 DEF Grasp!Observe
      <4> QED BY <3>1, <4>1
    <3>2. CASE ~o.success
      <4>1. d = [c EXCEPT !.phase = "oracle_failed"]
        BY <1>1, <1>2, <3>2 DEF Grasp!Observe
      <4> QED BY <3>2, <4>1
    <3> QED BY <3>1, <3>2
  <2>2. d \in Controllers /\ d.phase = IF o.success THEN "succeeded" ELSE "oracle_failed"
    BY <2>1 DEF Controllers, LiftPhases, Grasp!Terminal
  <2>3. d.phase \in Grasp!Terminal
    BY <2>2 DEF Grasp!Terminal
  <2>4. Held(d, more)
    BY <2>3 DEF Held, Grasp!Terminal
  <2> QED BY <1>2, <2>2, <2>3, <2>4, VerdictIsPaid
<1>3. CASE ~o.success /\ ~o.failure
  <2> DEFINE firm == Grasp!Firm(fs, e)
  <2>1. firm \in BOOLEAN
    BY DEF Grasp!Firm, Grasp!OpposedNow
  <2>2. d = CASE c.phase = "approach" -> Grasp!AfterApproach(c)
              [] c.phase = "close" -> Grasp!AfterClose(c, firm, s.same, s.still)
              [] c.phase = "confirm" -> Grasp!AfterConfirm(c, firm)
              [] c.phase = "lift" -> Grasp!AfterLift(c, firm)
              [] c.phase = "success_hold" -> Grasp!AfterSuccessHold(c, firm)
    BY <1>1, <1>3 DEF Grasp!Observe
  <2>3. firm => more = run + 1
    OBVIOUS
  <2> HIDE DEF firm
  <2>4. Continues(d, more, n + 1)
    <3>1. CASE c.phase = "approach"
      <4>1. d = Grasp!AfterApproach(c)
        BY <2>2, <3>1
      <4> QED BY <3>1, <4>1, ApproachContinues
    <3>2. CASE c.phase = "close"
      <4>1. d = Grasp!AfterClose(c, firm, s.same, s.still)
        BY <2>2, <3>2
      <4> QED BY <2>1, <2>3, <3>2, <4>1, CloseContinues
    <3>3. CASE c.phase = "confirm"
      <4>1. d = Grasp!AfterConfirm(c, firm)
        BY <2>2, <3>3
      <4> QED BY <2>1, <2>3, <3>3, <4>1, ConfirmContinues
    <3>4. CASE c.phase = "lift"
      <4>1. d = Grasp!AfterLift(c, firm)
        BY <2>2, <3>4
      <4> QED BY <2>1, <2>3, <3>4, <4>1, LiftContinues
    <3>5. CASE c.phase = "success_hold"
      <4>1. d = Grasp!AfterSuccessHold(c, firm)
        BY <2>2, <3>5
      <4> QED BY <2>1, <2>3, <3>5, <4>1, HoldContinues
    <3> QED BY <1>1, <3>1, <3>2, <3>3, <3>4, <3>5
  <2> QED BY <1>3, <2>4 DEF Continues
<1> QED BY <1>1, <1>2, <1>3

(* The history of a control step of open rows, next to the oracle's.       *)
LEMMA StoryIsOracles ==
    ASSUME Grasp!GraspAssumption, GraspTypes, OracleHolds, OpenRows, ~Grasp!Closed,
           Len(frames) = FramesPerStep, NEW wrong \in BOOLEAN,
           NEW e, e.palm \in BOOLEAN, e.overflow \in BOOLEAN,
           NEW s, s.tilted \in BOOLEAN, s.lifted \in BOOLEAN,
           NEW o, o = Grasp!Evaluate(oracle, frames, e, s),
           NEW t, t = Grasp!Told(story, frames, e, s, wrong)
    PROVE  /\ t \in Stories /\ t.full = o.confirmed /\ t.empty = o.gap
           /\ ~o.failure => t.top = o.hold
           /\ (t.lost \/ t.bad) <=> (o.failure \/ wrong)
           /\ driver = "author" /\ Grasp!Firm(frames, e) => t.run = story.run + 1
<1> DEFINE firm == \A k \in DOMAIN frames : frames[k] = "opposed"
           full == story.full \/ \E k \in 0 .. (Len(frames) - GraspFrames) :
                                    \A j \in 1 .. GraspFrames : frames[k + j] = "opposed"
           empty == IF full /\ \A k \in DOMAIN frames : frames[k] = "none"
                    THEN story.empty + 1 ELSE 0
           run == IF driver = "author" /\ firm /\ ~e.palm THEN story.run + 1 ELSE 0
           top == IF full /\ s.lifted /\ Grasp!OpposedNow(frames) THEN story.top + 1 ELSE 0
           lost == story.lost \/ empty >= DropSteps
           bad == story.bad \/ e.palm \/ e.overflow \/ s.tilted \/ wrong
<1>1. t = [run |-> run, top |-> top, empty |-> empty, full |-> full, lost |-> lost, bad |-> bad]
  BY DEF Grasp!Told
<1>2. /\ oracle \in Oracles /\ ~oracle.success /\ ~oracle.failure
      /\ oracle.gap < DropSteps /\ oracle.hold < HoldSteps
      /\ story.full = oracle.confirmed /\ story.empty = oracle.gap /\ story.top = oracle.hold
      /\ ~story.lost /\ ~story.bad
  BY DEF GraspTypes, OracleHolds, OpenRows
<1>3. /\ o \in Oracles
      /\ o.confirmed <=> oracle.confirmed \/ Grasp!LongestGrip(frames) >= GraspFrames
      /\ o.gap = IF o.confirmed /\ ~Grasp!HadContact(frames) THEN oracle.gap + 1 ELSE 0
      /\ o.failure <=> e.palm \/ s.tilted \/ e.overflow \/ o.gap >= DropSteps
      /\ ~o.failure => o.hold = IF o.confirmed /\ Grasp!OpposedNow(frames) /\ s.lifted
                                THEN oracle.hold + 1 ELSE 0
  BY <1>2, OracleSteps
<1>4. /\ story.run \in Nat /\ story.top \in Nat /\ story.empty \in Nat
      /\ story.full \in BOOLEAN /\ story.lost \in BOOLEAN /\ story.bad \in BOOLEAN
      /\ frames \in Seq(Grasp!Contact) /\ o.confirmed \in BOOLEAN
  BY <1>3 DEF GraspTypes, Stories, Oracles
<1>5. full <=> o.confirmed
  <2>1. Grasp!LongestGrip(frames) >= GraspFrames <=>
           \E k \in 0 .. (Len(frames) - GraspFrames) :
               \A j \in 1 .. GraspFrames : frames[k + j] = "opposed"
    BY <1>4, GripIsLong, GraspNumbers
  <2> QED BY <1>2, <1>3, <2>1
<1>6. (\A k \in DOMAIN frames : frames[k] = "none") <=> ~Grasp!HadContact(frames)
  BY DEF Grasp!HadContact
<1>7. full \in BOOLEAN /\ lost \in BOOLEAN /\ bad \in BOOLEAN /\ full = o.confirmed
  <2>1. full \in BOOLEAN
    BY <1>4
  <2> QED BY <1>4, <1>5, <2>1
<1> HIDE DEF full
<1>8. empty = o.gap /\ empty \in Nat
  BY <1>2, <1>3, <1>4, <1>6, <1>7
<1>9. /\ top \in Nat /\ run \in Nat
      /\ ~o.failure => top = o.hold
  BY <1>2, <1>3, <1>4, <1>7
<1> HIDE DEF empty
<1>10. (lost \/ bad) <=> (o.failure \/ wrong)
  BY <1>2, <1>3, <1>8
<1>11. driver = "author" /\ Grasp!Firm(frames, e) => run = story.run + 1
  BY <1>4, FirmIsGrip
<1> HIDE DEF run, top, lost, bad
<1>12. /\ t.run = run /\ t.top = top /\ t.empty = empty /\ t.full = full /\ t.lost = lost
       /\ t.bad = bad /\ t \in Stories
  BY <1>1, <1>7, <1>8, <1>9 DEF Stories
<1> QED BY <1>7, <1>8, <1>9, <1>10, <1>11, <1>12

(* A control step ends with s, after e, and the contract kept or not.      *)
StepEnds(e, s, wrong) ==
    /\ batch = "running" /\ Len(frames) = FramesPerStep
    /\ wrong \in BOOLEAN /\ e.palm \in BOOLEAN /\ e.overflow \in BOOLEAN
    /\ s.tilted \in BOOLEAN /\ s.lifted \in BOOLEAN /\ s.same \in BOOLEAN /\ s.still \in BOOLEAN
    /\ driver = "author" => ~wrong
    /\ oracle' = Grasp!Evaluate(oracle, frames, e, s)
    /\ ctl' = IF driver = "author" THEN Grasp!Observe(ctl, oracle', frames, e, s) ELSE ctl
    /\ record' = Grasp!Row(oracle', ctl', wrong)
    /\ story' = IF Grasp!Closed THEN story ELSE Grasp!Told(story, frames, e, s, wrong)
    /\ frames' = <<>> /\ palm' = FALSE /\ liftStep' = liftStep + 1 /\ driver' = driver
    /\ batch' \in {"running", "ended"} /\ (batch' = "running" => liftStep' < LiftSteps)

(* The end of a control step while the rows are open.                      *)
LEMMA OpenEnds ==
    ASSUME Grasp!GraspAssumption, GraspKnown, ~Grasp!Closed,
           NEW e, NEW s, NEW wrong, StepEnds(e, s, wrong)
    PROVE  GraspKnown'
<1> /\ batch = "running" /\ Len(frames) = FramesPerStep
    /\ wrong \in BOOLEAN /\ e.palm \in BOOLEAN /\ e.overflow \in BOOLEAN
    /\ s.tilted \in BOOLEAN /\ s.lifted \in BOOLEAN /\ s.same \in BOOLEAN /\ s.still \in BOOLEAN
    /\ driver = "author" => ~wrong
    /\ oracle' = Grasp!Evaluate(oracle, frames, e, s)
    /\ ctl' = IF driver = "author" THEN Grasp!Observe(ctl, oracle', frames, e, s) ELSE ctl
    /\ record' = Grasp!Row(oracle', ctl', wrong)
    /\ story' = Grasp!Told(story, frames, e, s, wrong)
    /\ frames' = <<>> /\ palm' = FALSE /\ liftStep' = liftStep + 1 /\ driver' = driver
    /\ batch' \in {"running", "ended"} /\ (batch' = "running" => liftStep' < LiftSteps)
  BY DEF StepEnds
<1>1. GraspTypes /\ OracleHolds /\ OpenRows /\ Holding /\ Budget
  BY DEF GraspKnown
<1>2. /\ oracle \in Oracles /\ ctl \in Controllers /\ record \in Records /\ story \in Stories
      /\ frames \in Seq(Grasp!Contact) /\ driver \in {"author", "policy"}
      /\ liftStep \in Nat /\ liftStep < LiftSteps /\ record.steps \in Nat
      /\ record.steps <= liftStep /\ story.run \in Nat
  BY <1>1, GraspNumbers DEF GraspTypes, Records, Stories
<1>3. /\ oracle' \in Oracles /\ OracleHolds'
      /\ oracle'.success <=> oracle'.hold >= HoldSteps
      /\ oracle'.failure => oracle'.hold = 0
  <2>1. ~oracle.success /\ ~oracle.failure /\ oracle.gap < DropSteps /\ oracle.hold < HoldSteps
    BY <1>1 DEF OracleHolds, OpenRows
  <2> QED BY <1>2, <2>1, OracleSteps DEF OracleHolds
<1>4. /\ story' \in Stories /\ story'.full = oracle'.confirmed /\ story'.empty = oracle'.gap
      /\ ~oracle'.failure => story'.top = oracle'.hold
      /\ (story'.lost \/ story'.bad) <=> (oracle'.failure \/ wrong)
      /\ driver = "author" /\ Grasp!Firm(frames, e) => story'.run = story.run + 1
  BY <1>1, StoryIsOracles
<1>5. /\ oracle'.success \in BOOLEAN /\ oracle'.failure \in BOOLEAN
      /\ ~(oracle'.success /\ oracle'.failure) /\ oracle'.hold \in Nat /\ oracle'.gap \in Nat
      /\ story'.run \in Nat /\ story'.top \in Nat /\ story'.lost \in BOOLEAN
      /\ story'.bad \in BOOLEAN
  BY <1>3, <1>4 DEF Oracles, Stories, OracleHolds
<1>6. /\ record'.steps = record.steps + 1 /\ record'.success = (oracle'.success /\ ~wrong)
      /\ record'.failure = (oracle'.failure \/ wrong) /\ record'.phase = ctl'.phase
  BY DEF Grasp!Row
<1>7. driver = "author" =>
         /\ ctl' \in Controllers /\ Held(ctl', story'.run) /\ Paid(ctl', record.steps + 1)
         /\ (ctl'.phase = "succeeded") <=> oracle'.success
         /\ (ctl'.phase = "oracle_failed") <=> oracle'.failure /\ ~oracle'.success
  <2> SUFFICES ASSUME driver = "author"
               PROVE  /\ ctl' \in Controllers /\ Held(ctl', story'.run)
                      /\ Paid(ctl', record.steps + 1)
                      /\ (ctl'.phase = "succeeded") <=> oracle'.success
                      /\ (ctl'.phase = "oracle_failed") <=> oracle'.failure /\ ~oracle'.success
    OBVIOUS
  <2>1. ctl.phase \notin Grasp!Terminal
    BY DEF Grasp!Closed, Grasp!IsClosed
  <2>2. Held(ctl, story.run) /\ Paid(ctl, record.steps)
    BY <1>1 DEF Holding, Budget
  <2>3. ctl' = Grasp!Observe(ctl, oracle', frames, e, s)
    OBVIOUS
  <2> QED BY <1>2, <1>3, <1>4, <1>5, <2>1, <2>2, <2>3, ObserveSteps
<1>8. driver = "policy" => ctl' = ctl /\ ctl = Grasp!NewController
  BY <1>1 DEF Holding
<1>9. Grasp!NewController \in Controllers /\ \A run : Held(Grasp!NewController, run)
  BY GraspNumbers DEF Grasp!NewController, Controllers, LiftPhases, Held
<1>10. ctl' \in Controllers /\ Held(ctl', story'.run)
  BY <1>2, <1>7, <1>8, <1>9
<1>11. record' \in Records
  <2> DEFINE won == oracle'.success /\ ~wrong
             lost == oracle'.failure \/ wrong
  <2>1. record' = [steps |-> record.steps + 1, success |-> won, failure |-> lost,
                   phase |-> ctl'.phase]
    BY DEF Grasp!Row
  <2>2. ctl'.phase \in LiftPhases /\ record.steps + 1 \in Nat
    BY <1>2, <1>10 DEF Controllers
  <2>3. won \in BOOLEAN /\ lost \in BOOLEAN
    OBVIOUS
  <2> HIDE DEF won, lost
  <2> QED BY <2>1, <2>2, <2>3 DEF Records
<1>12. GraspTypes'
  <2>1. frames' \in Seq(Grasp!Contact) /\ Len(frames') <= FramesPerStep
    BY GraspNumbers
  <2>2. liftStep' \in 0 .. LiftSteps /\ record'.steps <= liftStep'
    <3>1. liftStep' = liftStep + 1 /\ record'.steps = record.steps + 1
      BY <1>6
    <3>2. /\ liftStep \in Nat /\ liftStep < LiftSteps /\ record.steps \in Nat
          /\ record.steps <= liftStep
      BY <1>2
    <3>3. LiftSteps \in Nat
      BY GraspNumbers
    <3> QED BY ONLY <3>1, <3>2, <3>3
  <2> QED BY <1>2, <1>3, <1>4, <1>10, <1>11, <2>1, <2>2 DEF GraspTypes
<1>13. Grasp!Closed' <=>
          IF driver = "author" THEN ctl'.phase \in Grasp!Terminal
          ELSE record'.success \/ record'.failure
  BY DEF Grasp!Closed, Grasp!IsClosed
<1>14. OpenRows'
  <2> SUFFICES ASSUME ~Grasp!Closed'
               PROVE  /\ ~oracle'.success /\ ~oracle'.failure
                      /\ ~record'.success /\ ~record'.failure
                      /\ story'.full = oracle'.confirmed /\ story'.empty = oracle'.gap
                      /\ story'.top = oracle'.hold
                      /\ ~story'.lost /\ ~story'.bad
                      /\ record'.steps > 0 => record'.phase \notin Grasp!Terminal
    BY DEF OpenRows
  <2>1. CASE driver = "author"
    <3>1. ctl'.phase \notin Grasp!Terminal
      BY <1>13, <2>1
    <3>2. ~oracle'.success /\ ~oracle'.failure /\ ~wrong
      BY <1>5, <1>7, <2>1, <3>1 DEF Grasp!Terminal
    <3> QED BY <1>4, <1>6, <3>1, <3>2
  <2>2. CASE driver = "policy"
    <3>1. ~record'.success /\ ~record'.failure
      BY <1>13, <2>2
    <3>2. ~oracle'.success /\ ~oracle'.failure /\ ~wrong
      BY <1>5, <1>6, <3>1
    <3>3. record'.phase \notin Grasp!Terminal
      BY <1>6, <1>8, <2>2 DEF Grasp!NewController, Grasp!Terminal
    <3> QED BY <1>4, <3>1, <3>2, <3>3
  <2> QED BY <1>2, <2>1, <2>2
<1>15. Holding'
  BY <1>8, <1>10 DEF Holding
<1>16. Budget'
  BY <1>6, <1>7 DEF Budget
<1>17. Grasp!VerdictIsDeserved'
  <2>1. record'.failure = (story'.bad \/ story'.lost)
    BY <1>4, <1>5, <1>6
  <2>2. record'.success <=> story'.top >= HoldSteps /\ ~(story'.bad \/ story'.lost)
    <3>1. CASE oracle'.failure \/ wrong
      BY <1>4, <1>5, <1>6, <3>1
    <3>2. CASE ~oracle'.failure /\ ~wrong
      BY <1>3, <1>4, <1>5, <1>6, <3>2
    <3> QED BY <3>1, <3>2
  <2>3. record'.success = (story'.top >= HoldSteps /\ ~(story'.bad \/ story'.lost))
    <3> DEFINE won == story'.top >= HoldSteps
    <3>1. record'.success \in BOOLEAN /\ won \in BOOLEAN
      BY <1>11 DEF Records
    <3>2. record'.success <=> won /\ ~(story'.bad \/ story'.lost)
      BY <2>2
    <3> HIDE DEF won
    <3>3. record'.success = (won /\ ~(story'.bad \/ story'.lost))
      BY <3>1, <3>2
    <3> QED BY <3>3 DEF won
  <2> QED BY <2>1, <2>3 DEF Grasp!VerdictIsDeserved
<1>18. Grasp!PhaseMatchesOutcome'
  <2> SUFFICES ASSUME driver = "author"
               PROVE  /\ (record'.phase = "succeeded") = (Grasp!Outcome' = "success")
                      /\ (record'.phase = "oracle_failed") = (Grasp!Outcome' = "failure")
    BY DEF Grasp!PhaseMatchesOutcome
  <2>1. /\ (record'.phase = "succeeded") <=> record'.success
        /\ (record'.phase = "oracle_failed") <=> record'.failure /\ ~record'.success
    BY <1>5, <1>6, <1>7
  <2>2. Grasp!Outcome' = IF record'.success THEN "success"
                         ELSE IF record'.failure THEN "failure" ELSE "timeout"
    BY DEF Grasp!Outcome
  <2> QED BY <2>1, <2>2
<1> QED BY <1>3, <1>12, <1>14, <1>15, <1>16, <1>17, <1>18 DEF GraspKnown

(* Once the rows are closed the batch may go on, and they stay.            *)
LEMMA ClosedEnds ==
    ASSUME Grasp!GraspAssumption, GraspKnown, Grasp!Closed,
           NEW e, NEW s, NEW wrong, StepEnds(e, s, wrong)
    PROVE  GraspKnown'
<1> /\ batch = "running" /\ Len(frames) = FramesPerStep
    /\ wrong \in BOOLEAN /\ e.palm \in BOOLEAN /\ e.overflow \in BOOLEAN
    /\ s.tilted \in BOOLEAN /\ s.lifted \in BOOLEAN /\ s.same \in BOOLEAN /\ s.still \in BOOLEAN
    /\ driver = "author" => ~wrong
    /\ oracle' = Grasp!Evaluate(oracle, frames, e, s)
    /\ ctl' = IF driver = "author" THEN Grasp!Observe(ctl, oracle', frames, e, s) ELSE ctl
    /\ record' = Grasp!Row(oracle', ctl', wrong)
    /\ story' = story
    /\ frames' = <<>> /\ palm' = FALSE /\ liftStep' = liftStep + 1 /\ driver' = driver
    /\ batch' \in {"running", "ended"} /\ (batch' = "running" => liftStep' < LiftSteps)
  BY DEF StepEnds
<1>1. record' = record
  BY DEF Grasp!Row
<1>2. ctl' = ctl
  BY DEF Grasp!Observe, Grasp!Closed, Grasp!IsClosed
<1>3. Grasp!Closed'
  BY <1>1, <1>2 DEF Grasp!Closed, Grasp!IsClosed
<1>4. oracle' \in Oracles /\ OracleHolds'
  <2>1. oracle \in Oracles /\ OracleHolds /\ oracle.success \in BOOLEAN
        /\ oracle.failure \in BOOLEAN
    BY DEF GraspKnown, GraspTypes, Oracles
  <2>2. CASE ~oracle.success /\ ~oracle.failure
    <3>1. oracle.gap < DropSteps /\ oracle.hold < HoldSteps
      BY <2>1, <2>2 DEF OracleHolds
    <3> QED BY <2>1, <2>2, <3>1, OracleSteps DEF OracleHolds
  <2>3. CASE oracle.success \/ oracle.failure
    <3>1. oracle' = oracle
      BY <2>3 DEF Grasp!Evaluate
    <3> QED BY <2>1, <3>1 DEF OracleHolds
  <2> QED BY <2>1, <2>2, <2>3
<1>5. GraspTypes'
  <2>1. frames' \in Seq(Grasp!Contact) /\ Len(frames') <= FramesPerStep
    BY GraspNumbers
  <2>2. liftStep' \in 0 .. LiftSteps /\ record.steps <= liftStep'
    BY GraspNumbers DEF GraspKnown, GraspTypes, Records
  <2> QED BY <1>1, <1>2, <1>4, <2>1, <2>2 DEF GraspKnown, GraspTypes
<1>6. OpenRows'
  BY <1>3 DEF OpenRows
<1>7. Holding' /\ Budget'
  BY <1>1, <1>2 DEF GraspKnown, Holding, Budget
<1>8. Grasp!VerdictIsDeserved' /\ Grasp!PhaseMatchesOutcome'
  BY <1>1 DEF GraspKnown, Grasp!VerdictIsDeserved, Grasp!PhaseMatchesOutcome, Grasp!Outcome
<1> QED BY <1>4, <1>5, <1>6, <1>7, <1>8 DEF GraspKnown

(* A world begins with nothing seen and nothing claimed.                   *)
LEMMA GraspBegins ==
    ASSUME Grasp!GraspAssumption, Grasp!Init PROVE GraspKnown
<1>1. GraspTypes
  <2>1. /\ Grasp!NewOracle \in Oracles /\ Grasp!NewController \in Controllers
        /\ Grasp!NoRow \in Records /\ Grasp!NoStory \in Stories
    BY DEF Grasp!NewOracle, Grasp!NewController, Grasp!NoRow, Grasp!NoStory, Oracles,
           Controllers, Records, Stories, LiftPhases
  <2>2. liftStep \in 0 .. LiftSteps /\ liftStep < LiftSteps
    BY GraspNumbers DEF Grasp!Init
  <2>3. frames \in Seq(Grasp!Contact) /\ Len(frames) <= FramesPerStep
    BY GraspNumbers DEF Grasp!Init
  <2>4. record.steps <= liftStep
    BY DEF Grasp!Init, Grasp!NoRow
  <2> QED BY <2>1, <2>2, <2>3, <2>4 DEF Grasp!Init, GraspTypes
<1>2. OracleHolds
  BY GraspNumbers DEF Grasp!Init, Grasp!NewOracle, OracleHolds
<1>3. Grasp!VerdictIsDeserved
  <2>1. ~(0 >= HoldSteps)
    BY GraspNumbers
  <2> QED BY <2>1 DEF Grasp!Init, Grasp!NoRow, Grasp!NoStory, Grasp!VerdictIsDeserved
<1>4. OpenRows /\ Grasp!PhaseMatchesOutcome
  <2>1. record.steps = 0
    BY DEF Grasp!Init, Grasp!NoRow
  <2>2. Grasp!PhaseMatchesOutcome
    BY <2>1 DEF Grasp!PhaseMatchesOutcome
  <2> QED BY <2>1, <2>2 DEF Grasp!Init, Grasp!NewOracle, Grasp!NoRow, Grasp!NoStory, OpenRows
<1>5. Holding
  BY GraspNumbers DEF Grasp!Init, Grasp!NewController, Holding, Held
<1>6. Budget
  <2>1. Costs(ctl, record.steps, 0 * StableSteps, 0 * ConfirmSteps)
    BY GraspNumbers DEF Grasp!Init, Grasp!NewController, Grasp!NoRow, Costs, Grasp!Terminal
  <2> QED BY <2>1 DEF Budget, Paid
<1> QED BY <1>1, <1>2, <1>3, <1>4, <1>5, <1>6 DEF GraspKnown

(* A physics frame and the end of a control step keep them in step.        *)
LEMMA GraspStep ==
    ASSUME Grasp!GraspAssumption, GraspKnown, [Grasp!Next]_graspVars
    PROVE  GraspKnown'
<1>1. CASE Grasp!Frame
  <2>1. /\ UNCHANGED <<driver, batch, liftStep, oracle, ctl, record, story>>
        /\ palm \in BOOLEAN /\ frames \in Seq(Grasp!Contact) /\ Len(frames) < FramesPerStep
        /\ \E c \in Grasp!Contact : frames' = Append(frames, c)
        /\ \E p \in BOOLEAN : palm' = (palm \/ p)
    BY <1>1 DEF Grasp!Frame, GraspKnown, GraspTypes
  <2>2. palm' \in BOOLEAN
    BY <2>1
  <2>3. frames' \in Seq(Grasp!Contact) /\ Len(frames') <= FramesPerStep
    BY <2>1, GraspNumbers
  <2>4. GraspTypes'
    BY <2>1, <2>2, <2>3 DEF GraspKnown, GraspTypes
  <2>5. Grasp!Closed' <=> Grasp!Closed
    BY <2>1 DEF Grasp!Closed, Grasp!IsClosed
  <2>6. OracleHolds' /\ OpenRows' /\ Holding' /\ Budget'
    BY <2>1, <2>5 DEF GraspKnown, OracleHolds, OpenRows, Holding, Budget
  <2>7. Grasp!VerdictIsDeserved' /\ Grasp!PhaseMatchesOutcome'
    BY <2>1 DEF GraspKnown, Grasp!VerdictIsDeserved, Grasp!PhaseMatchesOutcome, Grasp!Outcome
  <2> QED BY <2>4, <2>6, <2>7 DEF GraspKnown
<1>2. CASE Grasp!End
  <2>1. PICK s \in Grasp!Endings, upset \in {"no", "overflow", "wrong"}, others \in BOOLEAN :
          LET wrong == upset = "wrong"
              e == [palm |-> palm, overflow |-> upset = "overflow"]
              o == Grasp!Evaluate(oracle, frames, e, s)
              c == IF driver = "author" THEN Grasp!Observe(ctl, o, frames, e, s) ELSE ctl
          IN IF driver = "author" /\ upset # "no"
             THEN /\ batch' = "aborted"
                  /\ UNCHANGED <<driver, liftStep, frames, palm, oracle, ctl, record, story>>
             ELSE /\ liftStep' = liftStep + 1
                  /\ frames' = <<>> /\ palm' = FALSE
                  /\ oracle' = o /\ ctl' = c
                  /\ record' = Grasp!Row(o, c, wrong)
                  /\ story' = IF Grasp!Closed THEN story
                              ELSE Grasp!Told(story, frames, e, s, wrong)
                  /\ batch' = IF liftStep' >= LiftSteps
                                 \/ (Grasp!IsClosed(c, record') /\ ~others) THEN "ended"
                              ELSE "running"
                  /\ UNCHANGED driver
    BY <1>2 DEF Grasp!End
  <2>2. batch = "running" /\ Len(frames) = FramesPerStep
    BY <1>2 DEF Grasp!End
  <2> DEFINE wrong == upset = "wrong"
             over == upset = "overflow"
             e == [palm |-> palm, overflow |-> over]
             o == Grasp!Evaluate(oracle, frames, e, s)
             c == IF driver = "author" THEN Grasp!Observe(ctl, o, frames, e, s) ELSE ctl
  <2>3. s.tilted \in BOOLEAN /\ s.lifted \in BOOLEAN /\ s.same \in BOOLEAN /\ s.still \in BOOLEAN
    BY DEF Grasp!Endings
  <2>4. wrong \in BOOLEAN /\ e.palm \in BOOLEAN /\ e.overflow \in BOOLEAN
    <3>1. e.palm = palm /\ e.overflow = over /\ over \in BOOLEAN /\ wrong \in BOOLEAN
      OBVIOUS
    <3> QED BY <3>1 DEF GraspKnown, GraspTypes
  <2>5. CASE driver = "author" /\ upset # "no"
    <3>1. /\ batch' = "aborted"
          /\ UNCHANGED <<driver, liftStep, frames, palm, oracle, ctl, record, story>>
      BY <2>1, <2>5
    <3>2. GraspTypes'
      BY <3>1 DEF GraspKnown, GraspTypes
    <3>3. Grasp!Closed' <=> Grasp!Closed
      BY <3>1 DEF Grasp!Closed, Grasp!IsClosed
    <3>4. OracleHolds' /\ OpenRows' /\ Holding' /\ Budget'
      BY <3>1, <3>3 DEF GraspKnown, OracleHolds, OpenRows, Holding, Budget
    <3>5. Grasp!VerdictIsDeserved' /\ Grasp!PhaseMatchesOutcome'
      BY <3>1 DEF GraspKnown, Grasp!VerdictIsDeserved, Grasp!PhaseMatchesOutcome, Grasp!Outcome
    <3> QED BY <3>2, <3>4, <3>5 DEF GraspKnown
  <2>6. CASE ~(driver = "author" /\ upset # "no")
    <3>1. /\ liftStep' = liftStep + 1
          /\ frames' = <<>> /\ palm' = FALSE
          /\ oracle' = o /\ ctl' = c
          /\ record' = Grasp!Row(o, c, wrong)
          /\ story' = IF Grasp!Closed THEN story
                      ELSE Grasp!Told(story, frames, e, s, wrong)
          /\ batch' = IF liftStep' >= LiftSteps
                         \/ (Grasp!IsClosed(c, record') /\ ~others) THEN "ended"
                      ELSE "running"
          /\ UNCHANGED driver
      BY <2>1, <2>6
    <3>2. driver = "author" => ~wrong
      BY <2>6
    <3> HIDE DEF wrong, over, e, o
    <3>3. /\ oracle' = Grasp!Evaluate(oracle, frames, e, s)
          /\ ctl' = IF driver = "author" THEN Grasp!Observe(ctl, oracle', frames, e, s) ELSE ctl
          /\ record' = Grasp!Row(oracle', ctl', wrong)
      <4>1. oracle' = o /\ ctl' = c /\ record' = Grasp!Row(o, c, wrong)
        BY <3>1
      <4>2. ctl' = IF driver = "author" THEN Grasp!Observe(ctl, oracle', frames, e, s) ELSE ctl
        BY <4>1
      <4>3. record' = Grasp!Row(oracle', ctl', wrong)
        BY <4>1
      <4> QED BY <4>1, <4>2, <4>3 DEF o
    <3> HIDE DEF c
    <3>4. batch' \in {"running", "ended"} /\ (batch' = "running" => liftStep' < LiftSteps)
      <4>1. liftStep' \in Nat /\ LiftSteps \in Nat
        BY <3>1, GraspNumbers DEF GraspKnown, GraspTypes
      <4>2. ~(liftStep' >= LiftSteps) => liftStep' < LiftSteps
        BY <4>1
      <4> QED BY <3>1, <4>2
    <3>5. StepEnds(e, s, wrong)
      BY <2>2, <2>3, <2>4, <3>1, <3>2, <3>3, <3>4 DEF StepEnds
    <3> QED BY <3>5, ClosedEnds, OpenEnds
  <2> QED BY <2>5, <2>6
<1>3. CASE UNCHANGED graspVars
  <2>1. UNCHANGED <<driver, batch, liftStep, frames, palm, oracle, ctl, record, story>>
    BY <1>3 DEF graspVars
  <2>2. GraspTypes'
    BY <2>1 DEF GraspKnown, GraspTypes
  <2>3. Grasp!Closed' <=> Grasp!Closed
    BY <2>1 DEF Grasp!Closed, Grasp!IsClosed
  <2>4. OracleHolds' /\ OpenRows' /\ Holding' /\ Budget'
    BY <2>1, <2>3 DEF GraspKnown, OracleHolds, OpenRows, Holding, Budget
  <2>5. Grasp!VerdictIsDeserved' /\ Grasp!PhaseMatchesOutcome'
    BY <2>1 DEF GraspKnown, Grasp!VerdictIsDeserved, Grasp!PhaseMatchesOutcome, Grasp!Outcome
  <2> QED BY <2>2, <2>4, <2>5 DEF GraspKnown
<1> QED BY <1>1, <1>2, <1>3 DEF Grasp!Next

(* What has been paid for is bounded: the closing budget has room for no   *)
(* more visits to the confirmation than it has times StableSteps.          *)
LEMMA AttemptBounded ==
    ASSUME Grasp!GraspAssumption, GraspKnown PROVE Grasp!AttemptIsBounded
<1> SUFFICES ASSUME driver = "author"
             PROVE  record.steps <= ApproachSteps + MaxClose
                                      + (MaxClose \div StableSteps) * ConfirmSteps
                                      + MaxLift + MaxHold
  BY DEF Grasp!AttemptIsBounded
<1>1. /\ ctl \in Controllers /\ Held(ctl, story.run) /\ Paid(ctl, record.steps)
      /\ record.steps \in Nat
  BY DEF GraspKnown, GraspTypes, Holding, Budget, Records
<1>2. /\ ctl.elapsed \in Nat /\ ctl.approach \in Nat /\ ctl.stable \in Nat
      /\ ctl.confirm \in Nat /\ ctl.lift \in Nat /\ ctl.hold \in Nat
  BY <1>1 DEF Controllers
<1>3. PICK v \in Nat : Costs(ctl, record.steps, v * StableSteps, v * ConfirmSteps)
  BY <1>1 DEF Paid
<1> DEFINE q == MaxClose \div StableSteps
<1>4. q \in Nat /\ \A w \in Nat : w * StableSteps <= MaxClose => w <= q
  BY GraspNumbers
<1>5. \A w \in Nat : w <= q => w * ConfirmSteps <= q * ConfirmSteps
  <2> HIDE DEF q
  <2> QED BY <1>4, GraspNumbers
<1>6. /\ v * StableSteps \in Nat /\ v * ConfirmSteps \in Nat /\ q * ConfirmSteps \in Nat
      /\ (v + 1) * StableSteps = v * StableSteps + StableSteps
      /\ (v + 1) * ConfirmSteps = v * ConfirmSteps + ConfirmSteps
  <2> HIDE DEF q
  <2> QED BY <1>4, GraspNumbers
<1>7. v * StableSteps <= MaxClose => v * ConfirmSteps <= q * ConfirmSteps
  BY <1>4, <1>5
<1>8. (v + 1) * StableSteps <= MaxClose
      => (v + 1) * ConfirmSteps <= q * ConfirmSteps
  BY <1>4, <1>5
<1> DEFINE a == v * StableSteps
           b == v * ConfirmSteps
           most == q * ConfirmSteps
<1>9. /\ a \in Nat /\ b \in Nat /\ most \in Nat /\ (a <= MaxClose => b <= most)
      /\ (a + StableSteps <= MaxClose => b + ConfirmSteps <= most)
      /\ Costs(ctl, record.steps, a, b)
  BY <1>3, <1>6, <1>7, <1>8
<1>10. record.steps <= ApproachSteps + MaxClose + most + MaxLift + MaxHold
  <2> HIDE DEF a, b, most, q
  <2>1. CASE ctl.phase = "confirm"
    BY <1>1, <1>2, <1>9, <2>1, GraspNumbers DEF Costs, Held
  <2>2. CASE ctl.phase = "approach"
    BY <1>1, <1>2, <1>9, <2>2, GraspNumbers DEF Costs, Held
  <2>3. CASE ctl.phase = "close"
    BY <1>1, <1>2, <1>9, <2>3, GraspNumbers DEF Costs, Held
  <2>4. CASE ctl.phase \in {"lift", "success_hold"}
    BY <1>1, <1>2, <1>9, <2>4, GraspNumbers DEF Costs, Held
  <2>5. CASE ctl.phase \in Grasp!Terminal
    BY <1>1, <1>2, <1>9, <2>5, GraspNumbers DEF Costs
  <2> QED BY <1>1, <2>1, <2>2, <2>3, <2>4, <2>5 DEF Controllers, LiftPhases
<1> QED BY <1>10 DEF most, q

(* The verdict kept of a lift is the one its frames deserve, the           *)
(* controller lifts only what has been held without a gap, its retries     *)
(* end, and its last phase tells the same story as the verdict: whatever   *)
(* the limits of the oracle and of the controller are (GraspLiftOracle,    *)
(* GraspLiftAuthoringController and their two drivers).                    *)
THEOREM GraspSound == ASSUME Grasp!GraspAssumption PROVE MCSpec => []GraspIsSound
<1>1. MCInit => (part = "grasp" => GraspKnown)
  BY GraspBegins DEF MCInit
<1>2. /\ part = "grasp" => GraspKnown
      /\ [MCNext]_<<part, vars, collectVars, transferVars, graspVars>>
      => (part = "grasp" => GraspKnown)'
  BY GraspStep DEF MCNext, graspVars
<1>3. (part = "grasp" => GraspKnown) => GraspIsSound
  <2> SUFFICES ASSUME GraspKnown PROVE Grasp!GraspIsSound
    BY DEF GraspIsSound
  <2>1. Grasp!TypeOK
    BY DEF GraspKnown, GraspTypes, OracleHolds, Grasp!TypeOK, Records
  <2>2. Grasp!LiftIsHeld
    <3>1. ctl \in Controllers /\ Held(ctl, story.run) /\ story.run \in Nat
      BY DEF GraspKnown, GraspTypes, Holding, Stories
    <3> QED BY <3>1 DEF Held, Controllers, LiftPhases, Grasp!LiftIsHeld, Grasp!Claimed,
                        Grasp!Terminal
  <2> QED BY <2>1, <2>2, AttemptBounded DEF GraspKnown, Grasp!GraspIsSound
<1> QED BY <1>1, <1>2, <1>3, PTL DEF MCSpec

(* The rows of a world are closed with its verdict and stay as they are,   *)
(* although the batch drives the world on for the sake of the others       *)
(* (the recording of the two drivers).                                     *)
THEOREM RowsStay == MCSpec => RowsAreFinal
<1>1. [MCNext]_<<part, vars, collectVars, transferVars, graspVars>>
      => [part = "grasp" => Grasp!KeepsRows]_<<part, graspVars>>
  <2> SUFFICES ASSUME MCNext, part = "grasp", Grasp!Closed
               PROVE  Grasp!Closed' /\ record' = record
    BY DEF Grasp!KeepsRows, graspVars
  <2>1. Grasp!Next
    BY DEF MCNext
  <2>2. CASE Grasp!Frame
    BY <2>2 DEF Grasp!Frame, Grasp!Closed, Grasp!IsClosed
  <2>3. CASE Grasp!End
    <3>1. PICK s \in Grasp!Endings, upset \in {"no", "overflow", "wrong"} :
            LET e == [palm |-> palm, overflow |-> upset = "overflow"]
                o == Grasp!Evaluate(oracle, frames, e, s)
                c == IF driver = "author" THEN Grasp!Observe(ctl, o, frames, e, s) ELSE ctl
            IN /\ driver' = driver
               /\ \/ ctl' = ctl /\ record' = record
                  \/ ctl' = c /\ record' = Grasp!Row(o, c, upset = "wrong")
      BY <2>3 DEF Grasp!End
    <3>2. record' = record
      BY <3>1 DEF Grasp!Row
    <3>3. ctl' = ctl
      BY <3>1 DEF Grasp!Observe, Grasp!Closed, Grasp!IsClosed
    <3> QED BY <3>1, <3>2, <3>3 DEF Grasp!Closed, Grasp!IsClosed
  <2> QED BY <2>1, <2>2, <2>3 DEF Grasp!Next
<1> QED BY <1>1, PTL DEF MCSpec, RowsAreFinal

-----------------------------------------------------------------------------
(* The collection of an episode.  While no rare event has happened the     *)
(* environment and the task contract count the same steps near the goal,   *)
(* in every world that is still active; a world that is not has an over    *)
(* row; and every closed decision continues the one before it.             *)

Signals == [near : BOOLEAN, bad : BOOLEAN, by : {"branch", "replay"}]
Rows == [frame : Signals, terminated : BOOLEAN, truncated : BOOLEAN]
Decisions == [root : Signals, step : Nat, rows : [Worlds -> Seq(Rows)],
              continued : Worlds \cup {None}]
EnvStates == [hold : Nat, success : BOOLEAN, fail : BOOLEAN]
TaskStates == [step : Nat, streak : Nat,
               status : {"active", "success", "failure", "truncated"}]
Outcomes == [failure : BOOLEAN, unsafe : BOOLEAN]

Chunk == {"chunk", "replay", "close"}
Live == {"root"} \cup Chunk

Steps == Collection!ControlSteps
Total == IF ChunkSteps <= EpisodeSteps - Steps THEN ChunkSteps ELSE EpisodeSteps - Steps

(* The finished part of the ledger is one the validator accepts.           *)
LedgerIsSound ==
    /\ decisions \in Seq(Decisions)
    /\ decisions = <<>> \/ Collection!Accepted(decisions)

(* The path is open: its last transition is not over, and the root has the *)
(* signals that transition ended with.                                     *)
PathIsOpen ==
    /\ root \in [frame : Signals, hold : 0 .. Hold - 1]
    /\ task \in TaskStates /\ task.status = "active"
    /\ task.step = Steps /\ Steps < EpisodeSteps /\ task.streak < Hold
    /\ root.hold = task.streak \/ "replay" \in odd
    /\ decisions # <<>> =>
          LET d == decisions[Len(decisions)]
              last == d.rows[d.continued][Len(d.rows[d.continued])]
          IN d.continued # None /\ ~Collection!Over(last) /\ root.frame = last.frame

ChunkTypes ==
    /\ env \in [Worlds -> EnvStates] /\ shadow \in [Worlds -> TaskStates]
    /\ active \subseteq Worlds /\ touching \subseteq Worlds
    /\ rows \in [Worlds -> Seq(Rows)] /\ outcome \in [Worlds -> Outcomes]
    /\ left \in 0 .. Total

(* A world that still executes its chunk.                                  *)
StillActive(w) ==
    /\ Len(rows[w]) = Total - left
    /\ \A k \in 1 .. Len(rows[w]) : ~Collection!Over(rows[w][k])
    /\ ~env[w].success /\ ~env[w].fail /\ env[w].hold < Hold
    /\ shadow[w].step = Steps + Len(rows[w]) /\ shadow[w].step < EpisodeSteps
    /\ shadow[w].status = "active" /\ shadow[w].streak < Hold
    /\ env[w].hold = shadow[w].streak \/ "replay" \in odd
    /\ ~outcome[w].failure /\ ~outcome[w].unsafe

(* One that does not.                                                      *)
IsOver(w) ==
    /\ Len(rows[w]) > 0 /\ Collection!Over(rows[w][Len(rows[w])])
    /\ \A k \in 1 .. Len(rows[w]) - 1 : ~Collection!Over(rows[w][k])
    /\ env[w].success \/ env[w].fail \/ left = 0

(* What a world showed, and what was noted of it.                          *)
IsNoted(w) ==
    /\ env[w].success => ~env[w].fail /\ ~outcome[w].failure /\ ~outcome[w].unsafe
    /\ env[w].fail => outcome[w].failure
    /\ outcome[w].unsafe => outcome[w].failure
    /\ w \in touching => env[w].fail \/ (env[w].success /\ "held" \in odd)

WorldIsSound(w) == /\ IF w \in active THEN StillActive(w) ELSE IsOver(w)
                   /\ IsNoted(w)

ChunkIsSound == ChunkTypes /\ \A w \in Worlds : WorldIsSound(w)

(* Between the selection and the end of the decision.                      *)
ContinuationIsSound ==
    /\ left = 0 /\ chosen \in Worlds
    /\ collectPc = "replay" => chosen \in active
    /\ collectPc = "close" /\ chosen \in active =>
          /\ witness = chosen
          /\ nextRoot \in [frame : Signals, hold : 0 .. Hold - 1]
          /\ nextRoot.frame = rows[chosen][Len(rows[chosen])].frame
          /\ nextRoot.hold = shadow[chosen].streak \/ "replay" \in odd

CollectionKnown ==
    /\ Collection!AbortsOnlyForCause
    /\ collectPc # "aborted" => LedgerIsSound
    /\ collectPc \in Live => PathIsOpen
    /\ collectPc \in Chunk => ChunkIsSound
    /\ collectPc \in {"replay", "close"} => ContinuationIsSound
    /\ collectPc = "finish" => decisions # <<>>

-----------------------------------------------------------------------------
(* What a decision adds to the path of its ledger.                         *)
Continued(d) == IF d.continued = None THEN <<>> ELSE d.rows[d.continued]

PathParts(ledger) == [i \in 1 .. Len(ledger) |-> Continued(ledger[i])]

(* The path of a ledger joins what its decisions add. *)
LEMMA PathIsJoined == ASSUME NEW ledger \in Seq(Decisions) PROVE
    /\ PathParts(ledger) \in Seq(Seq(Rows))
    /\ Collection!PathOf(ledger) = Joined(PathParts(ledger))
<1>1. DOMAIN ledger = 1 .. Len(ledger) /\ Len(ledger) \in Nat
  OBVIOUS
<1>2. \A i \in 1 .. Len(ledger) : Continued(ledger[i]) \in Seq(Rows)
  <2> TAKE i \in 1 .. Len(ledger)
  <2>1. ledger[i] \in Decisions
    BY <1>1
  <2>2. /\ ledger[i].rows \in [Worlds -> Seq(Rows)]
        /\ ledger[i].continued # None => ledger[i].continued \in Worlds
    BY <2>1 DEF Decisions
  <2> QED BY <2>2 DEF Continued
<1>3. PathParts(ledger) \in Seq(Seq(Rows))
  BY <1>1, <1>2 DEF PathParts
<1>4. Collection!PathOf(ledger) = Collection!FlattenSeq(PathParts(ledger))
  BY <1>1 DEF Collection!PathOf, PathParts, Continued
<1>5. \A ss : Collection!FlattenSeq(ss) = Joined(ss)
  BY DEF Collection!FlattenSeq, Joined, JoinOf
<1> QED BY <1>3, <1>4, <1>5

(* The path grows by what the last decision adds.                          *)
LEMMA PathGrows ==
    ASSUME NEW ledger \in Seq(Decisions), NEW d \in Decisions
    PROVE  /\ Collection!PathOf(ledger) \in Seq(Rows) /\ Continued(d) \in Seq(Rows)
           /\ Collection!PathOf(Append(ledger, d)) = Collection!PathOf(ledger) \o Continued(d)
           /\ Len(Collection!PathOf(ledger)) \in Nat
           /\ Len(Collection!PathOf(Append(ledger, d)))
                  = Len(Collection!PathOf(ledger)) + Len(Continued(d))
<1> DEFINE old == PathParts(ledger)
<1>1. Append(ledger, d) \in Seq(Decisions)
  OBVIOUS
<1>2. Continued(d) \in Seq(Rows)
  <2>1. d.rows \in [Worlds -> Seq(Rows)] /\ (d.continued # None => d.continued \in Worlds)
    BY DEF Decisions
  <2> QED BY <2>1 DEF Continued
<1>3. old \in Seq(Seq(Rows))
  BY PathIsJoined
<1>4. PathParts(Append(ledger, d)) = Append(old, Continued(d))
  <2>1. /\ Len(Append(ledger, d)) = Len(ledger) + 1 /\ Len(old) = Len(ledger)
        /\ Len(ledger) \in Nat
        /\ \A i \in 1 .. Len(ledger) : Append(ledger, d)[i] = ledger[i]
        /\ Append(ledger, d)[Len(ledger) + 1] = d
    BY DEF PathParts
  <2>2. ASSUME NEW i \in 1 .. Len(ledger) + 1
        PROVE  PathParts(Append(ledger, d))[i] = Append(old, Continued(d))[i]
    <3>1. PathParts(Append(ledger, d))[i] = Continued(Append(ledger, d)[i])
      BY <2>1 DEF PathParts
    <3>2. i \in 1 .. Len(ledger) => old[i] = Continued(ledger[i])
      BY DEF PathParts
    <3>3. Append(old, Continued(d))[i] =
              IF i \in 1 .. Len(ledger) THEN old[i] ELSE Continued(d)
      <4> HIDE DEF old
      <4> QED BY <1>2, <1>3, <2>1
    <3> HIDE DEF old
    <3>4. CASE i \in 1 .. Len(ledger)
      BY <2>1, <3>1, <3>2, <3>3, <3>4
    <3>5. CASE i = Len(ledger) + 1
      <4>1. i \notin 1 .. Len(ledger)
        BY <2>1, <3>5
      <4> QED BY <2>1, <3>1, <3>3, <3>5, <4>1
    <3>6. i \in 1 .. Len(ledger) \/ i = Len(ledger) + 1
      OBVIOUS
    <3> QED BY <3>4, <3>5, <3>6
  <2>3. /\ PathParts(Append(ledger, d)) \in Seq(Seq(Rows))
        /\ Append(old, Continued(d)) \in Seq(Seq(Rows))
    <3>1. PathParts(Append(ledger, d)) \in Seq(Seq(Rows))
      BY <1>1, PathIsJoined
    <3> HIDE DEF old
    <3>2. Append(old, Continued(d)) \in Seq(Seq(Rows))
      BY <1>2, <1>3
    <3> QED BY <3>1, <3>2
  <2>4. /\ Len(PathParts(Append(ledger, d))) = Len(ledger) + 1
        /\ Len(Append(old, Continued(d))) = Len(ledger) + 1
    BY <1>2, <1>3, <2>1 DEF PathParts
  <2> HIDE DEF old
  <2> QED BY ONLY <2>2, <2>3, <2>4, SMTT(30)
<1>5. Joined(old) \in Seq(Rows) /\ Joined(Append(old, Continued(d))) = Joined(old) \o Continued(d)
  <2> HIDE DEF old
  <2> QED BY <1>2, <1>3, JoinedType, JoinedAppend
<1>6. /\ Collection!PathOf(ledger) = Joined(old)
      /\ Collection!PathOf(Append(ledger, d)) = Joined(PathParts(Append(ledger, d)))
  BY <1>1, PathIsJoined
<1> HIDE DEF old
<1>7. Collection!PathOf(Append(ledger, d)) = Joined(old) \o Continued(d)
  BY <1>4, <1>5, <1>6
<1> QED BY <1>2, <1>5, <1>6, <1>7

(* A decision that continues an accepted ledger extends it to another one. *)
LEMMA AcceptedGrows ==
    ASSUME NEW ledger \in Seq(Decisions), NEW d \in Decisions,
           ledger = <<>> \/ Collection!Accepted(ledger),
           d.step = Len(Collection!PathOf(ledger)),
           ledger # <<>> =>
               LET p == ledger[Len(ledger)]
                   last == p.rows[p.continued][Len(p.rows[p.continued])]
               IN p.continued # None /\ ~Collection!Over(last) /\ d.root = last.frame,
           \E w \in Worlds : d.rows[w] # <<>>,
           d.continued # None => d.rows[d.continued] # <<>>,
           \A w \in Worlds : \A k \in 2 .. Len(d.rows[w]) : ~Collection!Over(d.rows[w][k - 1])
    PROVE  Collection!Accepted(Append(ledger, d))
<1> DEFINE n == Len(ledger)
           new == Append(ledger, d)
<1>1. /\ n \in Nat /\ new # <<>> /\ DOMAIN new = 1 .. n + 1 /\ DOMAIN ledger = 1 .. n
      /\ new[n + 1] = d /\ \A i \in 1 .. n : new[i] = ledger[i]
  <2>1. /\ n \in Nat /\ new \in Seq(Decisions) /\ Len(new) = n + 1
        /\ DOMAIN ledger = 1 .. n
    OBVIOUS
  <2>2. new[n + 1] = d /\ \A i \in 1 .. n : new[i] = ledger[i]
    OBVIOUS
  <2>3. DOMAIN new = 1 .. n + 1 /\ new # <<>>
    <3> HIDE DEF n, new
    <3> QED BY <2>1
  <2> HIDE DEF n, new
  <2> QED BY <2>1, <2>2, <2>3
<1>2. \A i \in 1 .. n + 1 : SubSeq(new, 1, i - 1) = SubSeq(ledger, 1, i - 1)
  OBVIOUS
<1>3. SubSeq(ledger, 1, n) = ledger
  OBVIOUS
<1> HIDE DEF n, new
<1>4. ASSUME NEW i \in 1 .. n PROVE
      /\ new[i].step = Len(Collection!PathOf(SubSeq(new, 1, i - 1)))
      /\ i > 1 => /\ new[i - 1].continued # None
                  /\ ~Collection!Over(Collection!Last(new[i - 1].rows[new[i - 1].continued]))
                  /\ new[i].root = Collection!Last(new[i - 1].rows[new[i - 1].continued]).frame
      /\ \E w \in Worlds : new[i].rows[w] # <<>>
      /\ new[i].continued # None => new[i].rows[new[i].continued] # <<>>
      /\ \A w \in Worlds : \A k \in 2 .. Len(new[i].rows[w]) :
             ~Collection!Over(new[i].rows[w][k - 1])
  <2>1. ledger # <<>> /\ Collection!Accepted(ledger)
    BY <1>1 DEF n
  <2>2. i \in DOMAIN ledger /\ i \in 1 .. n + 1 /\ new[i] = ledger[i]
        /\ (i > 1 => new[i - 1] = ledger[i - 1])
    BY <1>1
  <2>3. SubSeq(new, 1, i - 1) = SubSeq(ledger, 1, i - 1)
    BY <1>2, <2>2
  <2> QED BY <2>1, <2>2, <2>3 DEF Collection!Accepted
<1>5. /\ d.step = Len(Collection!PathOf(SubSeq(new, 1, n)))
      /\ n + 1 > 1 => /\ new[n].continued # None
                  /\ ~Collection!Over(Collection!Last(new[n].rows[new[n].continued]))
                  /\ d.root = Collection!Last(new[n].rows[new[n].continued]).frame
  <2>1. SubSeq(new, 1, n) = ledger
    BY <1>1, <1>2, <1>3
  <2>2. n + 1 > 1 => n \in 1 .. n /\ ledger # <<>>
    BY <1>1 DEF n
  <2> QED BY <1>1, <2>1, <2>2 DEF Collection!Last, n
<1>6. \A i \in 1 .. n + 1 : i \in 1 .. n \/ i = n + 1
  BY <1>1
<1>7. (n + 1) - 1 = n
  BY <1>1
<1> QED BY <1>1, <1>4, <1>5, <1>6, <1>7 DEF Collection!Accepted, new

(* One control step of a world that executes its chunk, as the environment *)
(* and the task contract judge it.  They disagree only when a contact came *)
(* and went within the step, when a replay had set them apart, or when the *)
(* step is the last one and decides.                                       *)
LEMMA JudgesAgree ==
    ASSUME Collection!CollectionAssumption,
           NEW e \in EnvStates, NEW s \in TaskStates, NEW m \in Collection!Motion,
           ~e.success, ~e.fail, e.hold < Hold,
           s.status = "active", s.step < EpisodeSteps, s.streak < Hold,
           NEW a, a = Collection!EnvStep(e, m),
           NEW f, f = Collection!Frame(m.near, m.touch = "end", "branch"),
           NEW j, j = Collection!TaskStep(s, f)
    PROVE  /\ a \in EnvStates /\ f \in Signals /\ j \in TaskStates
           /\ Collection!MayEvaluate(s)
           /\ j.step = s.step + 1
           /\ a.fail <=> m.touch # "no"
           /\ a.success => m.touch = "no"
           /\ (/\ e.hold = s.streak /\ m.touch # "passing"
               /\ ~(s.step + 1 = EpisodeSteps /\ Collection!EnvTerminated(a)))
                  => Collection!Parity(j, a)
           /\ Collection!Parity(j, a) /\ ~a.success /\ ~a.fail /\ ~(j.step >= EpisodeSteps) =>
                  /\ j.status = "active" /\ j.step < EpisodeSteps
                  /\ a.hold < Hold /\ j.streak < Hold
                  /\ e.hold = s.streak => a.hold = j.streak
<1>1. /\ Hold \in Nat \ {0} /\ EpisodeSteps \in Nat \ {0}
      /\ e.hold \in Nat /\ e.success \in BOOLEAN /\ e.fail \in BOOLEAN
      /\ s.step \in Nat /\ s.streak \in Nat
      /\ m.near \in BOOLEAN /\ m.touch \in {"no", "passing", "end"}
      /\ m.near => m.touch = "no"
  BY DEF Collection!CollectionAssumption, EnvStates, TaskStates, Collection!Motion
<1> DEFINE touched == m.touch # "no"
           hold == IF touched THEN e.hold ELSE IF m.near THEN e.hold + 1 ELSE 0
           won == ~touched /\ hold >= Hold
           bad == m.touch = "end"
           step == s.step + 1
           streak == IF ~bad /\ m.near THEN s.streak + 1 ELSE 0
           verdict == IF bad THEN "failure" ELSE IF streak >= Hold THEN "success"
                     ELSE IF step >= EpisodeSteps THEN "truncated" ELSE "active"
<1>2. a = [hold |-> hold, fail |-> touched, success |-> won]
  BY DEF Collection!EnvStep
<1>3. f = [near |-> m.near, bad |-> bad, by |-> "branch"]
  BY DEF Collection!Frame
<1>4. j = [step |-> step, streak |-> streak, status |-> verdict]
  <2>1. f.near = m.near /\ f.bad = bad
    <3> HIDE DEF bad
    <3> QED BY <1>3
  <2> HIDE DEF bad
  <2> QED BY <2>1 DEF Collection!TaskStep
<1>5. /\ hold \in Nat /\ streak \in Nat /\ step \in Nat
      /\ touched \in BOOLEAN /\ won \in BOOLEAN /\ bad \in BOOLEAN
      /\ verdict \in {"active", "success", "failure", "truncated"}
  <2>1. hold \in Nat /\ streak \in Nat /\ step \in Nat
    BY <1>1
  <2> QED BY <2>1
<1>6. a \in EnvStates /\ f \in Signals /\ j \in TaskStates
  <2> HIDE DEF hold, streak, step, touched, won, bad, verdict
  <2> QED BY <1>1, <1>2, <1>3, <1>4, <1>5 DEF EnvStates, Signals, TaskStates
<1>7. Collection!MayEvaluate(s)
  BY DEF Collection!MayEvaluate
<1>8. /\ a.hold = hold /\ a.fail = touched /\ a.success = won
      /\ j.step = step /\ j.streak = streak /\ j.status = verdict
  <2> HIDE DEF hold, streak, step, touched, won, bad, verdict
  <2> QED BY <1>2, <1>4
<1>9. Collection!Parity(j, a) <=>
          /\ won <=> verdict = "success"
          /\ touched <=> verdict = "failure"
          /\ (won \/ touched) <=> verdict \in {"success", "failure"}
          /\ step >= EpisodeSteps <=> verdict = "truncated"
  <2>1. (step >= EpisodeSteps) \in BOOLEAN
    OBVIOUS
  <2> HIDE DEF hold, streak, step, touched, won, bad, verdict
  <2> QED BY <1>5, <1>8, <2>1 DEF Collection!Parity, Collection!EnvTerminated,
                                  Collection!EnvTruncated
<1>10. Collection!EnvTerminated(a) <=> won \/ touched
  <2> HIDE DEF hold, streak, step, touched, won, bad, verdict
  <2> QED BY <1>8 DEF Collection!EnvTerminated
<1>11. (/\ e.hold = s.streak /\ m.touch # "passing"
        /\ ~(s.step + 1 = EpisodeSteps /\ (won \/ touched)))
           => /\ won <=> verdict = "success"
              /\ touched <=> verdict = "failure"
              /\ (won \/ touched) <=> verdict \in {"success", "failure"}
              /\ step >= EpisodeSteps <=> verdict = "truncated"
  BY <1>1
<1>12. (won <=> verdict = "success") /\ ~won /\ ~touched /\ ~(step >= EpisodeSteps)
           => /\ verdict = "active" /\ step < EpisodeSteps /\ hold < Hold /\ streak < Hold
              /\ e.hold = s.streak => hold = streak
  BY <1>1
<1>13. step = s.step + 1 /\ (won => ~touched)
  OBVIOUS
<1> HIDE DEF hold, streak, step, won, bad, verdict
<1> QED BY <1>6, <1>7, <1>8, <1>9, <1>10, <1>11, <1>12, <1>13

(* A world that is over is held as it is.                                  *)
LEMMA OverIsHeld ==
    ASSUME NEW e \in EnvStates, NEW m \in Collection!Motion,
           e.success \/ e.fail, e.success => ~e.fail,
           NEW a, a = Collection!EnvStep(e, m)
    PROVE  a \in EnvStates /\ a.success = e.success /\ a.fail = e.fail
<1>1. a = [hold |-> e.hold, fail |-> e.fail, success |-> e.success]
  BY DEF Collection!EnvStep, EnvStates
<1> QED BY <1>1 DEF EnvStates

(* The smaller of the two lengths a chunk may have.                        *)
LEMMA SmallerOfTwo ==
    ASSUME NEW x \in Int, NEW y \in Int
    PROVE  Collection!Min({x, y}) = IF x <= y THEN x ELSE y
<1> DEFINE least == IF x <= y THEN x ELSE y
<1>1. \A z \in {x, y} : (\A u \in {x, y} : z <= u) <=> z = least
  OBVIOUS
<1>2. least \in {x, y}
  OBVIOUS
<1> HIDE DEF least
<1>3. (CHOOSE z \in {x, y} : \A u \in {x, y} : z <= u) = least
  BY <1>1, <1>2
<1> QED BY <1>3 DEF Collection!Min, least

(* The length of the open path, and of the chunk that is due.              *)
LEMMA PathLength ==
    ASSUME Collection!CollectionAssumption, LedgerIsSound, Steps < EpisodeSteps
    PROVE  /\ Steps \in Nat /\ Total \in Nat \ {0} /\ Total <= EpisodeSteps - Steps
           /\ ChunkSteps \in Nat \ {0} /\ EpisodeSteps \in Nat \ {0} /\ Hold \in Nat \ {0}
<1>1. Collection!PathOf(decisions) \in Seq(Rows)
  BY PathIsJoined, JoinedType DEF LedgerIsSound
<1>2. Steps \in Nat
  BY <1>1 DEF Steps, Collection!ControlSteps
<1>3. ChunkSteps \in Nat \ {0} /\ EpisodeSteps \in Nat \ {0} /\ Hold \in Nat \ {0}
  BY DEF Collection!CollectionAssumption
<1>4. EpisodeSteps - Steps \in Nat \ {0}
  BY <1>2, <1>3
<1> QED BY <1>2, <1>3, <1>4 DEF Total

(* As long as no decision is closed the path stays as it is.               *)
LEMMA PathStays ==
    ASSUME LedgerIsSound, UNCHANGED decisions
    PROVE  /\ LedgerIsSound' /\ Steps' = Steps /\ Total' = Total
           /\ PathIsOpen /\ UNCHANGED <<root, task>> /\ odd \subseteq odd' => PathIsOpen'
<1>1. Collection!PathOf(decisions)' = Collection!PathOf(decisions)
  BY DEF Collection!PathOf, Collection!FlattenSeq
<1>2. Steps' = Steps
  BY <1>1 DEF Steps, Collection!ControlSteps
<1>3. Total' = Total
  BY <1>2 DEF Total
<1>4. LedgerIsSound'
  BY DEF LedgerIsSound, Collection!Accepted
<1>5. ASSUME PathIsOpen, UNCHANGED <<root, task>>, odd \subseteq odd' PROVE PathIsOpen'
  BY <1>2, <1>5 DEF PathIsOpen, Collection!Over
<1> QED BY <1>2, <1>3, <1>4, <1>5

(* One step of the chunk, in every world.                                  *)
LEMMA ChunkKeeps ==
    ASSUME Collection!CollectionAssumption, CollectionKnown, Collection!ChunkStep
    PROVE  CollectionKnown'
<1>1. /\ collectPc = "chunk" /\ left > 0 /\ LedgerIsSound /\ PathIsOpen /\ ChunkIsSound
      /\ UNCHANGED <<decisions, root, nextRoot, task, chosen, witness, samples, success>>
  BY DEF Collection!ChunkStep, CollectionKnown, Live, Chunk
<1>2. /\ Steps \in Nat /\ Total \in Nat \ {0} /\ Total <= EpisodeSteps - Steps
      /\ EpisodeSteps \in Nat /\ Hold \in Nat
  BY <1>1, PathLength DEF PathIsOpen
<1>3. PICK m \in [Worlds -> Collection!Motion] :
        LET after == [w \in Worlds |-> Collection!EnvStep(env[w], m[w])]
            frames0 == [w \in Worlds |->
                          Collection!Frame(m[w].near, m[w].touch = "end", "branch")]
            judged == [w \in active |-> Collection!TaskStep(shadow[w], frames0[w])]
            row(w) == [frame |-> frames0[w], terminated |-> Collection!EnvTerminated(after[w]),
                       truncated |-> Collection!EnvTruncated(judged[w].step)]
        IN /\ odd' = odd \cup Collection!Oddities(m, after)
           /\ IF \E w \in active : ~Collection!MayEvaluate(shadow[w])
              THEN Collection!Abort("task")
              ELSE IF \E w \in active : ~Collection!Parity(judged[w], after[w])
              THEN Collection!Abort("parity")
              ELSE /\ env' = after
                   /\ shadow' = [w \in Worlds |-> IF w \in active THEN judged[w] ELSE shadow[w]]
                   /\ rows' = [w \in Worlds |->
                        IF w \in active THEN Append(rows[w], row(w)) ELSE rows[w]]
                   /\ outcome' = [w \in Worlds |->
                        IF w \in active
                        THEN Collection!Observe(outcome[w], after[w].fail, m[w].touch # "no")
                        ELSE outcome[w]]
                   /\ active' = {w \in active : ~Collection!Over(row(w))}
                   /\ touching' = {w \in Worlds : m[w].touch = "end"}
                   /\ left' = left - 1
                   /\ UNCHANGED <<collectPc, why>>
  BY DEF Collection!ChunkStep
<1> DEFINE after == [w \in Worlds |-> Collection!EnvStep(env[w], m[w])]
           signal == [w \in Worlds |->
                        Collection!Frame(m[w].near, m[w].touch = "end", "branch")]
           judged == [w \in active |-> Collection!TaskStep(shadow[w], signal[w])]
           row(w) == [frame |-> signal[w], terminated |-> Collection!EnvTerminated(after[w]),
                      truncated |-> Collection!EnvTruncated(judged[w].step)]
<1>4. odd' = odd \cup Collection!Oddities(m, after)
  BY <1>3
<1>5. /\ ChunkTypes /\ \A w \in Worlds : WorldIsSound(w)
      /\ active \subseteq Worlds /\ active \in SUBSET Worlds
  BY <1>1 DEF ChunkIsSound, ChunkTypes
<1>6. \A w \in Worlds : /\ env[w] \in EnvStates /\ shadow[w] \in TaskStates
                        /\ m[w] \in Collection!Motion /\ outcome[w] \in Outcomes
                        /\ rows[w] \in Seq(Rows)
  BY <1>5 DEF ChunkTypes
<1>7. ASSUME NEW w \in active PROVE
      /\ w \in Worlds /\ StillActive(w)
      /\ after[w] \in EnvStates /\ signal[w] \in Signals /\ judged[w] \in TaskStates
      /\ Collection!MayEvaluate(shadow[w])
      /\ judged[w].step = shadow[w].step + 1
      /\ after[w].fail <=> m[w].touch # "no"
      /\ after[w].success => m[w].touch = "no"
      /\ (/\ env[w].hold = shadow[w].streak /\ m[w].touch # "passing"
          /\ ~(shadow[w].step + 1 = EpisodeSteps /\ Collection!EnvTerminated(after[w])))
             => Collection!Parity(judged[w], after[w])
      /\ Collection!Parity(judged[w], after[w]) /\ ~after[w].success /\ ~after[w].fail
            /\ ~(judged[w].step >= EpisodeSteps) =>
             /\ judged[w].status = "active" /\ judged[w].step < EpisodeSteps
             /\ after[w].hold < Hold /\ judged[w].streak < Hold
             /\ env[w].hold = shadow[w].streak => after[w].hold = judged[w].streak
  <2>1. w \in Worlds /\ StillActive(w)
    BY <1>5 DEF WorldIsSound
  <2>2. /\ env[w] \in EnvStates /\ shadow[w] \in TaskStates /\ m[w] \in Collection!Motion
        /\ ~env[w].success /\ ~env[w].fail /\ env[w].hold < Hold
        /\ shadow[w].status = "active" /\ shadow[w].step < EpisodeSteps
        /\ shadow[w].streak < Hold
    BY <1>6, <2>1 DEF StillActive
  <2>3. /\ after[w] = Collection!EnvStep(env[w], m[w])
        /\ signal[w] = Collection!Frame(m[w].near, m[w].touch = "end", "branch")
        /\ judged[w] = Collection!TaskStep(shadow[w], signal[w])
    BY <2>1
  <2> HIDE DEF after, signal, judged
  <2> QED BY <2>1, <2>2, <2>3, JudgesAgree
<1>8. IF \E w \in active : ~Collection!MayEvaluate(shadow[w])
      THEN Collection!Abort("task")
      ELSE IF \E w \in active : ~Collection!Parity(judged[w], after[w])
      THEN Collection!Abort("parity")
      ELSE /\ env' = after
           /\ shadow' = [w \in Worlds |-> IF w \in active THEN judged[w] ELSE shadow[w]]
           /\ rows' = [w \in Worlds |->
                IF w \in active THEN Append(rows[w], row(w)) ELSE rows[w]]
           /\ outcome' = [w \in Worlds |->
                IF w \in active
                THEN Collection!Observe(outcome[w], after[w].fail, m[w].touch # "no")
                ELSE outcome[w]]
           /\ active' = {w \in active : ~Collection!Over(row(w))}
           /\ touching' = {w \in Worlds : m[w].touch = "end"}
           /\ left' = left - 1
           /\ UNCHANGED <<collectPc, why>>
  BY <1>3
<1>9. LedgerIsSound' /\ Steps' = Steps /\ Total' = Total /\ PathIsOpen'
  BY <1>1, <1>4, PathStays
<1>10. CASE \E w \in active : ~Collection!Parity(judged[w], after[w])
  <2>1. PICK w \in active : ~Collection!Parity(judged[w], after[w])
    BY <1>10
  <2>2. /\ w \in Worlds /\ StillActive(w)
        /\ \/ env[w].hold # shadow[w].streak \/ m[w].touch = "passing"
           \/ shadow[w].step + 1 = EpisodeSteps /\ Collection!EnvTerminated(after[w])
    <3> HIDE DEF after, judged
    <3> QED BY <1>7, <2>1
  <2>3. odd' \cap {"passing", "replay", "last"} # {}
    <3>1. CASE env[w].hold # shadow[w].streak
      BY <1>4, <2>2, <3>1 DEF StillActive
    <3>2. CASE m[w].touch = "passing"
      BY <1>4, <2>1, <3>2 DEF Collection!Oddities
    <3>3. CASE shadow[w].step + 1 = EpisodeSteps /\ Collection!EnvTerminated(after[w])
      <4> HIDE DEF after
      <4> QED BY <1>4, <2>1, <3>3 DEF Collection!Oddities
    <3> QED BY <2>2, <3>1, <3>2, <3>3
  <2>4. collectPc' = "aborted" /\ why' = "parity"
    <3>1. ~ \E u \in active : ~Collection!MayEvaluate(shadow[u])
      BY <1>7
    <3> HIDE DEF after, judged
    <3> QED BY <1>8, <1>10, <3>1 DEF Collection!Abort
  <2> QED BY <2>3, <2>4 DEF CollectionKnown, Collection!AbortsOnlyForCause, Live, Chunk
<1>11. CASE ~ \E w \in active : ~Collection!Parity(judged[w], after[w])
  <2>1. /\ env' = after
        /\ shadow' = [w \in Worlds |-> IF w \in active THEN judged[w] ELSE shadow[w]]
        /\ rows' = [w \in Worlds |->
             IF w \in active THEN Append(rows[w], row(w)) ELSE rows[w]]
        /\ outcome' = [w \in Worlds |->
             IF w \in active
             THEN Collection!Observe(outcome[w], after[w].fail, m[w].touch # "no")
             ELSE outcome[w]]
        /\ active' = {w \in active : ~Collection!Over(row(w))}
        /\ touching' = {w \in Worlds : m[w].touch = "end"}
        /\ left' = left - 1
        /\ UNCHANGED <<collectPc, why>>
    <3>1. ~ \E u \in active : ~Collection!MayEvaluate(shadow[u])
      BY <1>7
    <3> HIDE DEF after, judged, row
    <3> QED BY <1>8, <1>11, <3>1
  <2>2. ASSUME NEW w \in active PROVE
        /\ row(w) \in Rows
        /\ Collection!Over(row(w)) <=>
               after[w].success \/ after[w].fail \/ judged[w].step >= EpisodeSteps
    <3>1. /\ after[w].success \in BOOLEAN /\ after[w].fail \in BOOLEAN /\ signal[w] \in Signals
          /\ (judged[w].step >= EpisodeSteps) \in BOOLEAN
      <4> HIDE DEF after, signal, judged
      <4> QED BY <1>7 DEF EnvStates
    <3> DEFINE t == after[w].success \/ after[w].fail
               c == judged[w].step >= EpisodeSteps
    <3>2. row(w) = [frame |-> signal[w], terminated |-> t, truncated |-> c]
      <4> HIDE DEF after, signal, judged
      <4> QED BY DEF Collection!EnvTerminated, Collection!EnvTruncated
    <3>3. t \in BOOLEAN /\ c \in BOOLEAN
      BY <3>1
    <3> HIDE DEF t, c, row, signal
    <3>4. row(w) \in Rows /\ (Collection!Over(row(w)) <=> t \/ c)
      BY <3>1, <3>2, <3>3 DEF Rows, Collection!Over
    <3> QED BY <3>4 DEF t, c
  <2>3. \A w \in Worlds \ active :
           /\ after[w] \in EnvStates
           /\ after[w].success = env[w].success /\ after[w].fail = env[w].fail
           /\ after[w].success \/ after[w].fail
    <3> TAKE w \in Worlds \ active
    <3>1. IsOver(w) /\ IsNoted(w) /\ env[w] \in EnvStates /\ m[w] \in Collection!Motion
      BY <1>5, <1>6 DEF WorldIsSound
    <3>2. env[w].success \/ env[w].fail
      BY <1>1, <3>1 DEF IsOver
    <3>3. env[w].success => ~env[w].fail
      BY <3>1 DEF IsNoted
    <3>4. after[w] = Collection!EnvStep(env[w], m[w])
      OBVIOUS
    <3> HIDE DEF after
    <3> QED BY <3>1, <3>2, <3>3, <3>4, OverIsHeld
  <2> HIDE DEF after, signal, judged, row
  <2>4. ChunkTypes'
    <3>1. env' \in [Worlds -> EnvStates]
      <4>1. \A w \in Worlds : after[w] \in EnvStates
        BY <1>7, <2>3
      <4> QED BY <2>1, <4>1 DEF after
    <3>2. shadow' \in [Worlds -> TaskStates]
      BY <1>6, <1>7, <2>1
    <3>3. rows' \in [Worlds -> Seq(Rows)]
      <4>1. \A w \in active : Append(rows[w], row(w)) \in Seq(Rows)
        BY <1>5, <1>6, <2>2
      <4> QED BY <1>6, <2>1, <4>1
    <3>4. outcome' \in [Worlds -> Outcomes]
      <4>1. ASSUME NEW w \in active PROVE
            Collection!Observe(outcome[w], after[w].fail, m[w].touch # "no") \in Outcomes
        <5>1. outcome[w] \in Outcomes
          BY <1>5, <1>6
        <5> DEFINE b == outcome[w].failure \/ after[w].fail
                   c == outcome[w].unsafe \/ m[w].touch # "no"
        <5>2. Collection!Observe(outcome[w], after[w].fail, m[w].touch # "no")
                = [failure |-> b, unsafe |-> c]
          BY DEF Collection!Observe
        <5>3. b \in BOOLEAN /\ c \in BOOLEAN
          OBVIOUS
        <5> HIDE DEF b, c
        <5> QED BY <5>2, <5>3 DEF Outcomes
      <4> QED BY <1>6, <2>1, <4>1
    <3>5. left' \in 0 .. Total'
      BY <1>1, <1>2, <1>5, <1>9, <2>1 DEF ChunkTypes
    <3>6. active' \subseteq Worlds /\ touching' \subseteq Worlds
      BY <1>5, <2>1
    <3> QED BY <3>1, <3>2, <3>3, <3>4, <3>5, <3>6 DEF ChunkTypes
  <2>5. ASSUME NEW w \in Worlds, w \in active PROVE WorldIsSound(w)'
    <3>1. /\ StillActive(w) /\ IsNoted(w) /\ rows[w] \in Seq(Rows) /\ outcome[w] \in Outcomes
          /\ shadow[w] \in TaskStates /\ left \in 0 .. Total
      BY <1>5, <1>6, <2>5 DEF WorldIsSound, ChunkTypes
    <3>2. /\ env'[w] = after[w] /\ shadow'[w] = judged[w]
          /\ rows'[w] = Append(rows[w], row(w))
          /\ outcome'[w] = Collection!Observe(outcome[w], after[w].fail, m[w].touch # "no")
          /\ w \in active' <=> ~Collection!Over(row(w))
          /\ w \in touching' <=> m[w].touch = "end"
      BY <2>1, <2>5
    <3>3. /\ outcome'[w].failure <=> outcome[w].failure \/ after[w].fail
          /\ outcome'[w].unsafe <=> outcome[w].unsafe \/ m[w].touch # "no"
      <4> DEFINE b == outcome[w].failure \/ after[w].fail
                 c == outcome[w].unsafe \/ m[w].touch # "no"
      <4>1. outcome'[w] = [failure |-> b, unsafe |-> c]
        BY <3>2 DEF Collection!Observe
      <4> HIDE DEF b, c
      <4>2. outcome'[w].failure = b /\ outcome'[w].unsafe = c
        BY <4>1
      <4> QED BY <4>2 DEF b, c
    <3>4. /\ Len(rows'[w]) = Len(rows[w]) + 1 /\ Len(rows[w]) \in Nat
          /\ rows'[w][Len(rows[w]) + 1] = row(w)
          /\ \A k \in 1 .. Len(rows[w]) : rows'[w][k] = rows[w][k]
      <4>1. row(w) \in Rows
        BY <2>2, <2>5
      <4> QED BY <3>1, <3>2, <4>1
    <3>5. \A k \in 1 .. Len(rows[w]) : ~Collection!Over(rows'[w][k])
      BY <3>1, <3>4 DEF StillActive
    <3>6. IsNoted(w)'
      <4>1. ~outcome[w].failure /\ ~outcome[w].unsafe
        BY <3>1 DEF StillActive
      <4>2. /\ after[w].fail <=> m[w].touch # "no"
            /\ after[w].success => m[w].touch = "no"
        BY <1>7, <2>5
      <4> QED BY <3>2, <3>3, <4>1, <4>2 DEF IsNoted
    <3>7. CASE Collection!Over(row(w))
      <4>1. after[w].success \/ after[w].fail \/ judged[w].step >= EpisodeSteps
        BY <2>2, <2>5, <3>7
      <4>2. judged[w].step >= EpisodeSteps => left' = 0
        <5>1. /\ judged[w].step = Steps + (Total - left) + 1
              /\ left \in 0 .. Total /\ left > 0 /\ left' = left - 1
          BY <1>1, <1>7, <2>1, <2>5, <3>1 DEF StillActive
        <5> QED BY <1>2, <5>1
      <4>3. IsOver(w)'
        <5>1. /\ Len(rows'[w]) > 0 /\ Len(rows'[w]) - 1 = Len(rows[w])
              /\ rows'[w][Len(rows'[w])] = row(w)
          BY <3>4
        <5>2. env'[w].success \/ env'[w].fail \/ left' = 0
          BY <3>2, <4>1, <4>2
        <5>3. /\ (Collection!Over(rows[w][Len(rows[w])]))'
                    <=> Collection!Over(rows'[w][Len(rows'[w])])
              /\ \A k \in 1 .. Len(rows[w]) :
                    (Collection!Over(rows[w][k]))' <=> Collection!Over(rows'[w][k])
          BY DEF Collection!Over
        <5> QED BY <3>5, <3>7, <5>1, <5>2, <5>3 DEF IsOver, Collection!Over
      <4> QED BY <3>2, <3>6, <3>7, <4>3 DEF WorldIsSound
    <3>8. CASE ~Collection!Over(row(w))
      <4>1. /\ ~after[w].success /\ ~after[w].fail /\ ~(judged[w].step >= EpisodeSteps)
            /\ Collection!Parity(judged[w], after[w])
        BY <1>11, <2>2, <2>5, <3>8
      <4>2. /\ judged[w].status = "active" /\ judged[w].step < EpisodeSteps
            /\ after[w].hold < Hold /\ judged[w].streak < Hold
            /\ env[w].hold = shadow[w].streak => after[w].hold = judged[w].streak
            /\ judged[w].step = shadow[w].step + 1
            /\ m[w].touch = "no"
        BY <1>7, <2>5, <4>1
      <4>3. Len(rows'[w]) = Total' - left' /\ judged[w].step = Steps' + Len(rows'[w])
        <5>1. /\ Len(rows[w]) = Total - left /\ shadow[w].step = Steps + Len(rows[w])
              /\ left' = left - 1 /\ left \in 0 .. Total
          BY <2>1, <3>1 DEF StillActive
        <5> QED BY <1>2, <1>9, <3>4, <4>2, <5>1
      <4>4. \A k \in 1 .. Len(rows'[w]) : ~Collection!Over(rows'[w][k])
        BY <3>4, <3>5, <3>8
      <4>5. env[w].hold = shadow[w].streak \/ "replay" \in odd'
        BY <1>4, <3>1 DEF StillActive
      <4>6. ~outcome'[w].failure /\ ~outcome'[w].unsafe
        BY <3>1, <3>3, <4>1, <4>2 DEF StillActive
      <4>7. StillActive(w)'
        BY <3>2, <4>1, <4>2, <4>3, <4>4, <4>5, <4>6 DEF StillActive, Collection!Over
      <4> QED BY <3>2, <3>6, <3>8, <4>7 DEF WorldIsSound
    <3> QED BY <3>7, <3>8
  <2>6. ASSUME NEW w \in Worlds, w \notin active PROVE WorldIsSound(w)'
    <3>1. IsOver(w) /\ IsNoted(w)
      BY <1>5, <2>6 DEF WorldIsSound
    <3>2. /\ env'[w] = after[w] /\ rows'[w] = rows[w] /\ outcome'[w] = outcome[w]
          /\ w \notin active' /\ (w \in touching' <=> m[w].touch = "end")
      BY <2>1, <2>6
    <3>3. /\ env'[w].success = env[w].success /\ env'[w].fail = env[w].fail
          /\ env'[w].success \/ env'[w].fail
      BY <2>3, <2>6, <3>2
    <3>4. w \in touching' => env'[w].fail \/ (env'[w].success /\ "held" \in odd')
      <4> SUFFICES ASSUME w \in touching', ~env'[w].fail PROVE env'[w].success /\ "held" \in odd'
        OBVIOUS
      <4>1. env[w].success /\ m[w].touch # "no"
        BY <3>2, <3>3
      <4>2. "held" \in Collection!Oddities(m, after)
        BY <2>6, <4>1 DEF Collection!Oddities
      <4> QED BY <1>4, <3>3, <4>1, <4>2
    <3>5. IsNoted(w)'
      BY <3>1, <3>2, <3>3, <3>4 DEF IsNoted
    <3>6. IsOver(w)'
      BY <3>1, <3>2, <3>3 DEF IsOver, Collection!Over
    <3> QED BY <3>2, <3>5, <3>6 DEF WorldIsSound
  <2>7. ChunkIsSound'
    BY <2>4, <2>5, <2>6 DEF ChunkIsSound
  <2> QED BY <1>1, <1>9, <2>1, <2>7 DEF CollectionKnown, Collection!AbortsOnlyForCause, Live,
                                        Chunk
<1> QED BY <1>10, <1>11

(* Every world starts the chunk from the root. *)
LEMMA OpenKeeps ==
    ASSUME Collection!CollectionAssumption, CollectionKnown, Collection!OpenDecision
    PROVE  CollectionKnown'
<1>1. /\ collectPc = "root" /\ LedgerIsSound /\ PathIsOpen /\ collectPc' = "chunk"
      /\ UNCHANGED <<decisions, root, task, odd, why>>
      /\ active' = Worlds /\ touching' = {}
      /\ left' = Collection!Min({ChunkSteps, EpisodeSteps - Collection!ControlSteps})
  BY DEF Collection!OpenDecision, CollectionKnown, Live
<1>2. /\ Steps \in Nat /\ Total \in Nat \ {0}
      /\ EpisodeSteps \in Nat /\ Hold \in Nat \ {0} /\ ChunkSteps \in Nat
  BY <1>1, PathLength DEF PathIsOpen
<1>3. LedgerIsSound' /\ Steps' = Steps /\ Total' = Total /\ PathIsOpen'
  BY <1>1, PathStays
<1>4. left' = Total'
  BY <1>1, <1>2, <1>3, SmallerOfTwo DEF Total, Steps
<1>5. /\ root.hold \in 0 .. Hold - 1 /\ task \in TaskStates /\ task.status = "active"
      /\ task.step = Steps /\ Steps < EpisodeSteps /\ task.streak < Hold
      /\ root.hold = task.streak \/ "replay" \in odd
  BY <1>1 DEF PathIsOpen
<1>6. /\ env' = [w \in Worlds |-> [hold |-> root.hold, success |-> FALSE, fail |-> FALSE]]
      /\ shadow' = [w \in Worlds |-> task] /\ rows' = [w \in Worlds |-> <<>>]
      /\ outcome' = [w \in Worlds |-> [failure |-> FALSE, unsafe |-> FALSE]]
  BY DEF Collection!OpenDecision
<1>7. ChunkTypes'
  <2>1. [hold |-> root.hold, success |-> FALSE, fail |-> FALSE] \in EnvStates
    BY <1>2, <1>5 DEF EnvStates
  <2>2. [failure |-> FALSE, unsafe |-> FALSE] \in Outcomes
    BY DEF Outcomes
  <2>3. <<>> \in Seq(Rows)
    OBVIOUS
  <2> QED BY <1>1, <1>2, <1>3, <1>4, <1>5, <1>6, <2>1, <2>2, <2>3 DEF ChunkTypes
<1>8. ASSUME NEW w \in Worlds PROVE WorldIsSound(w)'
  <2>1. /\ rows'[w] = <<>> /\ shadow'[w] = task
        /\ env'[w].hold = root.hold /\ ~env'[w].success /\ ~env'[w].fail
        /\ ~outcome'[w].failure /\ ~outcome'[w].unsafe
    BY <1>6
  <2>2. StillActive(w)'
    BY <1>1, <1>2, <1>3, <1>4, <1>5, <2>1 DEF StillActive
  <2>3. IsNoted(w)'
    BY <1>1, <2>1 DEF IsNoted
  <2> QED BY <1>1, <2>2, <2>3 DEF WorldIsSound
<1> QED BY <1>1, <1>3, <1>7, <1>8
        DEF CollectionKnown, Collection!AbortsOnlyForCause, ChunkIsSound, Live, Chunk

(* A world with a chunk behind it has rows, and only the last may be over. *)
LEMMA ChunkBehind ==
    ASSUME Collection!CollectionAssumption, LedgerIsSound, PathIsOpen, ChunkIsSound, left = 0,
           NEW w \in Worlds
    PROVE  /\ Len(rows[w]) \in Nat \ {0} /\ rows[w] # <<>> /\ rows[w] \in Seq(Rows)
           /\ rows[w][Len(rows[w])] \in Rows
           /\ w \in active <=> ~Collection!Over(rows[w][Len(rows[w])])
           /\ \A k \in 2 .. Len(rows[w]) : ~Collection!Over(rows[w][k - 1])
<1>1. Total \in Nat \ {0}
  BY PathLength DEF PathIsOpen
<1>2. rows[w] \in Seq(Rows) /\ WorldIsSound(w)
  BY DEF ChunkIsSound, ChunkTypes
<1>3. CASE w \in active
  <2>1. Len(rows[w]) = Total /\ \A k \in 1 .. Len(rows[w]) : ~Collection!Over(rows[w][k])
    BY <1>1, <1>2, <1>3 DEF WorldIsSound, StillActive
  <2> QED BY <1>1, <1>2, <1>3, <2>1
<1>4. CASE w \notin active
  <2>1. /\ Len(rows[w]) > 0 /\ Collection!Over(rows[w][Len(rows[w])])
        /\ \A k \in 1 .. Len(rows[w]) - 1 : ~Collection!Over(rows[w][k])
    BY <1>2, <1>4 DEF WorldIsSound, IsOver
  <2>2. Len(rows[w]) \in Nat
    BY <1>2
  <2> QED BY <1>2, <1>4, <2>1, <2>2
<1> QED BY <1>3, <1>4

(* Whatever a closed decision continues, the validator accepts the ledger. *)
LEMMA ClosedIsAccepted ==
    ASSUME Collection!CollectionAssumption, LedgerIsSound, PathIsOpen, ChunkIsSound, left = 0,
           NEW c \in Worlds \cup {None}, decisions' = Append(decisions, Collection!Closed(c))
    PROVE  /\ LedgerIsSound' /\ decisions' # <<>>
           /\ c # None => /\ Steps' = Steps + Len(rows[c])
                          /\ decisions'[Len(decisions')].continued = c
                          /\ decisions'[Len(decisions')].rows[c] = rows[c]
<1> DEFINE d == Collection!Closed(c)
<1>1. /\ d.root = root.frame /\ d.step = Steps /\ d.rows = rows /\ d.continued = c
  BY DEF Collection!Closed, Steps
<1>2. d \in Decisions
  <2>1. root.frame \in Signals /\ rows \in [Worlds -> Seq(Rows)] /\ Steps \in Nat
    BY PathLength DEF PathIsOpen, ChunkIsSound, ChunkTypes
  <2> QED BY <2>1 DEF Collection!Closed, Decisions, Steps
<1> HIDE DEF d
<1>3. decisions \in Seq(Decisions) /\ decisions' = Append(decisions, d)
  BY DEF LedgerIsSound, d
<1>4. /\ \E w \in Worlds : d.rows[w] # <<>>
      /\ d.continued # None => d.rows[d.continued] # <<>>
      /\ \A w \in Worlds : \A k \in 2 .. Len(d.rows[w]) : ~Collection!Over(d.rows[w][k - 1])
  <2>1. PICK u \in Worlds : TRUE
    BY DEF Collection!CollectionAssumption
  <2> QED BY <1>1, <2>1, ChunkBehind
<1>5. Collection!Accepted(Append(decisions, d))
  <2>1. d.step = Len(Collection!PathOf(decisions))
    BY <1>1 DEF Steps, Collection!ControlSteps
  <2>2. decisions = <<>> \/ Collection!Accepted(decisions)
    BY DEF LedgerIsSound
  <2>3. decisions # <<>> =>
            LET p == decisions[Len(decisions)]
                last == p.rows[p.continued][Len(p.rows[p.continued])]
            IN p.continued # None /\ ~Collection!Over(last) /\ d.root = last.frame
    BY <1>1 DEF PathIsOpen
  <2> QED BY <1>2, <1>3, <1>4, <2>1, <2>2, <2>3, AcceptedGrows
<1>6. decisions' \in Seq(Decisions) /\ decisions' # <<>> /\ decisions'[Len(decisions')] = d
  BY <1>2, <1>3
<1>7. LedgerIsSound'
  <2>1. Collection!Accepted(decisions')
    BY <1>3, <1>5
  <2>2. Collection!Accepted(decisions)' <=> Collection!Accepted(decisions')
    BY DEF Collection!Accepted
  <2> QED BY <1>6, <2>1, <2>2 DEF LedgerIsSound
<1>8. ASSUME c # None PROVE Steps' = Steps + Len(rows[c])
  <2>1. Len(Collection!PathOf(decisions')) = Len(Collection!PathOf(decisions)) + Len(rows[c])
    BY <1>1, <1>2, <1>3, <1>8, PathGrows DEF Continued
  <2>2. Collection!PathOf(decisions)' = Collection!PathOf(decisions')
    BY DEF Collection!PathOf, Collection!FlattenSeq
  <2> QED BY <2>1, <2>2 DEF Steps, Collection!ControlSteps
<1> QED BY <1>1, <1>6, <1>7, <1>8

(* The end of the chunk: what stops it had a cause, what ends the path is  *)
(* accepted, and what is continued is a world with a chunk behind it.      *)
LEMMA SelectKeeps ==
    ASSUME Collection!CollectionAssumption, CollectionKnown, Collection!Select
    PROVE  CollectionKnown'
<1> DEFINE o == [w \in Worlds |->
                   Collection!Observe(outcome[w], env[w].fail, w \in touching)]
<1>1. /\ collectPc = "chunk" /\ left = 0 /\ LedgerIsSound /\ PathIsOpen /\ ChunkIsSound
      /\ outcome' = o
      /\ UNCHANGED <<root, nextRoot, task, env, shadow, active, left, rows, touching, odd>>
  BY DEF Collection!Select, CollectionKnown, Live, Chunk
<1>2. IF \E w \in Worlds : env[w].success /\ (o[w].failure \/ o[w].unsafe)
      THEN collectPc' = "aborted" /\ why' = "select"
      ELSE IF \E w \in Worlds : o[w].unsafe /\ ~o[w].failure
      THEN collectPc' = "aborted" /\ why' = "record"
      ELSE IF Collection!Pool(o) = {}
      THEN /\ decisions' = Append(decisions, Collection!Closed(None)) /\ collectPc' = "finish"
           /\ UNCHANGED why
      ELSE \E top \in Collection!Pool(o) :
           /\ chosen' = top /\ UNCHANGED <<decisions, why>>
           /\ collectPc' = IF Collection!Over(Collection!Last(rows[top]))
                           THEN "close" ELSE "replay"
  BY DEF Collection!Select, Collection!Abort
<1>3. ASSUME NEW w \in Worlds PROVE
      /\ WorldIsSound(w) /\ IsNoted(w) /\ o[w] \in Outcomes
      /\ o[w].failure <=> outcome[w].failure \/ env[w].fail
      /\ o[w].unsafe <=> outcome[w].unsafe \/ w \in touching
  <2> DEFINE b == outcome[w].failure \/ env[w].fail
             c == outcome[w].unsafe \/ w \in touching
  <2>1. o[w] = [failure |-> b, unsafe |-> c] /\ b \in BOOLEAN /\ c \in BOOLEAN
    BY DEF Collection!Observe
  <2> HIDE DEF b, c, o
  <2>2. o[w] \in Outcomes /\ o[w].failure = b /\ o[w].unsafe = c
    BY <2>1 DEF Outcomes
  <2>3. WorldIsSound(w) /\ IsNoted(w)
    BY <1>1 DEF ChunkIsSound, WorldIsSound
  <2> QED BY <2>2, <2>3 DEF b, c
<1>4. o = [w \in Worlds |-> o[w]]
  OBVIOUS
<1> HIDE DEF o
<1>5. CASE \E w \in Worlds : env[w].success /\ (o[w].failure \/ o[w].unsafe)
  <2>1. PICK w \in Worlds : env[w].success /\ (o[w].failure \/ o[w].unsafe)
    BY <1>5
  <2>2. "held" \in odd
    BY <1>3, <2>1 DEF IsNoted
  <2>3. collectPc' = "aborted" /\ why' = "select" /\ odd' = odd
    BY <1>1, <1>2, <1>5
  <2> QED BY <2>2, <2>3 DEF CollectionKnown, Collection!AbortsOnlyForCause, Live, Chunk
<1>6. CASE ~ \E w \in Worlds : env[w].success /\ (o[w].failure \/ o[w].unsafe)
  <2>1. \A w \in Worlds : o[w].unsafe => o[w].failure
    BY <1>3, <1>6 DEF IsNoted
  <2>2. CASE Collection!Pool(o) = {}
    <3>1. /\ decisions' = Append(decisions, Collection!Closed(None)) /\ collectPc' = "finish"
      BY <1>2, <1>6, <2>1, <2>2
    <3>2. LedgerIsSound' /\ decisions' # <<>>
      BY <1>1, <3>1, ClosedIsAccepted
    <3> QED BY <3>1, <3>2 DEF CollectionKnown, Collection!AbortsOnlyForCause, Live, Chunk
  <2>3. CASE Collection!Pool(o) # {}
    <3>1. PICK top \in Collection!Pool(o) :
            /\ chosen' = top /\ UNCHANGED <<decisions, why>>
            /\ collectPc' = IF Collection!Over(Collection!Last(rows[top]))
                            THEN "close" ELSE "replay"
      BY <1>2, <1>6, <2>1, <2>3
    <3>2. top \in Worlds
      BY <3>1 DEF Collection!Pool, Collection!Successful, Collection!Eligible
    <3>3. LedgerIsSound' /\ PathIsOpen' /\ Steps' = Steps /\ Total' = Total
      BY <1>1, <3>1, PathStays
    <3>4. ChunkTypes'
      BY <1>1, <1>3, <1>4, <3>3 DEF ChunkIsSound, ChunkTypes
    <3>5. ASSUME NEW w \in Worlds PROVE WorldIsSound(w)'
      <4>1. /\ WorldIsSound(w) /\ IsNoted(w) /\ outcome'[w] = o[w]
            /\ o[w].failure <=> outcome[w].failure \/ env[w].fail
            /\ o[w].unsafe <=> outcome[w].unsafe \/ w \in touching
        BY <1>1, <1>3
      <4>2. IsNoted(w)'
        BY <1>1, <1>6, <2>1, <4>1 DEF IsNoted
      <4>3. w \in active => StillActive(w)'
        BY <1>1, <3>3, <4>1 DEF WorldIsSound, StillActive, IsNoted, Collection!Over
      <4>4. w \notin active => IsOver(w)'
        BY <1>1, <4>1 DEF WorldIsSound, IsOver, Collection!Over
      <4> QED BY <1>1, <4>2, <4>3, <4>4 DEF WorldIsSound
    <3>6. /\ Collection!Last(rows[top]) = rows[top][Len(rows[top])]
          /\ top \in active <=> ~Collection!Over(rows[top][Len(rows[top])])
      BY <1>1, <3>2, ChunkBehind DEF Collection!Last
    <3>7. ContinuationIsSound' /\ collectPc' \in {"replay", "close"}
      BY <1>1, <3>1, <3>2, <3>6 DEF ContinuationIsSound
    <3> QED BY <3>3, <3>4, <3>5, <3>7
            DEF CollectionKnown, Collection!AbortsOnlyForCause, ChunkIsSound, Live, Chunk
  <2> QED BY <2>2, <2>3
<1> QED BY <1>5, <1>6

(* A replay rewrites the signals of the last transition of the chosen      *)
(* candidate, and those are what the next root shows.                      *)
LEMMA ReplayKeeps ==
    ASSUME Collection!CollectionAssumption, CollectionKnown, Collection!Replay
    PROVE  CollectionKnown'
<1>1. /\ collectPc = "replay" /\ LedgerIsSound /\ PathIsOpen /\ ChunkIsSound
      /\ ContinuationIsSound /\ left = 0 /\ chosen \in active /\ chosen \in Worlds
      /\ UNCHANGED <<decisions, root, task, env, shadow, active, left, outcome, touching, chosen>>
  BY DEF Collection!Replay, CollectionKnown, ContinuationIsSound, Live, Chunk
<1>2. CASE odd' = odd \cup {"replay"} /\ Collection!Abort("replay")
  BY <1>2 DEF Collection!Abort, CollectionKnown, Collection!AbortsOnlyForCause, Live, Chunk
<1>3. CASE /\ \E hold \in 0 .. (Hold - 1) :
                /\ nextRoot' = [frame |-> Collection!Frame(hold > 0, FALSE, "replay"),
                                hold |-> hold]
                /\ odd' = IF hold = shadow[chosen].streak THEN odd ELSE odd \cup {"replay"}
           /\ rows' = [rows EXCEPT ![chosen][Len(rows[chosen])].frame = nextRoot'.frame]
           /\ witness' = chosen /\ collectPc' = "close" /\ UNCHANGED why
  <2>1. PICK hold \in 0 .. (Hold - 1) :
            /\ nextRoot' = [frame |-> Collection!Frame(hold > 0, FALSE, "replay"), hold |-> hold]
            /\ odd' = IF hold = shadow[chosen].streak THEN odd ELSE odd \cup {"replay"}
    BY <1>3
  <2> DEFINE f == nextRoot'.frame
             n == Len(rows[chosen])
             r == rows[chosen][n]
  <2>2. f \in Signals
    <3> DEFINE b == hold > 0
    <3>1. b \in BOOLEAN
      OBVIOUS
    <3>2. nextRoot' = [frame |-> Collection!Frame(b, FALSE, "replay"), hold |-> hold]
      BY <2>1
    <3> HIDE DEF b
    <3> QED BY <3>1, <3>2 DEF Collection!Frame, Signals
  <2>3. nextRoot' \in [frame : Signals, hold : 0 .. Hold - 1] /\ nextRoot'.hold = hold
    BY <2>1, <2>2
  <2>4. odd \subseteq odd' /\ (hold = shadow[chosen].streak \/ "replay" \in odd')
    BY <2>1
  <2>5. /\ n \in Nat \ {0} /\ rows[chosen] \in Seq(Rows) /\ r \in Rows
        /\ rows \in [Worlds -> Seq(Rows)]
    BY <1>1, ChunkBehind DEF ChunkIsSound, ChunkTypes
  <2> HIDE DEF f
  <2> DEFINE s == [r EXCEPT !.frame = f]
  <2>6. rows' = [rows EXCEPT ![chosen] = [rows[chosen] EXCEPT ![n] = s]]
    BY <1>3 DEF f
  <2>7. s \in Rows /\ s.frame = f /\ (Collection!Over(s) <=> Collection!Over(r))
    BY <2>2, <2>5 DEF Rows, Collection!Over
  <2> HIDE DEF s
  <2>8. /\ rows' \in [Worlds -> Seq(Rows)]
        /\ \A w \in Worlds : w # chosen => rows'[w] = rows[w]
        /\ Len(rows'[chosen]) = n /\ rows'[chosen][n] = s
        /\ \A k \in 1 .. n : k # n => rows'[chosen][k] = rows[chosen][k]
    <3> DEFINE t == [rows[chosen] EXCEPT ![n] = s]
    <3>1. /\ t \in Seq(Rows) /\ Len(t) = n /\ t[n] = s
          /\ \A k \in 1 .. n : k # n => t[k] = rows[chosen][k]
      BY <2>5, <2>7
    <3>2. rows' = [rows EXCEPT ![chosen] = t]
      BY <2>6
    <3> HIDE DEF t, n
    <3> QED BY <1>1, <2>5, <3>1, <3>2
  <2>9. LedgerIsSound' /\ PathIsOpen' /\ Steps' = Steps /\ Total' = Total
    BY <1>1, <2>4, PathStays
  <2>10. ChunkTypes'
    BY <1>1, <2>8, <2>9 DEF ChunkIsSound, ChunkTypes
  <2>11. ASSUME NEW w \in Worlds PROVE WorldIsSound(w)'
    <3>1. /\ WorldIsSound(w) /\ Len(rows'[w]) = Len(rows[w]) /\ Len(rows[w]) \in Nat
          /\ \A k \in 1 .. Len(rows[w]) :
                Collection!Over(rows'[w][k]) <=> Collection!Over(rows[w][k])
      <4>1. WorldIsSound(w) /\ rows[w] \in Seq(Rows)
        BY <1>1 DEF ChunkIsSound, ChunkTypes
      <4>2. CASE w = chosen
        <5>1. \A k \in 1 .. n : Collection!Over(rows'[chosen][k])
                                   <=> Collection!Over(rows[chosen][k])
          BY <2>7, <2>8
        <5> QED BY <2>8, <4>1, <4>2, <5>1
      <4>3. CASE w # chosen
        BY <2>8, <4>1, <4>3
      <4> QED BY <4>2, <4>3
    <3>2. IsNoted(w)'
      BY <1>1, <2>4, <3>1 DEF WorldIsSound, IsNoted
    <3>3. w \in active => StillActive(w)'
      <4> SUFFICES ASSUME w \in active PROVE StillActive(w)'
        OBVIOUS
      <4>1. StillActive(w)
        BY <3>1 DEF WorldIsSound
      <4>2. \A k \in 1 .. Len(rows'[w]) : ~Collection!Over(rows'[w][k])
        BY <3>1, <4>1 DEF StillActive
      <4> QED BY <1>1, <2>4, <2>9, <3>1, <4>1, <4>2 DEF StillActive, Collection!Over
    <3>4. w \notin active => IsOver(w)'
      <4> SUFFICES ASSUME w \notin active PROVE IsOver(w)'
        OBVIOUS
      <4>1. IsOver(w)
        BY <3>1 DEF WorldIsSound
      <4>2. /\ Collection!Over(rows'[w][Len(rows'[w])])
            /\ \A k \in 1 .. Len(rows'[w]) - 1 : ~Collection!Over(rows'[w][k])
        BY <3>1, <4>1 DEF IsOver
      <4> QED BY <1>1, <3>1, <4>1, <4>2 DEF IsOver, Collection!Over
    <3> QED BY <1>1, <3>2, <3>3, <3>4 DEF WorldIsSound
  <2>12. ContinuationIsSound'
    BY <1>1, <1>3, <2>1, <2>3, <2>4, <2>7, <2>8 DEF ContinuationIsSound, f
  <2> QED BY <1>3, <2>9, <2>10, <2>11, <2>12
          DEF CollectionKnown, Collection!AbortsOnlyForCause, ChunkIsSound, Live, Chunk
<1> QED BY <1>2, <1>3 DEF Collection!Replay

(* A decision is closed: the episode is over, or its path goes on from the *)
(* root the replay left.                                                   *)
LEMMA CloseKeeps ==
    ASSUME Collection!CollectionAssumption, CollectionKnown, Collection!CloseDecision
    PROVE  CollectionKnown'
<1>1. /\ collectPc = "close" /\ LedgerIsSound /\ PathIsOpen /\ ChunkIsSound
      /\ ContinuationIsSound /\ left = 0 /\ chosen \in Worlds
      /\ UNCHANGED <<nextRoot, env, shadow, active, left, rows, chosen, witness, odd>>
  BY DEF Collection!CloseDecision, CollectionKnown, ContinuationIsSound, Live, Chunk
<1> DEFINE last == rows[chosen][Len(rows[chosen])]
<1>2. /\ Len(rows[chosen]) \in Nat \ {0} /\ Collection!Last(rows[chosen]) = last
      /\ chosen \in active <=> ~Collection!Over(last)
  BY <1>1, ChunkBehind DEF Collection!Last
<1>3. Collection!Over(last) \/ witness = chosen
  BY <1>1, <1>2 DEF ContinuationIsSound
<1>4. /\ decisions' = Append(decisions, Collection!Closed(chosen))
      /\ task' = shadow[chosen] /\ why' = why
      /\ IF \/ env[chosen].success \/ Collection!Over(last)
            \/ Steps + Len(rows[chosen]) >= EpisodeSteps
         THEN collectPc' = "finish"
         ELSE collectPc' = "root" /\ root' = nextRoot
  BY <1>2, <1>3 DEF Collection!CloseDecision, Steps
<1>5. /\ LedgerIsSound' /\ decisions' # <<>> /\ chosen # None
      /\ Steps' = Steps + Len(rows[chosen])
      /\ decisions'[Len(decisions')].continued = chosen
      /\ decisions'[Len(decisions')].rows[chosen] = rows[chosen]
  <2>1. chosen # None
    BY <1>1 DEF Collection!CollectionAssumption
  <2> QED BY <1>1, <1>4, <2>1, ClosedIsAccepted
<1>6. CASE collectPc' = "finish"
  BY <1>5, <1>6 DEF CollectionKnown, Collection!AbortsOnlyForCause, Live, Chunk
<1>7. CASE collectPc' # "finish"
  <2>1. /\ collectPc' = "root" /\ root' = nextRoot /\ ~Collection!Over(last)
        /\ ~(Steps + Len(rows[chosen]) >= EpisodeSteps)
    BY <1>4, <1>7
  <2>2. chosen \in active /\ StillActive(chosen)
    BY <1>1, <1>2, <2>1 DEF ChunkIsSound, WorldIsSound
  <2>3. /\ nextRoot \in [frame : Signals, hold : 0 .. Hold - 1]
        /\ nextRoot.frame = last.frame
        /\ nextRoot.hold = shadow[chosen].streak \/ "replay" \in odd
    BY <1>1, <2>2 DEF ContinuationIsSound
  <2>4. /\ shadow[chosen] \in TaskStates /\ shadow[chosen].status = "active"
        /\ shadow[chosen].step = Steps' /\ shadow[chosen].step < EpisodeSteps
        /\ shadow[chosen].streak < Hold
    BY <1>1, <1>5, <2>2 DEF StillActive, ChunkIsSound, ChunkTypes
  <2> DEFINE d == decisions'[Len(decisions')]
  <2>5. d.continued # None /\ d.rows[d.continued][Len(d.rows[d.continued])] = last
    BY <1>5
  <2>6. PathIsOpen'
    <3>1. ~(Collection!Over(last))' <=> ~Collection!Over(last)
      BY <1>1 DEF Collection!Over
    <3> QED BY <1>1, <1>4, <2>1, <2>3, <2>4, <2>5 DEF PathIsOpen, Collection!Over
  <2> QED BY <1>5, <2>1, <2>6 DEF CollectionKnown, Collection!AbortsOnlyForCause, Live, Chunk
<1> QED BY <1>6, <1>7

(* The validator reads the ledger, and accepts it.                         *)
LEMMA FinishKeeps ==
    ASSUME CollectionKnown, Collection!Finish PROVE CollectionKnown'
<1>1. /\ collectPc = "finish" /\ LedgerIsSound /\ decisions # <<>> /\ UNCHANGED decisions
  BY DEF Collection!Finish, CollectionKnown
<1>2. Collection!Accepted(decisions)
  BY <1>1 DEF LedgerIsSound
<1>3. collectPc' = "finished"
  BY <1>2 DEF Collection!Finish
<1>4. LedgerIsSound'
  BY <1>1 DEF LedgerIsSound, Collection!Accepted
<1> QED BY <1>3, <1>4 DEF CollectionKnown, Collection!AbortsOnlyForCause, Live, Chunk

(* A step that changes nothing of the collection keeps what is known of it. *)
LEMMA CollectionPauses ==
    ASSUME CollectionKnown, UNCHANGED collectVars PROVE CollectionKnown'
<1>1. UNCHANGED <<collectPc, decisions, root, nextRoot, task, env, shadow, active, left, rows,
                  outcome, touching, chosen, witness, odd, why>>
  BY DEF collectVars
<1>2. collectPc # "aborted" => LedgerIsSound' /\ Steps' = Steps /\ Total' = Total
  BY <1>1, PathStays DEF CollectionKnown
<1>3. collectPc \in Live => PathIsOpen'
  BY <1>1, PathStays DEF CollectionKnown, Live, Chunk
<1>4. collectPc \in Chunk => ChunkIsSound'
  <2> SUFFICES ASSUME collectPc \in Chunk PROVE ChunkIsSound'
    OBVIOUS
  <2>1. ChunkIsSound /\ Steps' = Steps /\ Total' = Total
    BY <1>2 DEF CollectionKnown, Chunk
  <2>2. ChunkTypes'
    BY <1>1, <2>1 DEF ChunkIsSound, ChunkTypes
  <2>3. \A w \in Worlds : WorldIsSound(w)'
    BY <1>1, <2>1 DEF ChunkIsSound, WorldIsSound, StillActive, IsOver, IsNoted, Collection!Over
  <2> QED BY <2>2, <2>3 DEF ChunkIsSound
<1>5. collectPc \in {"replay", "close"} => ContinuationIsSound'
  BY <1>1 DEF CollectionKnown, ContinuationIsSound
<1>6. Collection!AbortsOnlyForCause'
  BY <1>1 DEF CollectionKnown, Collection!AbortsOnlyForCause
<1> QED BY <1>1, <1>2, <1>3, <1>4, <1>5, <1>6 DEF CollectionKnown

(* At the reset nothing is on the ledger.                                  *)
LEMMA CollectionBegins ==
    ASSUME Collection!CollectionAssumption, Collection!Init PROVE CollectionKnown
<1>1. /\ collectPc = "root" /\ decisions = <<>>
      /\ root = [frame |-> Collection!Frame(FALSE, FALSE, "replay"), hold |-> 0]
      /\ task = [step |-> 0, streak |-> 0, status |-> "active"]
  BY DEF Collection!Init
<1>2. EpisodeSteps \in Nat \ {0} /\ Hold \in Nat \ {0}
  BY DEF Collection!CollectionAssumption
<1>3. LedgerIsSound
  BY <1>1 DEF LedgerIsSound
<1>4. Steps = 0
  <2>1. decisions \in Seq(Decisions) /\ PathParts(decisions) = <<>>
    BY <1>1 DEF PathParts
  <2> QED BY <2>1, PathIsJoined DEF Joined, Steps, Collection!ControlSteps
<1>5. root \in [frame : Signals, hold : 0 .. Hold - 1] /\ task \in TaskStates
  <2>1. Collection!Frame(FALSE, FALSE, "replay") \in Signals
    BY DEF Collection!Frame, Signals
  <2>2. 0 \in 0 .. Hold - 1
    BY <1>2
  <2>3. task \in TaskStates
    BY <1>1 DEF TaskStates
  <2> QED BY <1>1, <2>1, <2>2, <2>3
<1>6. PathIsOpen
  <2>1. root.hold = 0 /\ task.step = 0 /\ task.streak = 0 /\ task.status = "active"
    BY <1>1
  <2>2. task.step = Steps /\ Steps < EpisodeSteps /\ task.streak < Hold
    BY <1>2, <1>4, <2>1
  <2> QED BY <1>1, <1>5, <2>1, <2>2 DEF PathIsOpen
<1> QED BY <1>1, <1>3, <1>6 DEF CollectionKnown, Collection!AbortsOnlyForCause, Live, Chunk

(* _collect_episode stops with an error only where physics gave it a       *)
(* cause, for any number of worlds, any hold and any lengths of chunk and  *)
(* episode: what it records the task contract may evaluate, the builder    *)
(* may close and the validator accepts.                                    *)
THEOREM CollectionStopsForCause ==
    ASSUME Collection!CollectionAssumption PROVE MCSpec => []AbortsOnlyForCause
<1>1. MCInit => (part = "collection" => CollectionKnown)
  BY CollectionBegins DEF MCInit
<1>2. /\ part = "collection" => CollectionKnown
      /\ [MCNext]_<<part, vars, collectVars, transferVars, graspVars>>
      => (part = "collection" => CollectionKnown)'
  <2>1. ASSUME CollectionKnown, Collection!Next PROVE CollectionKnown'
    BY <2>1, OpenKeeps, ChunkKeeps, SelectKeeps, ReplayKeeps, CloseKeeps, FinishKeeps
       DEF Collection!Next
  <2> QED BY <2>1, CollectionPauses DEF MCNext
<1>3. (part = "collection" => CollectionKnown) => AbortsOnlyForCause
  BY DEF CollectionKnown, AbortsOnlyForCause
<1> QED BY <1>1, <1>2, <1>3, PTL DEF MCSpec

-----------------------------------------------------------------------------
(* What is read off a finished ledger.  While the episode is open the path *)
(* shows the streak of the task contract, every sample is of clean rows,   *)
(* and scoring what is on the ledger gives the state the contract is in.   *)
(* A replay may take the streak off the path: it rewrites the last         *)
(* transition, and when that is not near any more the environment starts   *)
(* to count at 0 again, while the contract goes on from where it was.      *)

(* The states a score may be in.                                           *)
Rated == [step : Nat, streak : Nat,
          status : {"active", "success", "failure", "truncated", "refused"}]

(* Nothing was touched at the end of any of these steps.                   *)
Clean(q) == \A k \in 1 .. Len(q) : ~q[k].frame.bad

(* The goal is near in the last n of them.                                 *)
NearEnd(q, n) == n <= Len(q) /\ \A k \in Len(q) - n + 1 .. Len(q) : q[k].frame.near

(* The transitions of the chosen path.                                     *)
Path == Collection!PathOf(decisions)

(* What the open path shows: the streak of the task contract is on it, or  *)
(* a replay has shown its last step as one that is not near.               *)
RootRecorded ==
    /\ ~success /\ \A i \in 1 .. Len(decisions) : decisions[i].continued # None
    /\ NearEnd(Path, task.streak) \/ (task.streak >= 1 /\ root.hold = 0)
    /\ "replay" \notin odd => Collection!Rescored(decisions) = task

(* How a candidate is rated that begins at a state of its task.            *)
RowScore(s, q) == Collection!FoldLeft(Collection!RescoreRow, s, q)

(* The same of a world within its chunk.                                   *)
OnItsWay(w) ==
    \/ NearEnd(Path \o rows[w], shadow[w].streak)
    \/ /\ task.streak >= 1 /\ root.hold = 0
       /\ shadow[w].streak = task.streak + Len(rows[w])
       /\ env[w].hold = Len(rows[w]) /\ NearEnd(rows[w], Len(rows[w]))

(* What the rows of a world show of its verdicts.                          *)
WorldRecorded(w) ==
    /\ env[w].success <=> shadow[w].status = "success"
    /\ ~outcome[w].unsafe => Clean(rows[w])
    /\ "replay" \notin odd => RowScore(task, rows[w]) = shadow[w]
    /\ env[w].success => NearEnd(Path \o rows[w], Hold)
    /\ w \in active /\ collectPc # "close" => OnItsWay(w)

(* The continuation is among the samples.                                  *)
ChoiceRecorded ==
    /\ Clean(rows[chosen])
    /\ \E s \in samples : s.decision = Len(decisions) + 1 /\ s.world = chosen
    /\ collectPc = "close" /\ chosen \in active =>
          \/ NearEnd(Path \o rows[chosen], shadow[chosen].streak)
          \/ shadow[chosen].streak >= 1 /\ nextRoot.hold = 0

(* Only clean candidates are selected, every decision is continued with    *)
(* one of them, and the first success is the end of the path.              *)
SamplesRecorded ==
    /\ \A s \in samples :
          /\ s.decision \in 1 .. Len(decisions) + 1 /\ s.world \in Worlds
          /\ s.decision <= Len(decisions) => Clean(decisions[s.decision].rows[s.world])
          /\ s.decision = Len(decisions) + 1
                 => collectPc \in {"replay", "close"} /\ Clean(rows[s.world])
          /\ s.direct => success \/ (collectPc = "close" /\ env[chosen].success)
    /\ \A i \in 1 .. Len(decisions) : decisions[i].continued # None =>
          \E s \in samples : s.decision = i /\ s.world = decisions[i].continued

(* What the path shows of an episode that is over.                         *)
EndRecorded ==
    /\ success => /\ decisions # <<>> /\ NearEnd(Path, Hold)
                  /\ \A i \in 1 .. Len(decisions) : decisions[i].continued # None
    /\ "replay" \notin odd => /\ Collection!Rescored(decisions).status # "refused"
                              /\ Collection!Rescored(decisions).status = "success" <=> success

(* All of it, where the collection is in the episode.                      *)
RecordKnown ==
    collectPc # "aborted" =>
        /\ Clean(Path) /\ SamplesRecorded /\ success \in BOOLEAN
        /\ collectPc \in Live => RootRecorded
        /\ collectPc \in Chunk => \A w \in Worlds : WorldRecorded(w)
        /\ collectPc \in {"replay", "close"} => ChoiceRecorded
        /\ collectPc \in {"finish", "finished"} => EndRecorded

(* What is computed from a ledger afterwards folds sequences.  Each fold   *)
(* is a chain of values, one for each row or decision read.                *)
RowsRated(f, s, q) ==
    /\ f \in [0 .. Len(q) -> Rated] /\ f[0] = s
    /\ \A k \in 1 .. Len(q) : f[k] = Collection!RescoreRow(f[k - 1], q[k])

(* A step of the contract gives a state of a task, and a row a rating.     *)
LEMMA TaskStepType ==
    ASSUME NEW s, s.step \in Nat, s.streak \in Nat, NEW f \in Signals
    PROVE  /\ Collection!TaskStep(s, f) \in TaskStates
           /\ Collection!TaskStep(s, f).streak = IF ~f.bad /\ f.near THEN s.streak + 1 ELSE 0
<1> DEFINE streak == IF ~f.bad /\ f.near THEN s.streak + 1 ELSE 0
           verdict == IF f.bad THEN "failure" ELSE IF streak >= Hold THEN "success"
                      ELSE IF s.step + 1 >= EpisodeSteps THEN "truncated" ELSE "active"
<1>1. Collection!TaskStep(s, f) = [step |-> s.step + 1, streak |-> streak, status |-> verdict]
  BY DEF Collection!TaskStep
<1>2. /\ s.step + 1 \in Nat /\ streak \in Nat
      /\ verdict \in {"active", "success", "failure", "truncated"}
  OBVIOUS
<1>3. streak = IF ~f.bad /\ f.near THEN s.streak + 1 ELSE 0
  OBVIOUS
<1> HIDE DEF streak, verdict
<1> QED BY <1>1, <1>2, <1>3 DEF TaskStates

(* A row that is not refused is rated as the contract judges it.           *)
LEMMA RowIsRated ==
    ASSUME NEW s \in Rated, NEW row \in Rows
    PROVE  /\ Collection!RescoreRow(s, row) \in Rated
           /\ Collection!RescoreRow(s, row).status # "refused" =>
                  Collection!RescoreRow(s, row) = Collection!TaskStep(s, row.frame)
<1>1. /\ s.step \in Nat /\ s.streak \in Nat /\ row.frame \in Signals
  BY DEF Rated, Rows
<1>2. Collection!TaskStep(s, row.frame) \in TaskStates
  BY <1>1, TaskStepType
<1>3. Collection!TaskStep(s, row.frame) \in Rated
  BY <1>2 DEF TaskStates, Rated
<1>4. [s EXCEPT !.status = "refused"] \in Rated
      /\ [s EXCEPT !.status = "refused"].status = "refused"
  BY DEF Rated
<1> DEFINE next == Collection!TaskStep(s, row.frame)
           no == \/ s.status = "refused" \/ ~Collection!MayEvaluate(s)
                 \/ row.terminated # (next.status \in {"success", "failure"})
                 \/ row.truncated # (next.status = "truncated")
<1>5. Collection!RescoreRow(s, row) = IF no THEN [s EXCEPT !.status = "refused"] ELSE next
  BY DEF Collection!RescoreRow
<1> HIDE DEF next, no
<1> QED BY <1>3, <1>4, <1>5 DEF next

(* The rating of a candidate is such a chain. *)
LEMMA RowsAreRated ==
    ASSUME NEW s \in Rated, NEW q \in Seq(Rows)
    PROVE  \E f : RowsRated(f, s, q)
               /\ f[Len(q)] = Collection!FoldLeft(Collection!RescoreRow, s, q)
<1> DEFINE step == [x \in Rated |-> [row \in Rows |-> Collection!RescoreRow(x, row)]]
           Is(g) == g = [d \in SUBSET (DOMAIN q) |->
                           IF d = {} THEN s
                               ELSE Collection!RescoreRow(g[d \ {Collection!Max(d)}],
                                        q[Collection!Max(d)])]
           h == CHOOSE g : Is(g)
<1>0. \A k \in 1 .. Len(q) : k \in 0 .. Len(q) /\ k - 1 \in 0 .. Len(q) /\ 1 .. k # {}
  <2>1. Len(q) \in Nat
    OBVIOUS
  <2> QED BY <2>1, UpToPlace
<1>1. /\ DOMAIN q = 1 .. Len(q) /\ Len(q) \in Nat /\ \A d : Collection!Max(d) = Largest(d)
  BY DEF Collection!Max, Largest
<1>2. Collection!FoldLeft(Collection!RescoreRow, s, q) = h[1 .. Len(q)]
  BY <1>1 DEF Collection!FoldLeft, Collection!MapThenFoldSet
<1>3. \A x \in Rated : \A row \in Rows :
         step[x][row] = Collection!RescoreRow(x, row) /\ step[x][row] \in Rated
  BY RowIsRated
<1> HIDE DEF step
<1>4. PICK g \in [SUBSET (1 .. Len(q)) -> Rated], a \in [0 .. Len(q) -> Rated] :
         PlaceFold(g, q, s, step) /\ ChainOf(a, g, q, s, step)
  <2>1. \A x \in Rated : \A row \in Rows : step[x][row] \in Rated
    BY <1>3
  <2> HIDE DEF Is
  <2> QED BY <2>1, PlaceFoldIsChain
<1>5. Is(g)
  <2>1. ASSUME NEW d \in SUBSET (1 .. Len(q)), d # {}
        PROVE  g[d] = Collection!RescoreRow(g[d \ {Collection!Max(d)}], q[Collection!Max(d)])
    <3>1. Largest(d) \in 1 .. Len(q) /\ d \ {Largest(d)} \in SUBSET (1 .. Len(q))
      BY <1>1, <2>1, LargestPlace
    <3>2. g[d \ {Largest(d)}] \in Rated /\ q[Largest(d)] \in Rows
      BY <3>1
    <3>3. g[d] = step[g[d \ {Largest(d)}]][q[Largest(d)]]
      BY <1>4, <2>1 DEF PlaceFold
    <3> QED BY <1>1, <1>3, <3>2, <3>3
  <2>2. g[{}] = s
    BY <1>4 DEF PlaceFold
  <2>3. g = [d \in SUBSET (DOMAIN q) |->
               IF d = {} THEN s
                   ELSE Collection!RescoreRow(g[d \ {Collection!Max(d)}], q[Collection!Max(d)])]
    BY <1>1, <2>1, <2>2
  <2> QED BY <2>3
<1>6. Is(h)
  <2> HIDE DEF Is
  <2> QED BY <1>5
<1> HIDE DEF h
<1> DEFINE b == [k \in 0 .. Len(q) |-> h[1 .. k]]
<1>8. b[0] = s /\ \A k \in 1 .. Len(q) : b[k] = Collection!RescoreRow(b[k - 1], q[k])
  <2>1. \A k \in 0 .. Len(q) : 1 .. k \in SUBSET (DOMAIN q) /\ b[k] = h[1 .. k]
    BY <1>1
  <2>2. 1 .. 0 = {} /\ 0 \in 0 .. Len(q)
    BY <1>1
  <2>3. b[0] = s
    BY <1>6, <2>1, <2>2
  <2>4. ASSUME NEW k \in 1 .. Len(q) PROVE b[k] = Collection!RescoreRow(b[k - 1], q[k])
    <3>1. k \in 0 .. Len(q) /\ k - 1 \in 0 .. Len(q) /\ 1 .. k # {}
      BY <1>0
    <3>2. Collection!Max(1 .. k) = k /\ (1 .. k) \ {k} = 1 .. k - 1
      BY <1>1, LargestPlace
    <3>3. h[1 .. k] = Collection!RescoreRow(h[(1 .. k) \ {Collection!Max(1 .. k)}],
              q[Collection!Max(1 .. k)])
      BY <1>6, <2>1, <3>1
    <3> HIDE DEF b
    <3> QED BY <2>1, <3>1, <3>2, <3>3
  <2> QED BY <2>3, <2>4
<1> HIDE DEF b
<1>9. \A k \in 1 .. Len(q) : q[k] \in Rows /\ k - 1 \in 0 .. Len(q)
  OBVIOUS
<1>10. \A k \in 1 .. Len(q) : a[k] = Collection!RescoreRow(a[k - 1], q[k])
  BY <1>3, <1>4, <1>9 DEF ChainOf
<1>11. \A k \in 0 .. Len(q) : a[k] = b[k]
  <2>1. \A k \in 1 .. Len(q) : a[k - 1] = b[k - 1] => a[k] = b[k]
    BY <1>8, <1>10
  <2>2. GoAlike(a, b, Len(q))
    BY <1>4, <1>8, <2>1 DEF GoAlike, ChainOf
  <2> HIDE DEF Is
  <2> QED BY <1>1, <2>2, SameChain
<1>12. a[Len(q)] = Collection!FoldLeft(Collection!RescoreRow, s, q)
  <2>1. b[Len(q)] = h[1 .. Len(q)] /\ Len(q) \in 0 .. Len(q)
    BY <1>1 DEF b
  <2> QED BY <1>2, <1>11, <2>1
<1>13. RowsRated(a, s, q)
  BY <1>4, <1>10 DEF RowsRated, ChainOf
<1> QED BY <1>12, <1>13

(* A row more is rated on top of the rows before. *)
LEMMA RatedAppend ==
    ASSUME NEW s \in Rated, NEW q \in Seq(Rows), NEW row \in Rows
    PROVE  /\ Collection!FoldLeft(Collection!RescoreRow, s, <<>>) = s
           /\ Collection!FoldLeft(Collection!RescoreRow, s, q) \in Rated
           /\ Collection!FoldLeft(Collection!RescoreRow, s, Append(q, row))
                = Collection!RescoreRow(Collection!FoldLeft(Collection!RescoreRow, s, q), row)
<1>1. Collection!FoldLeft(Collection!RescoreRow, s, <<>>) = s
  <2>1. <<>> \in Seq(Rows) /\ Len(<<>>) = 0
    OBVIOUS
  <2>2. PICK f : RowsRated(f, s, <<>>)
                 /\ f[Len(<<>>)] = Collection!FoldLeft(Collection!RescoreRow, s, <<>>)
    BY <2>1, RowsAreRated
  <2> QED BY <2>1, <2>2 DEF RowsRated
<1>2. PICK f : RowsRated(f, s, q) /\ f[Len(q)] = Collection!FoldLeft(Collection!RescoreRow, s, q)
  BY RowsAreRated
<1> DEFINE p == Append(q, row)
           n == Len(q)
<1>3. /\ p \in Seq(Rows) /\ Len(p) = n + 1 /\ n \in Nat /\ p[n + 1] = row
      /\ \A k \in 1 .. n : p[k] = q[k]
  OBVIOUS
<1> HIDE DEF p, n
<1>4. PICK g : RowsRated(g, s, p) /\ g[Len(p)] = Collection!FoldLeft(Collection!RescoreRow, s, p)
  BY <1>3, RowsAreRated
<1>5. GoAlike(g, f, n)
  <2>1. \A k \in 1 .. n : k \in 1 .. n + 1
    BY <1>3
  <2> QED BY <1>2, <1>3, <1>4, <2>1 DEF GoAlike, RowsRated, n
<1>6. g[n] = f[n]
  <2>1. n \in 0 .. n
    BY <1>3
  <2> QED BY <1>3, <1>5, <2>1, SameChain
<1>7. g[n + 1] = Collection!RescoreRow(g[n], row)
  <2>1. n + 1 \in 1 .. n + 1 /\ (n + 1) - 1 = n
    BY <1>3
  <2> QED BY <1>3, <1>4, <2>1 DEF RowsRated
<1>8. f[n] \in Rated
  <2>1. n \in 0 .. n
    BY <1>3
  <2> QED BY <1>2, <2>1 DEF RowsRated, n
<1> QED BY <1>1, <1>2, <1>3, <1>4, <1>6, <1>7, <1>8 DEF p, n

LedgerRated(f, s, q) ==
    /\ f \in [0 .. Len(q) -> Rated] /\ f[0] = s
    /\ \A k \in 1 .. Len(q) : f[k] = Collection!RescoreDecision(f[k - 1], q[k])

(* A decision is rated where its path goes on, and refused with any of its candidates. *)
LEMMA DecisionIsRated ==
    ASSUME NEW s \in Rated, NEW d \in Decisions
    PROVE  Collection!RescoreDecision(s, d) \in Rated
<1> DEFINE ends == [w \in Worlds |-> Collection!FoldLeft(Collection!RescoreRow, s, d.rows[w])]
           no == s.status = "refused" \/ \E w \in Worlds : ends[w].status = "refused"
<1>1. d.rows \in [Worlds -> Seq(Rows)] /\ d.continued \in Worlds \cup {None}
  BY DEF Decisions
<1>2. PICK row \in Rows : TRUE
  <2>1. [near |-> TRUE, bad |-> TRUE, by |-> "branch"] \in Signals
    BY DEF Signals
  <2>2. [frame |-> [near |-> TRUE, bad |-> TRUE, by |-> "branch"],
         terminated |-> TRUE, truncated |-> TRUE] \in Rows
    BY <2>1 DEF Rows
  <2> QED BY <2>2
<1>3. \A w \in Worlds : ends[w] \in Rated
  <2> TAKE w \in Worlds
  <2>1. d.rows[w] \in Seq(Rows)
    BY <1>1
  <2>2. Collection!FoldLeft(Collection!RescoreRow, s, d.rows[w]) \in Rated
    BY <1>2, <2>1, RatedAppend
  <2> QED BY <2>2
<1>4. [s EXCEPT !.status = "refused"] \in Rated
  BY DEF Rated
<1>5. Collection!RescoreDecision(s, d) = IF no THEN [s EXCEPT !.status = "refused"]
                              ELSE IF d.continued = None THEN s ELSE ends[d.continued]
  BY DEF Collection!RescoreDecision
<1> HIDE DEF ends, no
<1> QED BY <1>1, <1>3, <1>4, <1>5

(* The rating of a ledger is such a chain. *)
LEMMA LedgerIsRated ==
    ASSUME NEW s \in Rated, NEW q \in Seq(Decisions)
    PROVE  \E f : LedgerRated(f, s, q)
               /\ f[Len(q)] = Collection!FoldLeft(Collection!RescoreDecision, s, q)
<1> DEFINE step == [x \in Rated |-> [d0 \in Decisions |-> Collection!RescoreDecision(x, d0)]]
           Is(g) == g = [d \in SUBSET (DOMAIN q) |->
                           IF d = {} THEN s
                               ELSE Collection!RescoreDecision(g[d \ {Collection!Max(d)}],
                                        q[Collection!Max(d)])]
           h == CHOOSE g : Is(g)
<1>0. \A k \in 1 .. Len(q) : k \in 0 .. Len(q) /\ k - 1 \in 0 .. Len(q) /\ 1 .. k # {}
  <2>1. Len(q) \in Nat
    OBVIOUS
  <2> QED BY <2>1, UpToPlace
<1>1. /\ DOMAIN q = 1 .. Len(q) /\ Len(q) \in Nat /\ \A d : Collection!Max(d) = Largest(d)
  BY DEF Collection!Max, Largest
<1>2. Collection!FoldLeft(Collection!RescoreDecision, s, q) = h[1 .. Len(q)]
  BY <1>1 DEF Collection!FoldLeft, Collection!MapThenFoldSet
<1>3. \A x \in Rated : \A d0 \in Decisions :
         step[x][d0] = Collection!RescoreDecision(x, d0) /\ step[x][d0] \in Rated
  BY DecisionIsRated
<1> HIDE DEF step
<1>4. PICK g \in [SUBSET (1 .. Len(q)) -> Rated], a \in [0 .. Len(q) -> Rated] :
         PlaceFold(g, q, s, step) /\ ChainOf(a, g, q, s, step)
  <2>1. \A x \in Rated : \A d0 \in Decisions : step[x][d0] \in Rated
    BY <1>3
  <2> HIDE DEF Is
  <2> QED BY <2>1, PlaceFoldIsChain
<1>5. Is(g)
  <2>1. ASSUME NEW d \in SUBSET (1 .. Len(q)), d # {}
        PROVE  g[d] = Collection!RescoreDecision(g[d \ {Collection!Max(d)}], q[Collection!Max(d)])
    <3>1. Largest(d) \in 1 .. Len(q) /\ d \ {Largest(d)} \in SUBSET (1 .. Len(q))
      BY <1>1, <2>1, LargestPlace
    <3>2. g[d \ {Largest(d)}] \in Rated /\ q[Largest(d)] \in Decisions
      BY <3>1
    <3>3. g[d] = step[g[d \ {Largest(d)}]][q[Largest(d)]]
      BY <1>4, <2>1 DEF PlaceFold
    <3> QED BY <1>1, <1>3, <3>2, <3>3
  <2>2. g[{}] = s
    BY <1>4 DEF PlaceFold
  <2>3. g = [d \in SUBSET (DOMAIN q) |->
               IF d = {} THEN s
                   ELSE Collection!RescoreDecision(g[d \ {Collection!Max(d)}],
                            q[Collection!Max(d)])]
    BY <1>1, <2>1, <2>2
  <2> QED BY <2>3
<1>6. Is(h)
  <2> HIDE DEF Is
  <2> QED BY <1>5
<1> HIDE DEF h
<1> DEFINE b == [k \in 0 .. Len(q) |-> h[1 .. k]]
<1>8. b[0] = s /\ \A k \in 1 .. Len(q) : b[k] = Collection!RescoreDecision(b[k - 1], q[k])
  <2>1. \A k \in 0 .. Len(q) : 1 .. k \in SUBSET (DOMAIN q) /\ b[k] = h[1 .. k]
    BY <1>1
  <2>2. 1 .. 0 = {} /\ 0 \in 0 .. Len(q)
    BY <1>1
  <2>3. b[0] = s
    BY <1>6, <2>1, <2>2
  <2>4. ASSUME NEW k \in 1 .. Len(q) PROVE b[k] = Collection!RescoreDecision(b[k - 1], q[k])
    <3>1. k \in 0 .. Len(q) /\ k - 1 \in 0 .. Len(q) /\ 1 .. k # {}
      BY <1>0
    <3>2. Collection!Max(1 .. k) = k /\ (1 .. k) \ {k} = 1 .. k - 1
      BY <1>1, LargestPlace
    <3>3. h[1 .. k] = Collection!RescoreDecision(h[(1 .. k) \ {Collection!Max(1 .. k)}],
              q[Collection!Max(1 .. k)])
      BY <1>6, <2>1, <3>1
    <3> HIDE DEF b
    <3> QED BY <2>1, <3>1, <3>2, <3>3
  <2> QED BY <2>3, <2>4
<1> HIDE DEF b
<1>9. \A k \in 1 .. Len(q) : q[k] \in Decisions /\ k - 1 \in 0 .. Len(q)
  OBVIOUS
<1>10. \A k \in 1 .. Len(q) : a[k] = Collection!RescoreDecision(a[k - 1], q[k])
  BY <1>3, <1>4, <1>9 DEF ChainOf
<1>11. \A k \in 0 .. Len(q) : a[k] = b[k]
  <2>1. \A k \in 1 .. Len(q) : a[k - 1] = b[k - 1] => a[k] = b[k]
    BY <1>8, <1>10
  <2>2. GoAlike(a, b, Len(q))
    BY <1>4, <1>8, <2>1 DEF GoAlike, ChainOf
  <2> HIDE DEF Is
  <2> QED BY <1>1, <2>2, SameChain
<1>12. a[Len(q)] = Collection!FoldLeft(Collection!RescoreDecision, s, q)
  <2>1. b[Len(q)] = h[1 .. Len(q)] /\ Len(q) \in 0 .. Len(q)
    BY <1>1 DEF b
  <2> QED BY <1>2, <1>11, <2>1
<1>13. LedgerRated(a, s, q)
  BY <1>4, <1>10 DEF LedgerRated, ChainOf
<1> QED BY <1>12, <1>13

(* A decision more is rated on top of the decisions before. *)
LEMMA LedgerAppend ==
    ASSUME NEW s \in Rated, NEW q \in Seq(Decisions), NEW d0 \in Decisions
    PROVE  /\ Collection!FoldLeft(Collection!RescoreDecision, s, <<>>) = s
           /\ Collection!FoldLeft(Collection!RescoreDecision, s, q) \in Rated
           /\ Collection!FoldLeft(Collection!RescoreDecision, s, Append(q, d0))
                = Collection!RescoreDecision(Collection!FoldLeft(Collection!RescoreDecision, s,
                    q), d0)
<1>1. Collection!FoldLeft(Collection!RescoreDecision, s, <<>>) = s
  <2>1. <<>> \in Seq(Decisions) /\ Len(<<>>) = 0
    OBVIOUS
  <2>2. PICK f : LedgerRated(f, s, <<>>)
                 /\ f[Len(<<>>)] = Collection!FoldLeft(Collection!RescoreDecision, s, <<>>)
    BY <2>1, LedgerIsRated
  <2> QED BY <2>1, <2>2 DEF LedgerRated
<1>2. PICK f : LedgerRated(f, s, q)
               /\ f[Len(q)] = Collection!FoldLeft(Collection!RescoreDecision, s, q)
  BY LedgerIsRated
<1> DEFINE p == Append(q, d0)
           n == Len(q)
<1>3. /\ p \in Seq(Decisions) /\ Len(p) = n + 1 /\ n \in Nat /\ p[n + 1] = d0
      /\ \A k \in 1 .. n : p[k] = q[k]
  OBVIOUS
<1> HIDE DEF p, n
<1>4. PICK g : LedgerRated(g, s, p)
               /\ g[Len(p)] = Collection!FoldLeft(Collection!RescoreDecision, s, p)
  BY <1>3, LedgerIsRated
<1>5. GoAlike(g, f, n)
  <2>1. \A k \in 1 .. n : k \in 1 .. n + 1
    BY <1>3
  <2> QED BY <1>2, <1>3, <1>4, <2>1 DEF GoAlike, LedgerRated, n
<1>6. g[n] = f[n]
  <2>1. n \in 0 .. n
    BY <1>3
  <2> QED BY <1>3, <1>5, <2>1, SameChain
<1>7. g[n + 1] = Collection!RescoreDecision(g[n], d0)
  <2>1. n + 1 \in 1 .. n + 1 /\ (n + 1) - 1 = n
    BY <1>3
  <2> QED BY <1>3, <1>4, <2>1 DEF LedgerRated
<1>8. f[n] \in Rated
  <2>1. n \in 0 .. n
    BY <1>3
  <2> QED BY <1>2, <2>1 DEF LedgerRated, n
<1> QED BY <1>1, <1>2, <1>3, <1>4, <1>6, <1>7, <1>8 DEF p, n

RowsCut(f, q) ==
    /\ f \in [0 .. Len(q) -> Seq(Seq(Rows))] /\ f[0] = <<>>
    /\ \A k \in 1 .. Len(q) : f[k] = Collection!Cut(f[k - 1], q[k])

(* A row is put at the end of the last segment, or begins one.             *)
LEMMA CutType ==
    ASSUME NEW parts \in Seq(Seq(Rows)), NEW row \in Rows
    PROVE  Collection!Cut(parts, row) \in Seq(Seq(Rows))
<1> DEFINE more == [parts EXCEPT ![Len(parts)] = Append(@, row)]
<1>1. <<row>> \in Seq(Rows) /\ Append(parts, <<row>>) \in Seq(Seq(Rows))
  OBVIOUS
<1>2. parts # <<>> => more \in Seq(Seq(Rows))
  <2> SUFFICES ASSUME parts # <<>> PROVE more \in Seq(Seq(Rows))
    OBVIOUS
  <2>1. Len(parts) \in 1 .. Len(parts) /\ parts[Len(parts)] \in Seq(Rows)
    OBVIOUS
  <2>2. Append(parts[Len(parts)], row) \in Seq(Rows)
    BY <2>1
  <2> QED BY <2>1, <2>2
<1> DEFINE new == \/ parts = <<>>
               \/ Collection!Stage(Collection!Last(Collection!Last(parts)))
                      # Collection!Stage(row)
                  \/ Len(Collection!Last(parts)) >= SegmentSteps
<1>3. Collection!Cut(parts, row) = IF new THEN Append(parts, <<row>>) ELSE more
  BY DEF Collection!Cut
<1>4. parts = <<>> => new
  OBVIOUS
<1> HIDE DEF more, new
<1> QED BY <1>1, <1>2, <1>3, <1>4

(* The cutting of a candidate is such a chain. *)
LEMMA RowsAreCut ==
    ASSUME NEW q \in Seq(Rows)
    PROVE  \E f : RowsCut(f, q) /\ f[Len(q)] = Collection!FoldLeft(Collection!Cut, <<>>, q)
<1> DEFINE step == [x \in Seq(Seq(Rows)) |-> [row \in Rows |-> Collection!Cut(x, row)]]
           Is(g) == g = [d \in SUBSET (DOMAIN q) |->
                           IF d = {} THEN <<>>
                               ELSE Collection!Cut(g[d \ {Collection!Max(d)}],
                                        q[Collection!Max(d)])]
           h == CHOOSE g : Is(g)
<1>0. \A k \in 1 .. Len(q) : k \in 0 .. Len(q) /\ k - 1 \in 0 .. Len(q) /\ 1 .. k # {}
  <2>1. Len(q) \in Nat
    OBVIOUS
  <2> QED BY <2>1, UpToPlace
<1>1. /\ DOMAIN q = 1 .. Len(q) /\ Len(q) \in Nat /\ \A d : Collection!Max(d) = Largest(d)
  BY DEF Collection!Max, Largest
<1>2. Collection!FoldLeft(Collection!Cut, <<>>, q) = h[1 .. Len(q)]
  BY <1>1 DEF Collection!FoldLeft, Collection!MapThenFoldSet
<1>3. \A x \in Seq(Seq(Rows)) : \A row \in Rows :
         step[x][row] = Collection!Cut(x, row) /\ step[x][row] \in Seq(Seq(Rows))
  BY CutType
<1> HIDE DEF step
<1>4. PICK g \in [SUBSET (1 .. Len(q)) -> Seq(Seq(Rows))], a \in [0 .. Len(q) -> Seq(Seq(Rows))] :
         PlaceFold(g, q, <<>>, step) /\ ChainOf(a, g, q, <<>>, step)
  <2>1. \A x \in Seq(Seq(Rows)) : \A row \in Rows : step[x][row] \in Seq(Seq(Rows))
    BY <1>3
  <2>2. <<>> \in Seq(Seq(Rows))
    OBVIOUS
  <2> HIDE DEF Is
  <2> QED BY <2>1, <2>2, PlaceFoldIsChain
<1>5. Is(g)
  <2>1. ASSUME NEW d \in SUBSET (1 .. Len(q)), d # {}
        PROVE  g[d] = Collection!Cut(g[d \ {Collection!Max(d)}], q[Collection!Max(d)])
    <3>1. Largest(d) \in 1 .. Len(q) /\ d \ {Largest(d)} \in SUBSET (1 .. Len(q))
      BY <1>1, <2>1, LargestPlace
    <3>2. g[d \ {Largest(d)}] \in Seq(Seq(Rows)) /\ q[Largest(d)] \in Rows
      BY <3>1
    <3>3. g[d] = step[g[d \ {Largest(d)}]][q[Largest(d)]]
      BY <1>4, <2>1 DEF PlaceFold
    <3> QED BY <1>1, <1>3, <3>2, <3>3
  <2>2. g[{}] = <<>>
    BY <1>4 DEF PlaceFold
  <2>3. g = [d \in SUBSET (DOMAIN q) |->
               IF d = {} THEN <<>>
                   ELSE Collection!Cut(g[d \ {Collection!Max(d)}], q[Collection!Max(d)])]
    BY <1>1, <2>1, <2>2
  <2> QED BY <2>3
<1>6. Is(h)
  <2> HIDE DEF Is
  <2> QED BY <1>5
<1> HIDE DEF h
<1> DEFINE b == [k \in 0 .. Len(q) |-> h[1 .. k]]
<1>8. b[0] = <<>> /\ \A k \in 1 .. Len(q) : b[k] = Collection!Cut(b[k - 1], q[k])
  <2>1. \A k \in 0 .. Len(q) : 1 .. k \in SUBSET (DOMAIN q) /\ b[k] = h[1 .. k]
    BY <1>1
  <2>2. 1 .. 0 = {} /\ 0 \in 0 .. Len(q)
    BY <1>1
  <2>3. b[0] = <<>>
    BY <1>6, <2>1, <2>2
  <2>4. ASSUME NEW k \in 1 .. Len(q) PROVE b[k] = Collection!Cut(b[k - 1], q[k])
    <3>1. k \in 0 .. Len(q) /\ k - 1 \in 0 .. Len(q) /\ 1 .. k # {}
      BY <1>0
    <3>2. Collection!Max(1 .. k) = k /\ (1 .. k) \ {k} = 1 .. k - 1
      BY <1>1, LargestPlace
    <3>3. h[1 .. k] = Collection!Cut(h[(1 .. k) \ {Collection!Max(1 .. k)}],
              q[Collection!Max(1 .. k)])
      BY <1>6, <2>1, <3>1
    <3> HIDE DEF b
    <3> QED BY <2>1, <3>1, <3>2, <3>3
  <2> QED BY <2>3, <2>4
<1> HIDE DEF b
<1>9. \A k \in 1 .. Len(q) : q[k] \in Rows /\ k - 1 \in 0 .. Len(q)
  OBVIOUS
<1>10. \A k \in 1 .. Len(q) : a[k] = Collection!Cut(a[k - 1], q[k])
  BY <1>3, <1>4, <1>9 DEF ChainOf
<1>11. \A k \in 0 .. Len(q) : a[k] = b[k]
  <2>1. \A k \in 1 .. Len(q) : a[k - 1] = b[k - 1] => a[k] = b[k]
    BY <1>8, <1>10
  <2>2. GoAlike(a, b, Len(q))
    BY <1>4, <1>8, <2>1 DEF GoAlike, ChainOf
  <2> HIDE DEF Is
  <2> QED BY <1>1, <2>2, SameChain
<1>12. a[Len(q)] = Collection!FoldLeft(Collection!Cut, <<>>, q)
  <2>1. b[Len(q)] = h[1 .. Len(q)] /\ Len(q) \in 0 .. Len(q)
    BY <1>1 DEF b
  <2> QED BY <1>2, <1>11, <2>1
<1>13. RowsCut(a, q)
  BY <1>4, <1>10 DEF RowsCut, ChainOf
<1> QED BY <1>12, <1>13

(* Runs of one stage, none too long, and cut only where they must be.      *)
IsRun(piece) == /\ Len(piece) \in 1 .. SegmentSteps
               /\ \A k \in 1 .. Len(piece) :
                      Collection!Stage(piece[k]) = Collection!Stage(piece[1])

CutHere(before, piece) ==
    \/ Collection!Stage(piece[1]) # Collection!Stage(before[1])
    \/ Len(before) = SegmentSteps

Runs(parts) == /\ \A j \in 1 .. Len(parts) : IsRun(parts[j])
               /\ \A j \in 2 .. Len(parts) : CutHere(parts[j - 1], parts[j])

(* What comes last, of a sequence that has a last.                         *)
LEMMA FrontAndLast ==
    ASSUME NEW T, NEW ss \in Seq(T), ss # <<>>
    PROVE  \E front \in Seq(T) : ss = Append(front, ss[Len(ss)])
<1>1. PICK n \in Nat : Len(ss) = n + 1
  <2>1. Len(ss) \in Nat /\ Len(ss) # 0
    OBVIOUS
  <2>2. Len(ss) - 1 \in Nat /\ Len(ss) = (Len(ss) - 1) + 1
    BY <2>1
  <2> QED BY <2>2
<1> DEFINE front == [i \in 1 .. n |-> ss[i]]
<1>2. /\ front \in Seq(T) /\ Len(front) = n
      /\ \A i \in 1 .. n : front[i] = ss[i]
      /\ ss[n + 1] \in T
  <2>1. \A i \in 1 .. n + 1 : ss[i] \in T
    BY <1>1
  <2>2. n + 1 \in 1 .. n + 1 /\ \A i \in 1 .. n : i \in 1 .. n + 1
    OBVIOUS
  <2> QED BY <1>1, <2>1, <2>2
<1> HIDE DEF front
<1>3. ss = Append(front, ss[n + 1])
  BY <1>1, <1>2
<1> QED BY <1>1, <1>2, <1>3

(* The last is replaced. *)
LEMMA LastReplaced ==
    ASSUME NEW T, NEW front \in Seq(T), NEW a \in T, NEW x \in T
    PROVE  [Append(front, a) EXCEPT ![Len(Append(front, a))] = x] = Append(front, x)
<1> DEFINE ss == Append(front, a)
           new == [ss EXCEPT ![Len(ss)] = x]
           n == Len(front)
<1>1. /\ n \in Nat /\ ss \in Seq(T) /\ Len(ss) = n + 1
      /\ \A i \in 1 .. n : ss[i] = front[i]
  OBVIOUS
<1> HIDE DEF ss
<1>2. /\ new \in Seq(T) /\ Len(new) = n + 1 /\ new[n + 1] = x
      /\ \A i \in 1 .. n : new[i] = ss[i]
  BY <1>1
<1> HIDE DEF new
<1>3. new = Append(front, x)
  BY <1>1, <1>2
<1> QED BY <1>3 DEF new, ss

(* Joined, a segmentation is the sequence of rows it was cut from.         *)
LEMMA CutKeeps ==
    ASSUME SegmentSteps \in Nat \ {0},
           NEW parts \in Seq(Seq(Rows)), NEW row \in Rows, Runs(parts)
    PROVE  /\ Runs(Collection!Cut(parts, row))
           /\ Joined(Collection!Cut(parts, row)) = Joined(parts) \o <<row>>
<1> DEFINE new == \/ parts = <<>>
               \/ Collection!Stage(Collection!Last(Collection!Last(parts)))
                      # Collection!Stage(row)
                  \/ Len(Collection!Last(parts)) >= SegmentSteps
<1>1. CASE new
  <2> DEFINE q == Append(parts, <<row>>)
             n == Len(parts)
  <2>1. Collection!Cut(parts, row) = q
    BY <1>1 DEF Collection!Cut
  <2>2. /\ n \in Nat /\ Len(q) = n + 1 /\ q[n + 1] = <<row>>
        /\ \A j \in 1 .. n : q[j] = parts[j]
    OBVIOUS
  <2> HIDE DEF q
  <2>3. IsRun(<<row>>)
    BY DEF IsRun
  <2>4. ASSUME n # 0 PROVE CutHere(parts[n], <<row>>)
    <3>1. parts # <<>> /\ n \in 1 .. n /\ parts[n] \in Seq(Rows)
      BY <2>2, <2>4
    <3>2. Collection!Stage(parts[n][Len(parts[n])]) # Collection!Stage(row)
              \/ Len(parts[n]) >= SegmentSteps
      BY <1>1, <3>1 DEF Collection!Last
    <3>3. IsRun(parts[n])
      BY <3>1 DEF Runs
    <3>4. Collection!Stage(parts[n][Len(parts[n])]) = Collection!Stage(parts[n][1])
          /\ Len(parts[n]) \in 1 .. SegmentSteps
      BY <3>3 DEF IsRun
    <3>5. <<row>>[1] = row
      OBVIOUS
    <3> QED BY <3>2, <3>4, <3>5 DEF CutHere
  <2>5. Runs(q)
    <3>1. \A j \in 1 .. n + 1 : j \in 1 .. n \/ j = n + 1
      BY <2>2
    <3>2. \A j \in 1 .. Len(q) : IsRun(q[j])
      BY <2>2, <2>3, <3>1 DEF Runs
    <3>3. ASSUME NEW j \in 2 .. Len(q) PROVE CutHere(q[j - 1], q[j])
      <4>1. CASE j \in 2 .. n
        <5>1. j - 1 \in 1 .. n /\ j \in 1 .. n
          BY <2>2, <4>1
        <5> QED BY <2>2, <4>1, <5>1 DEF Runs
      <4>2. CASE j = n + 1
        <5>1. j - 1 = n /\ n # 0 /\ n \in 1 .. n
          BY <2>2, <4>2
        <5> QED BY <2>2, <2>4, <4>2, <5>1
      <4>3. j \in 2 .. n \/ j = n + 1
        BY <2>2
      <4> QED BY <4>1, <4>2, <4>3
    <3> QED BY <3>2, <3>3 DEF Runs
  <2>6. Joined(q) = Joined(parts) \o <<row>>
    <3>1. <<row>> \in Seq(Rows)
      OBVIOUS
    <3> QED BY <3>1, JoinedAppend DEF q
  <2> QED BY <2>1, <2>5, <2>6
<1>2. CASE ~new
  <2> DEFINE n == Len(parts)
             piece == parts[n]
             more == Append(piece, row)
             q == [parts EXCEPT ![n] = more]
  <2>1. parts # <<>> /\ Collection!Stage(piece[Len(piece)]) = Collection!Stage(row)
            /\ ~(Len(piece) >= SegmentSteps)
    BY <1>2 DEF Collection!Last
  <2>2. Collection!Cut(parts, row) = q
    <3>1. Collection!Cut(parts, row) = [parts EXCEPT ![Len(parts)] = Append(@, row)]
      BY <1>2 DEF Collection!Cut
    <3> QED BY <3>1
  <2>3. n \in Nat /\ n \in 1 .. n /\ piece \in Seq(Rows) /\ IsRun(piece)
    BY <2>1 DEF Runs
  <2>4. /\ more \in Seq(Rows) /\ Len(more) = Len(piece) + 1 /\ more[Len(piece) + 1] = row
        /\ \A k \in 1 .. Len(piece) : more[k] = piece[k]
    <3> HIDE DEF piece
    <3> QED BY <2>3
  <2>5. /\ q \in Seq(Seq(Rows)) /\ Len(q) = n /\ q[n] = more
        /\ \A j \in 1 .. n : j # n => q[j] = parts[j]
    <3> HIDE DEF more
    <3> QED BY <2>3, <2>4
  <2>6. PICK front \in Seq(Seq(Rows)) :
            parts = Append(front, piece) /\ q = Append(front, more)
    <3>1. more \in Seq(Rows) /\ parts \in Seq(Seq(Rows)) /\ parts # <<>>
      BY <2>1, <2>4
    <3>2. PICK front \in Seq(Seq(Rows)) : parts = Append(front, piece)
      <4> HIDE DEF more, q, new
      <4> QED BY <3>1, FrontAndLast
    <3>3. q = Append(front, more)
      <4>1. q = [Append(front, piece) EXCEPT ![Len(Append(front, piece))] = more]
        BY <3>2
      <4> HIDE DEF more, q, new, piece
      <4> QED BY <2>3, <3>1, <4>1, LastReplaced
    <3> QED BY <3>2, <3>3
  <2> HIDE DEF q, more, piece
  <2>7. Len(piece) \in 1 .. SegmentSteps /\ Len(piece) \in Nat /\ Len(piece) # 0
    BY <2>3 DEF IsRun
  <2>8. IsRun(more) /\ Collection!Stage(more[1]) = Collection!Stage(piece[1])
    <3>1. Len(more) \in 1 .. SegmentSteps
      BY <2>1, <2>4, <2>7
    <3>2. more[1] = piece[1] /\ Collection!Stage(piece[Len(piece)]) = Collection!Stage(piece[1])
      BY <2>3, <2>4, <2>7 DEF IsRun
    <3>3. \A k \in 1 .. Len(more) : Collection!Stage(more[k]) = Collection!Stage(piece[1])
      <4> TAKE k \in 1 .. Len(more)
      <4>1. k \in 1 .. Len(piece) \/ k = Len(piece) + 1
        BY <2>4, <2>7
      <4>2. CASE k \in 1 .. Len(piece)
        BY <2>3, <2>4, <4>2 DEF IsRun
      <4>3. CASE k = Len(piece) + 1
        BY <2>1, <2>4, <3>2, <4>3
      <4> QED BY <4>1, <4>2, <4>3
    <3> QED BY <3>1, <3>2, <3>3 DEF IsRun
  <2>9. Runs(q)
    <3>1. ASSUME NEW j \in 1 .. n PROVE IsRun(q[j])
      BY <2>5, <2>8, <3>1 DEF Runs
    <3>2. ASSUME NEW j \in 2 .. n PROVE CutHere(q[j - 1], q[j])
      <4>1. CutHere(parts[j - 1], parts[j])
        BY <3>2 DEF Runs
      <4>2. j - 1 \in 1 .. n /\ j - 1 # n /\ j \in 1 .. n
        BY <2>3
      <4>3. q[j - 1] = parts[j - 1]
        BY <2>5, <4>2
      <4>4. CASE j = n
        BY <2>5, <2>8, <4>1, <4>3, <4>4 DEF CutHere, piece
      <4>5. CASE j # n
        BY <2>5, <4>1, <4>2, <4>3, <4>5
      <4> QED BY <4>4, <4>5
    <3> QED BY <2>5, <3>1, <3>2 DEF Runs
  <2>10. Joined(q) = Joined(parts) \o <<row>>
    <3>1. Joined(parts) = Joined(front) \o piece /\ Joined(q) = Joined(front) \o more
      BY <2>3, <2>4, <2>6, JoinedAppend
    <3>2. Joined(front) \in Seq(Rows)
      BY JoinedType
    <3>3. Joined(front) \o Append(piece, row) = (Joined(front) \o piece) \o <<row>>
      <4> DEFINE u == Joined(front)
      <4> HIDE DEF u
      <4> SUFFICES ASSUME u \in Seq(Rows) PROVE u \o Append(piece, row) = (u \o piece) \o <<row>>
        BY <3>2 DEF u
      <4> QED BY <2>3
    <3> QED BY <3>1, <3>3 DEF more
  <2> QED BY <2>2, <2>9, <2>10
<1> QED BY <1>1, <1>2

(* However a candidate ran, its segments are runs that join to it.         *)
LEMMA SegmentsFacts ==
    ASSUME SegmentSteps \in Nat \ {0}, NEW q \in Seq(Rows)
    PROVE  /\ Collection!Segments(q) \in Seq(Seq(Rows))
           /\ Runs(Collection!Segments(q)) /\ Collection!FlattenSeq(Collection!Segments(q)) = q
<1>1. PICK f : RowsCut(f, q) /\ f[Len(q)] = Collection!FoldLeft(Collection!Cut, <<>>, q)
  BY RowsAreCut
<1>2. /\ Len(q) \in Nat /\ f \in [0 .. Len(q) -> Seq(Seq(Rows))] /\ f[0] = <<>>
      /\ \A k \in 1 .. Len(q) : f[k] = Collection!Cut(f[k - 1], q[k])
  BY <1>1 DEF RowsCut
<1> DEFINE Fine(k) == Runs(f[k]) /\ Joined(f[k]) = SubSeq(q, 1, k)
           Bad == {k \in 0 .. Len(q) : ~Fine(k)}
<1>3. Fine(0)
  <2>1. Runs(<<>>) /\ Joined(<<>>) = <<>> /\ SubSeq(q, 1, 0) = <<>>
    BY DEF Runs, Joined
  <2> QED BY <1>2, <2>1
<1>4. Bad = {}
  <2> SUFFICES ASSUME Bad # {} PROVE FALSE
    OBVIOUS
  <2>1. PICK m \in Bad : \A k \in Bad : m <= k
    <3>1. Bad \subseteq Nat
      OBVIOUS
    <3> HIDE DEF Bad
    <3> QED BY <3>1, LeastNatural
  <2>2. m \in 0 .. Len(q) /\ ~Fine(m)
    OBVIOUS
  <2>3. m # 0
    <3> HIDE DEF Fine
    <3> QED BY <1>3, <2>2
  <2>4. m \in 1 .. Len(q) /\ m - 1 \in 0 .. Len(q) /\ ~ (m <= m - 1)
    BY <2>2, <2>3
  <2>5. Fine(m - 1)
    <3>1. m - 1 \notin Bad
      <4> HIDE DEF Bad
      <4> QED BY <2>1, <2>4
    <3> HIDE DEF Fine
    <3> QED BY <2>4, <3>1
  <2>6. f[m - 1] \in Seq(Seq(Rows)) /\ q[m] \in Rows /\ f[m] = Collection!Cut(f[m - 1], q[m])
    <3>1. q[m] \in Rows
      BY <2>4
    <3> HIDE DEF Fine, Bad
    <3>2. f[m - 1] \in Seq(Seq(Rows))
      BY <1>2, <2>4
    <3> QED BY <1>2, <2>4, <3>1, <3>2
  <2>7. Runs(f[m]) /\ Joined(f[m]) = SubSeq(q, 1, m - 1) \o <<q[m]>>
    BY <2>5, <2>6, CutKeeps
  <2>8. SubSeq(q, 1, m - 1) \o <<q[m]>> = SubSeq(q, 1, m)
    BY <2>4
  <2> QED BY <2>2, <2>7, <2>8
<1>5. Fine(Len(q))
  <2>1. Len(q) \in 0 .. Len(q)
    BY <1>2
  <2> HIDE DEF Fine
  <2> QED BY <1>4, <2>1
<1>6. SubSeq(q, 1, Len(q)) = q
  OBVIOUS
<1>7. Collection!Segments(q) = f[Len(q)] /\ Len(q) \in 0 .. Len(q)
  BY <1>1, <1>2 DEF Collection!Segments
<1>8. \A ss : Collection!FlattenSeq(ss) = Joined(ss)
  BY DEF Collection!FlattenSeq, Joined, JoinOf
<1> QED BY <1>2, <1>5, <1>6, <1>7, <1>8

(* The last steps of a sequence of rows, near the goal and clean.          *)
LEMMA NearLess ==
    ASSUME NEW q \in Seq(Rows), NEW n \in Nat, NearEnd(q, n), NEW m \in Nat, m <= n
    PROVE  NearEnd(q, m)
BY DEF NearEnd

(* Near for one step more.                                                 *)
LEMMA NearMore ==
    ASSUME NEW q \in Seq(Rows), NEW n \in Nat, NearEnd(q, n), NEW row \in Rows, row.frame.near
    PROVE  NearEnd(Append(q, row), n + 1)
<1> DEFINE p == Append(q, row)
<1>1. /\ Len(q) \in Nat /\ Len(p) = Len(q) + 1 /\ p[Len(q) + 1] = row
      /\ \A k \in 1 .. Len(q) : p[k] = q[k]
  OBVIOUS
<1> HIDE DEF p
<1>2. n <= Len(q) /\ \A k \in Len(q) - n + 1 .. Len(q) : q[k].frame.near
  BY DEF NearEnd
<1>3. ASSUME NEW k \in Len(p) - (n + 1) + 1 .. Len(p) PROVE p[k].frame.near
  <2>1. k = Len(q) + 1 \/ (k \in Len(q) - n + 1 .. Len(q) /\ k \in 1 .. Len(q))
    BY <1>1, <1>2
  <2> QED BY <1>1, <1>2, <2>1
<1>4. n + 1 <= Len(p)
  BY <1>1, <1>2
<1> QED BY <1>3, <1>4 DEF NearEnd, p

(* The end of what is joined on is the end of the whole.                   *)
LEMMA NearTail ==
    ASSUME NEW p \in Seq(Rows), NEW q \in Seq(Rows), NEW n \in Nat, NearEnd(q, n)
    PROVE  NearEnd(p \o q, n)
<1> DEFINE r == p \o q
<1>1. /\ Len(p) \in Nat /\ Len(q) \in Nat /\ Len(r) = Len(p) + Len(q)
      /\ \A k \in 1 .. Len(q) : r[Len(p) + k] = q[k]
  OBVIOUS
<1> HIDE DEF r
<1>2. n <= Len(q) /\ \A k \in Len(q) - n + 1 .. Len(q) : q[k].frame.near
  BY DEF NearEnd
<1>3. ASSUME NEW k \in Len(r) - n + 1 .. Len(r) PROVE r[k].frame.near
  <2> DEFINE i == k - Len(p)
  <2>1. i \in Len(q) - n + 1 .. Len(q) /\ i \in 1 .. Len(q) /\ k = Len(p) + i
    BY <1>1, <1>2
  <2> HIDE DEF i
  <2> QED BY <1>1, <1>2, <2>1
<1>4. n <= Len(r)
  BY <1>1, <1>2
<1> QED BY <1>3, <1>4 DEF NearEnd, r

(* Of no steps there is nothing to show.                                   *)
LEMMA NearNone == ASSUME NEW q \in Seq(Rows) PROVE NearEnd(q, 0)
BY DEF NearEnd

(* Clean rows stay clean with one more, and joined.                        *)
LEMMA CleanMore ==
    ASSUME NEW q \in Seq(Rows), Clean(q), NEW row \in Rows, ~row.frame.bad
    PROVE  Clean(Append(q, row))
<1> DEFINE p == Append(q, row)
<1>1. /\ Len(q) \in Nat /\ Len(p) = Len(q) + 1 /\ p[Len(q) + 1] = row
      /\ \A k \in 1 .. Len(q) : p[k] = q[k]
  OBVIOUS
<1> HIDE DEF p
<1>2. \A k \in 1 .. Len(p) : k \in 1 .. Len(q) \/ k = Len(q) + 1
  BY <1>1
<1> QED BY <1>1, <1>2 DEF Clean, p

LEMMA CleanJoin ==
    ASSUME NEW p \in Seq(Rows), Clean(p), NEW q \in Seq(Rows), Clean(q)
    PROVE  Clean(p \o q)
<1> DEFINE r == p \o q
<1>1. /\ Len(p) \in Nat /\ Len(q) \in Nat /\ Len(r) = Len(p) + Len(q)
      /\ \A k \in 1 .. Len(p) : r[k] = p[k]
      /\ \A k \in 1 .. Len(q) : r[Len(p) + k] = q[k]
  OBVIOUS
<1> HIDE DEF r
<1>2. ASSUME NEW k \in 1 .. Len(r) PROVE ~r[k].frame.bad
  <2>1. CASE k \in 1 .. Len(p)
    BY <1>1, <2>1 DEF Clean
  <2>2. CASE k \notin 1 .. Len(p)
    <3> DEFINE i == k - Len(p)
    <3>1. i \in 1 .. Len(q) /\ k = Len(p) + i
      BY <1>1, <2>2
    <3> HIDE DEF i
    <3> QED BY <1>1, <3>1 DEF Clean
  <2> QED BY <2>1, <2>2
<1> QED BY <1>2 DEF Clean, r

(* One row more at the end of two candidates.                              *)
LEMMA JoinMore ==
    ASSUME NEW p \in Seq(Rows), NEW q \in Seq(Rows), NEW row \in Rows
    PROVE  /\ p \o q \in Seq(Rows)
           /\ p \o Append(q, row) = Append(p \o q, row)
           /\ p \o <<>> = p
OBVIOUS

(* Where the rows of a sequence are in a longer one.                       *)
LEMMA JoinPlaces ==
    ASSUME NEW p \in Seq(Rows), NEW q \in Seq(Rows)
    PROVE  /\ Len(p \o q) = Len(p) + Len(q) /\ Len(p) \in Nat /\ Len(q) \in Nat
           /\ \A k \in 1 .. Len(p) : (p \o q)[k] = p[k]
           /\ \A k \in 1 .. Len(q) : (p \o q)[Len(p) + k] = q[k]
OBVIOUS

(* The last row of a candidate gets other signals.                         *)
LEMMA LastNear ==
    ASSUME NEW q \in Seq(Rows), NEW t \in Seq(Rows), Len(t) = Len(q), Len(q) # 0,
           t[Len(q)].frame.near, \A k \in 1 .. Len(q) : k # Len(q) => t[k] = q[k],
           NEW p \in Seq(Rows), NEW n \in Nat, NearEnd(p \o q, n)
    PROVE  NearEnd(p \o t, n)
<1> DEFINE a == p \o q
           b == p \o t
<1>1. /\ Len(a) = Len(p) + Len(q) /\ Len(p) \in Nat /\ Len(q) \in Nat
      /\ \A k \in 1 .. Len(p) : a[k] = p[k]
      /\ \A k \in 1 .. Len(q) : a[Len(p) + k] = q[k]
  BY JoinPlaces
<1>2. /\ Len(b) = Len(p) + Len(q)
      /\ \A k \in 1 .. Len(p) : b[k] = p[k]
      /\ \A k \in 1 .. Len(q) : b[Len(p) + k] = t[k]
  <2>1. /\ Len(p \o t) = Len(p) + Len(t)
        /\ \A k \in 1 .. Len(p) : (p \o t)[k] = p[k]
        /\ \A k \in 1 .. Len(t) : (p \o t)[Len(p) + k] = t[k]
    BY ONLY JoinPlaces, p \in Seq(Rows), t \in Seq(Rows)
  <2> HIDE DEF a
  <2> QED BY <2>1
<1>3. n <= Len(a) /\ \A k \in Len(a) - n + 1 .. Len(a) : a[k].frame.near
  BY DEF NearEnd
<1> HIDE DEF a, b
<1>4. ASSUME NEW k \in Len(b) - n + 1 .. Len(b) PROVE b[k].frame.near
  <2>1. k \in Len(a) - n + 1 .. Len(a) /\ a[k].frame.near
    BY <1>1, <1>2, <1>3
  <2>2. CASE k \in 1 .. Len(p)
    BY <1>1, <1>2, <2>1, <2>2
  <2>3. CASE k \notin 1 .. Len(p)
    <3> DEFINE i == k - Len(p)
    <3>1. i \in 1 .. Len(q) /\ k = Len(p) + i
      BY <1>1, <1>3, <2>1, <2>3
    <3> HIDE DEF i
    <3>2. b[k] = t[i] /\ a[k] = q[i]
      BY <1>1, <1>2, <3>1
    <3> QED BY <2>1, <3>1, <3>2
  <2> QED BY <2>2, <2>3
<1>5. n <= Len(b)
  BY <1>1, <1>2, <1>3
<1> QED BY <1>4, <1>5 DEF NearEnd, b

(* What is said of the next state is said of its ledger and its rows.      *)
LEMMA NextRecord ==
    /\ Path' = Collection!PathOf(decisions')
           /\ Collection!Rescored(decisions)' = Collection!Rescored(decisions')
    /\ Clean(Path)' <=> Clean(Path')
    /\ NearEnd(Path, task.streak)' <=> NearEnd(Path', task'.streak)
    /\ NearEnd(Path, Hold)' <=> NearEnd(Path', Hold)
    /\ Clean(rows[chosen])' <=> Clean(rows'[chosen'])
    /\ NearEnd(Path \o rows[chosen], shadow[chosen].streak)'
          <=> NearEnd(Path' \o rows'[chosen'], shadow'[chosen'].streak)
<1>1. Path' = Collection!PathOf(decisions')
  BY DEF Path, Collection!PathOf, Collection!FlattenSeq
<1>2. Collection!Rescored(decisions)' = Collection!Rescored(decisions')
  BY DEF Collection!Rescored, Collection!FoldLeft, Collection!MapThenFoldSet
<1>3. /\ Clean(Path)' <=> Clean(Path')
      /\ NearEnd(Path, task.streak)' <=> NearEnd(Path', task'.streak)
      /\ NearEnd(Path, Hold)' <=> NearEnd(Path', Hold)
      /\ Clean(rows[chosen])' <=> Clean(rows'[chosen'])
      /\ NearEnd(Path \o rows[chosen], shadow[chosen].streak)'
            <=> NearEnd(Path' \o rows'[chosen'], shadow'[chosen'].streak)
  BY DEF Clean, NearEnd
<1> QED BY <1>1, <1>2, <1>3

(* ... of its worlds ...                                                   *)
LEMMA NextWorld ==
    ASSUME NEW w
    PROVE  /\ Clean(rows[w])' <=> Clean(rows'[w])
           /\ RowScore(task, rows[w])' = RowScore(task', rows'[w])
           /\ NearEnd(Path \o rows[w], Hold)' <=> NearEnd(Path' \o rows'[w], Hold)
           /\ NearEnd(Path \o rows[w], shadow[w].streak)'
                 <=> NearEnd(Path' \o rows'[w], shadow'[w].streak)
           /\ NearEnd(rows[w], Len(rows[w]))' <=> NearEnd(rows'[w], Len(rows'[w]))
<1>1. RowScore(task, rows[w])' = RowScore(task', rows'[w])
  BY DEF RowScore, Collection!FoldLeft, Collection!MapThenFoldSet
<1> QED BY <1>1 DEF Clean, NearEnd

(* ... and of its samples.                                                 *)
LEMMA NextSample ==
    ASSUME NEW s
    PROVE  /\ Clean(decisions[s.decision].rows[s.world])'
                  <=> Clean(decisions'[s.decision].rows[s.world])
           /\ Clean(rows[s.world])' <=> Clean(rows'[s.world])
BY DEF Clean

(* A row that the judges agree on is rated as it was judged; one near the  *)
(* goal counts for the streak, and one that is not touched is clean.       *)
LEMMA RowAgrees ==
    ASSUME Collection!CollectionAssumption,
           NEW e \in EnvStates, NEW s \in TaskStates, NEW m \in Collection!Motion,
           ~e.success, ~e.fail,
           NEW a, a = Collection!EnvStep(e, m),
           NEW f, f = Collection!Frame(m.near, m.touch = "end", "branch"),
           NEW j, j = Collection!TaskStep(s, f),
           NEW row \in Rows, row.frame = f,
           row.terminated = Collection!EnvTerminated(a),
           row.truncated = Collection!EnvTruncated(j.step),
           Collection!MayEvaluate(s), Collection!Parity(j, a)
    PROVE  /\ Collection!RescoreRow(s, row) = j
           /\ a.success <=> j.status = "success"
           /\ j.status = "success" => j.streak >= Hold
           /\ a.success => a.hold >= Hold
           /\ f.bad => m.touch # "no"
           /\ j.streak = 0 \/ (j.streak = s.streak + 1 /\ f.near /\ a.hold = e.hold + 1)
<1>1. /\ Hold \in Nat \ {0} /\ EpisodeSteps \in Nat \ {0}
      /\ e.hold \in Nat /\ e.success \in BOOLEAN /\ e.fail \in BOOLEAN
      /\ s.step \in Nat /\ s.streak \in Nat /\ s.status # "refused"
      /\ m.near \in BOOLEAN /\ m.touch \in {"no", "passing", "end"}
      /\ m.near => m.touch = "no"
  BY DEF Collection!CollectionAssumption, EnvStates, TaskStates, Collection!Motion
<1> DEFINE bad == m.touch = "end"
           streak == IF ~bad /\ m.near THEN s.streak + 1 ELSE 0
           verdict == IF bad THEN "failure" ELSE IF streak >= Hold THEN "success"
                      ELSE IF s.step + 1 >= EpisodeSteps THEN "truncated" ELSE "active"
           hold == IF m.touch # "no" THEN e.hold ELSE IF m.near THEN e.hold + 1 ELSE 0
           won == ~(m.touch # "no") /\ hold >= Hold
<1>2. f = [near |-> m.near, bad |-> bad, by |-> "branch"] /\ f.near = m.near /\ f.bad = bad
  BY DEF Collection!Frame
<1>3. j.streak = streak /\ j.status = verdict
  <2> HIDE DEF bad
  <2> QED BY <1>2 DEF Collection!TaskStep
<1>4. a.hold = hold /\ a.success = won
  <2>1. a = [hold |-> hold, fail |-> m.touch # "no", success |-> won]
    BY DEF Collection!EnvStep
  <2> HIDE DEF hold, won
  <2> QED BY <2>1
<1>5. Collection!RescoreRow(s, row) = j
  <2>1. /\ Collection!EnvTerminated(a) = (j.status \in {"success", "failure"})
        /\ Collection!EnvTruncated(j.step) = (j.status = "truncated")
    <3>1. Collection!EnvTruncated(s.step + 1) = Collection!EnvTruncated(j.step)
              /\ j.step = s.step + 1
      BY DEF Collection!TaskStep
    <3> QED BY DEF Collection!Parity
  <2> QED BY <1>1, <2>1 DEF Collection!RescoreRow
<1>6. a.success <=> j.status = "success"
  BY <1>4 DEF Collection!Parity
<1>7. verdict = "success" => streak >= Hold
  OBVIOUS
<1>8. won => hold >= Hold
  OBVIOUS
<1>9. bad => m.touch # "no"
  OBVIOUS
<1>10. streak = 0 \/ (streak = s.streak + 1 /\ m.near /\ hold = e.hold + 1)
  BY <1>1
<1> HIDE DEF bad, streak, verdict, hold, won
<1> QED BY <1>2, <1>3, <1>4, <1>5, <1>6, <1>7, <1>8, <1>9, <1>10

(* A row more: the streak stays on the path, or begins anew with the chunk *)
(* when a replay has cut it.                                               *)
OneMore(p, q, row, s, j, h, g, t) ==
    /\ j = 0 \/ (j = s + 1 /\ row.frame.near /\ g = h + 1)
    /\ NearEnd(p \o q, s) \/ (s = t + Len(q) /\ h = Len(q) /\ NearEnd(q, Len(q)))

LEMMA StreakGoesOn ==
    ASSUME Collection!CollectionAssumption, NEW p \in Seq(Rows), NEW q \in Seq(Rows),
           NEW row \in Rows,
           NEW s \in Nat, NEW j \in Nat, NEW h \in Nat, NEW g \in Nat, NEW t \in Nat,
           OneMore(p, q, row, s, j, h, g, t)
    PROVE  /\ \/ NearEnd(p \o Append(q, row), j)
              \/ /\ ~NearEnd(p \o q, s) /\ j = t + Len(Append(q, row))
                 /\ g = Len(Append(q, row)) /\ NearEnd(Append(q, row), Len(Append(q, row)))
           /\ j >= Hold /\ g >= Hold => NearEnd(p \o Append(q, row), Hold)
<1> USE DEF OneMore
<1> DEFINE r == Append(q, row)
<1>1. /\ p \o q \in Seq(Rows) /\ r \in Seq(Rows) /\ p \o r = Append(p \o q, row)
      /\ p \o r \in Seq(Rows) /\ Len(r) = Len(q) + 1 /\ Len(q) \in Nat /\ Len(r) \in Nat
      /\ Hold \in Nat
  <2>1. Hold \in Nat
    BY DEF Collection!CollectionAssumption
  <2>2. r \in Seq(Rows) /\ Len(r) = Len(q) + 1 /\ Len(q) \in Nat
    OBVIOUS
  <2> QED BY <2>1, <2>2, JoinMore
<1>2. CASE NearEnd(p \o r, j)
  <2>1. j >= Hold /\ g >= Hold => NearEnd(p \o r, Hold)
    <3> HIDE DEF r
    <3> QED BY <1>1, <1>2, NearLess
  <2> QED BY <1>2, <2>1
<1>3. CASE ~NearEnd(p \o r, j)
  <2>1. j # 0
    <3>1. NearEnd(p \o r, 0)
      <4> HIDE DEF r
      <4> QED BY <1>1, NearNone
    <3> QED BY <1>3, <3>1
  <2>2. j = s + 1 /\ row.frame.near /\ g = h + 1
    BY <2>1
  <2>3. ~NearEnd(p \o q, s)
    <3> SUFFICES ASSUME NearEnd(p \o q, s) PROVE FALSE
      OBVIOUS
    <3>1. NearEnd(Append(p \o q, row), s + 1)
      <4> DEFINE v == p \o q
      <4>1. v \in Seq(Rows) /\ NearEnd(v, s)
        BY <1>1
      <4> HIDE DEF v
      <4>2. NearEnd(Append(v, row), s + 1)
        BY <2>2, <4>1, NearMore
      <4> QED BY <4>2 DEF v
    <3> QED BY <1>1, <1>3, <2>2, <3>1
  <2>4. s = t + Len(q) /\ h = Len(q) /\ NearEnd(q, Len(q))
    BY <2>3
  <2>5. NearEnd(r, Len(r))
    <3>1. NearEnd(r, Len(q) + 1)
      BY <1>1, <2>2, <2>4, NearMore
    <3> QED BY <1>1, <3>1
  <2>6. j = t + Len(r) /\ g = Len(r)
    BY <1>1, <2>2, <2>4
  <2>7. j >= Hold /\ g >= Hold => NearEnd(p \o r, Hold)
    <3> HIDE DEF r
    <3>1. NearEnd(p \o r, Len(r))
      BY <1>1, <2>5, NearTail
    <3> QED BY <1>1, <2>6, <3>1, NearLess
  <2> QED BY <2>3, <2>5, <2>6, <2>7
<1> QED BY <1>2, <1>3

(* A chunk step that is not refused, in every world.                       *)
LEMMA ChunkWorlds ==
    ASSUME Collection!CollectionAssumption, CollectionKnown, Collection!ChunkStep,
           collectPc' # "aborted"
    PROVE  /\ collectPc' = "chunk" /\ odd \subseteq odd' /\ active' \subseteq active
           /\ UNCHANGED <<decisions, root, nextRoot, task, chosen, witness, samples, success>>
           /\ \A w \in Worlds \ active :
                 /\ env'[w].success = env[w].success /\ shadow'[w] = shadow[w]
                 /\ rows'[w] = rows[w] /\ outcome'[w] = outcome[w]
           /\ \A w \in active : \E m \in Collection!Motion, row \in Rows :
                 /\ env'[w] = Collection!EnvStep(env[w], m)
                 /\ row.frame = Collection!Frame(m.near, m.touch = "end", "branch")
                 /\ shadow'[w] = Collection!TaskStep(shadow[w], row.frame)
                 /\ row.terminated = Collection!EnvTerminated(env'[w])
                 /\ row.truncated = Collection!EnvTruncated(shadow'[w].step)
                 /\ Collection!MayEvaluate(shadow[w]) /\ Collection!Parity(shadow'[w], env'[w])
                 /\ rows'[w] = Append(rows[w], row)
                 /\ outcome'[w].unsafe <=> outcome[w].unsafe \/ m.touch # "no"
<1>1. /\ collectPc = "chunk" /\ left > 0 /\ ChunkIsSound /\ PathIsOpen /\ LedgerIsSound
      /\ UNCHANGED <<decisions, root, nextRoot, task, chosen, witness, samples, success>>
  BY DEF Collection!ChunkStep, CollectionKnown, Live, Chunk
<1>2. PICK m \in [Worlds -> Collection!Motion] :
        LET after == [w \in Worlds |-> Collection!EnvStep(env[w], m[w])]
            signal == [w \in Worlds |-> Collection!Frame(m[w].near, m[w].touch = "end", "branch")]
            judged == [w \in active |-> Collection!TaskStep(shadow[w], signal[w])]
            row(w) == [frame |-> signal[w], terminated |-> Collection!EnvTerminated(after[w]),
                       truncated |-> Collection!EnvTruncated(judged[w].step)]
        IN /\ odd' = odd \cup Collection!Oddities(m, after)
           /\ IF \E w \in active : ~Collection!MayEvaluate(shadow[w])
              THEN Collection!Abort("task")
              ELSE IF \E w \in active : ~Collection!Parity(judged[w], after[w])
              THEN Collection!Abort("parity")
              ELSE /\ env' = after
                   /\ shadow' = [w \in Worlds |-> IF w \in active THEN judged[w] ELSE shadow[w]]
                   /\ rows' = [w \in Worlds |->
                        IF w \in active THEN Append(rows[w], row(w)) ELSE rows[w]]
                   /\ outcome' = [w \in Worlds |->
                        IF w \in active
                        THEN Collection!Observe(outcome[w], after[w].fail, m[w].touch # "no")
                        ELSE outcome[w]]
                   /\ active' = {w \in active : ~Collection!Over(row(w))}
                   /\ UNCHANGED collectPc
  BY DEF Collection!ChunkStep
<1> DEFINE after == [w \in Worlds |-> Collection!EnvStep(env[w], m[w])]
           signal == [w \in Worlds |-> Collection!Frame(m[w].near, m[w].touch = "end", "branch")]
           judged == [w \in active |-> Collection!TaskStep(shadow[w], signal[w])]
           row(w) == [frame |-> signal[w], terminated |-> Collection!EnvTerminated(after[w]),
                      truncated |-> Collection!EnvTruncated(judged[w].step)]
<1>3. /\ odd \subseteq odd'
      /\ \A w \in active :
             Collection!MayEvaluate(shadow[w]) /\ Collection!Parity(judged[w], after[w])
      /\ env' = after
      /\ shadow' = [w \in Worlds |-> IF w \in active THEN judged[w] ELSE shadow[w]]
      /\ rows' = [w \in Worlds |-> IF w \in active THEN Append(rows[w], row(w)) ELSE rows[w]]
      /\ outcome' = [w \in Worlds |->
            IF w \in active THEN Collection!Observe(outcome[w], after[w].fail, m[w].touch # "no")
            ELSE outcome[w]]
      /\ active' = {w \in active : ~Collection!Over(row(w))}
      /\ collectPc' = collectPc
  <2> HIDE DEF after, signal, judged, row
  <2> QED BY <1>2 DEF Collection!Abort, after, signal, judged, row
<1>4. /\ active \subseteq Worlds
      /\ \A w \in Worlds : /\ env[w] \in EnvStates /\ shadow[w] \in TaskStates
                           /\ m[w] \in Collection!Motion /\ WorldIsSound(w)
  BY <1>1 DEF ChunkIsSound, ChunkTypes
<1>5. ASSUME NEW w \in Worlds \ active
      PROVE  /\ env'[w].success = env[w].success /\ shadow'[w] = shadow[w]
             /\ rows'[w] = rows[w] /\ outcome'[w] = outcome[w]
  <2>1. /\ env[w].success \/ env[w].fail
        /\ env[w].success => ~env[w].fail
    BY <1>1, <1>4 DEF WorldIsSound, IsOver, IsNoted
  <2>2. after[w] = Collection!EnvStep(env[w], m[w])
    OBVIOUS
  <2> HIDE DEF after, judged, row
  <2>3. after[w].success = env[w].success
    BY <1>4, <2>1, <2>2, OverIsHeld
  <2> QED BY <1>3, <2>3
<1>6. ASSUME NEW w \in active
      PROVE  \E n \in Collection!Motion, r \in Rows :
                 /\ env'[w] = Collection!EnvStep(env[w], n)
                 /\ r.frame = Collection!Frame(n.near, n.touch = "end", "branch")
                 /\ shadow'[w] = Collection!TaskStep(shadow[w], r.frame)
                 /\ r.terminated = Collection!EnvTerminated(env'[w])
                 /\ r.truncated = Collection!EnvTruncated(shadow'[w].step)
                 /\ Collection!MayEvaluate(shadow[w]) /\ Collection!Parity(shadow'[w], env'[w])
                 /\ rows'[w] = Append(rows[w], r)
                 /\ outcome'[w].unsafe <=> outcome[w].unsafe \/ n.touch # "no"
  <2>1. w \in Worlds /\ m[w] \in Collection!Motion /\ StillActive(w)
    BY <1>4 DEF WorldIsSound
  <2>2. /\ env[w] \in EnvStates /\ shadow[w] \in TaskStates
        /\ ~env[w].success /\ ~env[w].fail /\ env[w].hold < Hold
        /\ shadow[w].status = "active" /\ shadow[w].step < EpisodeSteps
        /\ shadow[w].streak < Hold
    BY <1>4, <2>1 DEF StillActive
  <2>3. /\ after[w] = Collection!EnvStep(env[w], m[w])
        /\ signal[w] = Collection!Frame(m[w].near, m[w].touch = "end", "branch")
        /\ judged[w] = Collection!TaskStep(shadow[w], signal[w])
        /\ row(w) = [frame |-> signal[w], terminated |-> Collection!EnvTerminated(after[w]),
                     truncated |-> Collection!EnvTruncated(judged[w].step)]
    BY <2>1
  <2> HIDE DEF after, signal, judged, row
  <2>4. after[w] \in EnvStates /\ signal[w] \in Signals
    BY <2>1, <2>2, <2>3, JudgesAgree
  <2>5. row(w) \in Rows
    <3> DEFINE t == after[w].success \/ after[w].fail
               c == judged[w].step >= EpisodeSteps
    <3>1. row(w) = [frame |-> signal[w], terminated |-> t, truncated |-> c]
      BY <2>3 DEF Collection!EnvTerminated, Collection!EnvTruncated
    <3>2. t \in BOOLEAN /\ c \in BOOLEAN
      BY <2>4 DEF EnvStates
    <3> HIDE DEF t, c
    <3> QED BY <2>4, <3>1, <3>2 DEF Rows
  <2>6. /\ row(w).frame = signal[w] /\ row(w).terminated = Collection!EnvTerminated(after[w])
        /\ row(w).truncated = Collection!EnvTruncated(judged[w].step)
    BY <2>3
  <2>7. /\ env'[w] = after[w] /\ shadow'[w] = judged[w] /\ rows'[w] = Append(rows[w], row(w))
        /\ outcome'[w] = Collection!Observe(outcome[w], after[w].fail, m[w].touch # "no")
        /\ Collection!MayEvaluate(shadow[w]) /\ Collection!Parity(judged[w], after[w])
    BY <1>3, <2>1
  <2>8. outcome'[w].unsafe <=> outcome[w].unsafe \/ m[w].touch # "no"
    <3> DEFINE b == outcome[w].failure \/ after[w].fail
               c == outcome[w].unsafe \/ m[w].touch # "no"
    <3>1. outcome'[w] = [failure |-> b, unsafe |-> c]
      BY <2>7 DEF Collection!Observe
    <3> HIDE DEF b, c
    <3>2. outcome'[w].unsafe = c
      BY <3>1
    <3> QED BY <3>2 DEF c
  <2>9. /\ Collection!EnvTerminated(env'[w]) = Collection!EnvTerminated(after[w])
        /\ Collection!EnvTruncated(shadow'[w].step) = Collection!EnvTruncated(judged[w].step)
        /\ Collection!Parity(shadow'[w], env'[w]) <=> Collection!Parity(judged[w], after[w])
    BY <2>7
  <2> QED BY <2>1, <2>3, <2>5, <2>6, <2>7, <2>8, <2>9
<1> QED BY <1>1, <1>3, <1>5, <1>6

(* What is known of the samples while none is added and none is closed.    *)
LEMMA SamplesKept ==
    ASSUME SamplesRecorded, collectPc \notin {"replay", "close"},
           UNCHANGED <<decisions, samples, success>>
    PROVE  SamplesRecorded'
<1> SUFFICES ASSUME NEW s \in samples
             PROVE  /\ (s.decision \in 1 .. Len(decisions) + 1)' /\ s.world \in Worlds
                    /\ (s.decision <= Len(decisions))'
                          => Clean(decisions'[s.decision].rows[s.world])
                    /\ ~(s.decision = Len(decisions) + 1)'
                    /\ s.direct => success'
  BY NextSample DEF SamplesRecorded
<1>1. /\ s.decision \in 1 .. Len(decisions) + 1 /\ s.world \in Worlds
      /\ s.decision <= Len(decisions) => Clean(decisions[s.decision].rows[s.world])
      /\ ~(s.decision = Len(decisions) + 1)
      /\ s.direct => success
  BY DEF SamplesRecorded
<1> QED BY <1>1

(* What the types of the chunk are.                                        *)
LEMMA RecordTypes ==
    ASSUME Collection!CollectionAssumption, CollectionKnown, collectPc \in Live
    PROVE  /\ Path \in Seq(Rows) /\ task \in TaskStates /\ task \in Rated
           /\ collectPc \in Chunk => \A w \in Worlds :
                 /\ rows[w] \in Seq(Rows) /\ env[w] \in EnvStates
                 /\ shadow[w] \in TaskStates /\ shadow[w] \in Rated
                 /\ WorldIsSound(w)
<1>1. decisions \in Seq(Decisions) /\ task \in TaskStates
  BY DEF CollectionKnown, LedgerIsSound, PathIsOpen, Live, Chunk
<1>2. Path \in Seq(Rows)
  BY <1>1, PathIsJoined, JoinedType DEF Path
<1>3. TaskStates \subseteq Rated
  BY DEF TaskStates, Rated
<1>4. collectPc \in Chunk => \A w \in Worlds :
                 /\ rows[w] \in Seq(Rows) /\ env[w] \in EnvStates
                 /\ shadow[w] \in TaskStates /\ WorldIsSound(w)
  BY DEF CollectionKnown, ChunkIsSound, ChunkTypes
<1> QED BY <1>1, <1>2, <1>3, <1>4

(* Every world sets out with the path as it is.                            *)
LEMMA OpenRecords ==
    ASSUME Collection!CollectionAssumption, CollectionKnown, RecordKnown, Collection!OpenDecision
    PROVE  RecordKnown'
<1>1. /\ collectPc = "root" /\ collectPc' = "chunk" /\ RootRecorded /\ SamplesRecorded
             /\ Clean(Path)
      /\ UNCHANGED <<decisions, root, task, samples, success, odd>>
      /\ env' = [w \in Worlds |-> [hold |-> root.hold, success |-> FALSE, fail |-> FALSE]]
      /\ shadow' = [w \in Worlds |-> task] /\ rows' = [w \in Worlds |-> <<>>]
      /\ task.status = "active"
  BY DEF Collection!OpenDecision, RecordKnown, CollectionKnown, PathIsOpen, Live
<1>2. Path' = Path /\ Path \in Seq(Rows) /\ task \in TaskStates /\ task \in Rated
  BY <1>1, NextRecord, RecordTypes DEF Live, Path
<1>3. SamplesRecorded'
  BY <1>1, SamplesKept
<1>4. RootRecorded'
  BY <1>1, <1>2, NextRecord DEF RootRecorded
<1>5. ASSUME NEW w \in Worlds PROVE WorldRecorded(w)'
  <2>1. /\ rows'[w] = <<>> /\ shadow'[w] = task /\ ~env'[w].success /\ env'[w].hold = root.hold
    BY <1>1
  <2>2. Clean(<<>>) /\ NearEnd(<<>>, 0) /\ Len(<<>>) = 0 /\ <<>> \in Seq(Rows)
    BY DEF Clean, NearEnd
  <2>3. RowScore(task, <<>>) = task
    <3>1. PICK row \in Rows : TRUE
      <4>1. [near |-> TRUE, bad |-> TRUE, by |-> "branch"] \in Signals
        BY DEF Signals
      <4>2. [frame |-> [near |-> TRUE, bad |-> TRUE, by |-> "branch"],
             terminated |-> TRUE, truncated |-> TRUE] \in Rows
        BY <4>1 DEF Rows
      <4> QED BY <4>2
    <3>2. Collection!FoldLeft(Collection!RescoreRow, task, <<>>) = task
      BY <1>2, <2>2, <3>1, RatedAppend
    <3> QED BY <3>2 DEF RowScore
  <2>4. Path' \o rows'[w] = Path
    BY <1>2, <2>1
  <2>5. task.streak \in Nat
    BY <1>2 DEF TaskStates
  <2>6. OnItsWay(w)'
    <3>1. CASE NearEnd(Path, task.streak)
      BY <1>1, <1>2, <2>1, <2>4, <3>1, NextWorld DEF OnItsWay
    <3>2. CASE task.streak >= 1 /\ root.hold = 0
      BY <1>1, <1>2, <2>1, <2>2, <2>5, <3>2, NextWorld DEF OnItsWay
    <3> QED BY <1>1, <3>1, <3>2 DEF RootRecorded
  <2> QED BY <1>1, <2>1, <2>2, <2>3, <2>6, NextWorld DEF WorldRecorded
<1> QED BY <1>1, <1>2, <1>3, <1>4, <1>5, NextRecord DEF RecordKnown, RootRecorded, Live, Chunk

(* A control step puts on the rows what the judges made of it.             *)
LEMMA ChunkRecords ==
    ASSUME Collection!CollectionAssumption, CollectionKnown, RecordKnown, Collection!ChunkStep
    PROVE  RecordKnown'
<1> SUFFICES ASSUME collectPc' # "aborted" PROVE RecordKnown'
  BY DEF RecordKnown
<1>1. /\ collectPc = "chunk" /\ RootRecorded /\ SamplesRecorded /\ Clean(Path)
      /\ \A w \in Worlds : WorldRecorded(w)
      /\ success \in BOOLEAN
  BY DEF Collection!ChunkStep, RecordKnown, Live, Chunk
<1>2. /\ collectPc' = "chunk" /\ odd \subseteq odd' /\ active' \subseteq active
      /\ UNCHANGED <<decisions, root, task, samples, success>>
  BY ChunkWorlds
<1>3. Path' = Path /\ Path \in Seq(Rows) /\ task \in TaskStates /\ task \in Rated
  BY <1>1, <1>2, NextRecord, RecordTypes DEF Live, Chunk, Path
<1>4. SamplesRecorded'
  BY <1>1, <1>2, SamplesKept
<1>5. RootRecorded'
  BY <1>1, <1>2, <1>3, NextRecord DEF RootRecorded
<1>6. ASSUME NEW w \in Worlds, w \notin active PROVE WorldRecorded(w)'
  <2>1. /\ env'[w].success = env[w].success /\ shadow'[w] = shadow[w]
        /\ rows'[w] = rows[w] /\ outcome'[w] = outcome[w]
    BY <1>6, ChunkWorlds
  <2>2. w \notin active'
    BY <1>2, <1>6
  <2> QED BY <1>1, <1>2, <1>3, <2>1, <2>2, NextWorld DEF WorldRecorded
<1>7. ASSUME NEW w \in Worlds, w \in active PROVE WorldRecorded(w)'
  <2>1. PICK m \in Collection!Motion, row \in Rows :
            /\ env'[w] = Collection!EnvStep(env[w], m)
            /\ row.frame = Collection!Frame(m.near, m.touch = "end", "branch")
            /\ shadow'[w] = Collection!TaskStep(shadow[w], row.frame)
            /\ row.terminated = Collection!EnvTerminated(env'[w])
            /\ row.truncated = Collection!EnvTruncated(shadow'[w].step)
            /\ Collection!MayEvaluate(shadow[w]) /\ Collection!Parity(shadow'[w], env'[w])
            /\ rows'[w] = Append(rows[w], row)
            /\ outcome'[w].unsafe <=> outcome[w].unsafe \/ m.touch # "no"
    BY <1>7, ChunkWorlds
  <2>2. /\ rows[w] \in Seq(Rows) /\ env[w] \in EnvStates /\ shadow[w] \in TaskStates
        /\ StillActive(w)
    BY <1>1, <1>7, RecordTypes DEF WorldIsSound, Live, Chunk
  <2>3. /\ Collection!RescoreRow(shadow[w], row) = shadow'[w]
        /\ env'[w].success <=> shadow'[w].status = "success"
        /\ shadow'[w].status = "success" => shadow'[w].streak >= Hold
        /\ env'[w].success => env'[w].hold >= Hold
        /\ row.frame.bad => m.touch # "no"
        /\ \/ shadow'[w].streak = 0
           \/ /\ shadow'[w].streak = shadow[w].streak + 1 /\ row.frame.near
              /\ env'[w].hold = env[w].hold + 1
    BY <2>1, <2>2, RowAgrees DEF StillActive
  <2>4. /\ shadow[w].streak \in Nat /\ shadow'[w].streak \in Nat
        /\ env[w].hold \in Nat /\ env'[w].hold \in Nat /\ task.streak \in Nat
    <3>1. shadow[w].streak \in Nat /\ env[w].hold \in Nat /\ task.streak \in Nat
      BY <1>3, <2>2 DEF TaskStates, EnvStates
    <3>2. CollectionKnown'
      BY ChunkKeeps
    <3>3. ChunkTypes'
      BY <1>2, <3>2 DEF CollectionKnown, ChunkIsSound, Chunk
    <3>4. env'[w] \in EnvStates /\ shadow'[w] \in TaskStates
      BY <3>3 DEF ChunkTypes
    <3> QED BY <3>1, <3>4 DEF TaskStates, EnvStates
  <2>5. ~outcome'[w].unsafe => Clean(rows'[w])
    <3> SUFFICES ASSUME ~outcome'[w].unsafe PROVE Clean(rows'[w])
      OBVIOUS
    <3>1. Clean(rows[w]) /\ ~row.frame.bad
      BY <1>1, <2>1, <2>3 DEF WorldRecorded
    <3> QED BY <2>1, <2>2, <3>1, CleanMore
  <2>6. "replay" \notin odd' => RowScore(task, rows'[w]) = shadow'[w]
    <3> SUFFICES ASSUME "replay" \notin odd' PROVE RowScore(task, rows'[w]) = shadow'[w]
      OBVIOUS
    <3>1. RowScore(task, rows[w]) = shadow[w]
      BY <1>1, <1>2 DEF WorldRecorded
    <3>2. Collection!FoldLeft(Collection!RescoreRow, task, Append(rows[w], row))
             = Collection!RescoreRow(Collection!FoldLeft(Collection!RescoreRow, task, rows[w]),
                 row)
      BY <1>3, <2>2, RatedAppend
    <3> QED BY <2>1, <2>3, <3>1, <3>2 DEF RowScore
  <2>7. OnItsWay(w)
    BY <1>1, <1>7 DEF WorldRecorded
  <2>8. /\ \/ NearEnd(Path \o rows'[w], shadow'[w].streak)
           \/ /\ ~NearEnd(Path \o rows[w], shadow[w].streak)
              /\ shadow'[w].streak = task.streak + Len(rows'[w])
              /\ env'[w].hold = Len(rows'[w]) /\ NearEnd(rows'[w], Len(rows'[w]))
        /\ env'[w].success => NearEnd(Path \o rows'[w], Hold)
    <3> DEFINE p == Path
               q == rows[w]
               s == shadow[w].streak
               j == shadow'[w].streak
               h == env[w].hold
               g == env'[w].hold
               t == task.streak
    <3>1. OneMore(p, q, row, s, j, h, g, t)
      BY <2>3, <2>7 DEF OnItsWay, OneMore
    <3>2. /\ p \in Seq(Rows) /\ q \in Seq(Rows) /\ s \in Nat /\ j \in Nat /\ h \in Nat
          /\ g \in Nat /\ t \in Nat
      BY <1>3, <2>2, <2>4
    <3> HIDE DEF p, q, s, j, h, g, t
    <3>3. /\ \/ NearEnd(p \o Append(q, row), j)
             \/ /\ ~NearEnd(p \o q, s) /\ j = t + Len(Append(q, row))
                /\ g = Len(Append(q, row)) /\ NearEnd(Append(q, row), Len(Append(q, row)))
          /\ j >= Hold /\ g >= Hold => NearEnd(p \o Append(q, row), Hold)
      BY <3>1, <3>2, StreakGoesOn
    <3> QED BY <2>1, <2>3, <3>3 DEF p, q, s, j, h, g, t
  <2>9. OnItsWay(w)'
    BY <1>2, <1>3, <2>7, <2>8, NextWorld DEF OnItsWay
  <2> QED BY <1>2, <1>3, <2>3, <2>5, <2>6, <2>8, <2>9, NextWorld DEF WorldRecorded
<1> QED BY <1>1, <1>2, <1>3, <1>4, <1>5, <1>6, <1>7, NextRecord DEF RecordKnown, Live, Chunk

(* The selection: what is taken is clean, a success is taken when there is *)
(* one, and with nothing safe the path ends where it is.                   *)
LEMMA SelectRecords ==
    ASSUME Collection!CollectionAssumption, CollectionKnown, RecordKnown, Collection!Select
    PROVE  RecordKnown'
<1> SUFFICES ASSUME collectPc' # "aborted" PROVE RecordKnown'
  BY DEF RecordKnown
<1> DEFINE o == [w \in Worlds |-> Collection!Observe(outcome[w], env[w].fail, w \in touching)]
<1>1. /\ collectPc = "chunk" /\ left = 0 /\ outcome' = o
      /\ UNCHANGED <<root, nextRoot, task, env, shadow, active, left, rows, success, odd>>
      /\ RootRecorded /\ SamplesRecorded /\ Clean(Path) /\ success \in BOOLEAN
      /\ \A w \in Worlds : WorldRecorded(w)
      /\ decisions \in Seq(Decisions) /\ task.status = "active"
  BY DEF Collection!Select, RecordKnown, CollectionKnown, LedgerIsSound, PathIsOpen, Live, Chunk
<1>2. /\ ~ \E w \in Worlds : env[w].success /\ (o[w].failure \/ o[w].unsafe)
      /\ IF Collection!Pool(o) = {}
         THEN /\ decisions' = Append(decisions, Collection!Closed(None)) /\ collectPc' = "finish"
              /\ UNCHANGED <<chosen, samples>>
         ELSE \E top \in Collection!Pool(o) : \E selected \in Collection!Selections(o, top) :
               /\ chosen' = top /\ UNCHANGED decisions
               /\ samples' = samples \cup
                    {[decision |-> Len(decisions) + 1, world |-> w, direct |-> env[w].success] :
                        w \in selected}
               /\ collectPc' = IF Collection!Over(Collection!Last(rows[top]))
                               THEN "close" ELSE "replay"
  BY DEF Collection!Select, Collection!Abort
<1>3. \A w \in Worlds : ~o[w].unsafe => ~outcome[w].unsafe
  <2> TAKE w \in Worlds
  <2> DEFINE b == outcome[w].failure \/ env[w].fail
             c == outcome[w].unsafe \/ w \in touching
  <2>1. o[w] = [failure |-> b, unsafe |-> c]
    BY DEF Collection!Observe
  <2> HIDE DEF b, c, o
  <2>2. o[w].unsafe = c
    BY <2>1
  <2> QED BY <2>2 DEF c
<1> HIDE DEF o
<1>4. CASE Collection!Pool(o) = {}
  <2> DEFINE d == Collection!Closed(None)
  <2>1. /\ decisions' = Append(decisions, d) /\ collectPc' = "finish" /\ samples' = samples
    BY <1>2, <1>4
  <2>2. d \in Decisions /\ d.continued = None /\ d.rows = rows
    <3>1. /\ root.frame \in Signals /\ rows \in [Worlds -> Seq(Rows)] /\ Steps \in Nat
      BY <1>1, PathLength DEF PathIsOpen, ChunkIsSound, ChunkTypes, CollectionKnown, Live, Chunk
    <3> QED BY <3>1 DEF Collection!Closed, Decisions, Steps
  <2> HIDE DEF d
  <2>3. /\ Len(decisions') = Len(decisions) + 1 /\ Len(decisions) \in Nat
        /\ decisions'[Len(decisions) + 1] = d
        /\ \A i \in 1 .. Len(decisions) : decisions'[i] = decisions[i]
    BY <1>1, <2>1, <2>2
  <2>4. Path' = Path
    <3>1. Collection!PathOf(decisions') = Collection!PathOf(decisions) \o Continued(d)
              /\ Continued(d) = <<>>
          /\ Collection!PathOf(decisions) \in Seq(Rows)
      BY <1>1, <2>1, <2>2, PathGrows DEF Continued
    <3>2. Collection!PathOf(decisions) \o <<>> = Collection!PathOf(decisions)
      BY <3>1
    <3> QED BY <3>1, <3>2, NextRecord DEF Path
  <2>5. SamplesRecorded'
    <3>1. ASSUME NEW s \in samples'
          PROVE  /\ s.decision \in 1 .. Len(decisions') + 1 /\ s.world \in Worlds
                 /\ s.decision <= Len(decisions')
                       => Clean(decisions'[s.decision].rows[s.world])
                 /\ ~(s.decision = Len(decisions') + 1)
                 /\ s.direct => success'
      <4>1. /\ s.decision \in 1 .. Len(decisions) + 1 /\ s.world \in Worlds
            /\ s.decision <= Len(decisions) => Clean(decisions[s.decision].rows[s.world])
            /\ ~(s.decision = Len(decisions) + 1)
            /\ s.direct => success
        BY <1>1, <2>1, <3>1 DEF SamplesRecorded
      <4>2. s.decision \in 1 .. Len(decisions)
        BY <2>3, <4>1
      <4>3. /\ s.decision \in 1 .. Len(decisions') + 1 /\ ~(s.decision = Len(decisions') + 1)
            /\ s.decision <= Len(decisions) /\ decisions'[s.decision] = decisions[s.decision]
        BY <2>3, <4>2
      <4> QED BY <1>1, <4>1, <4>3
    <3>2. ASSUME NEW i \in 1 .. Len(decisions'), decisions'[i].continued # None
          PROVE  \E s \in samples' : s.decision = i /\ s.world = decisions'[i].continued
      <4>1. i # Len(decisions) + 1
        BY <2>2, <2>3, <3>2
      <4>2. i \in 1 .. Len(decisions) /\ decisions'[i] = decisions[i]
        BY <2>3, <4>1
      <4> QED BY <1>1, <2>1, <3>2, <4>2 DEF SamplesRecorded
    <3> QED BY <3>1, <3>2, NextSample DEF SamplesRecorded
  <2>6. EndRecorded'
    <3>1. ~success'
      BY <1>1 DEF RootRecorded
    <3>2. ASSUME "replay" \notin odd' PROVE Collection!Rescored(decisions') = task
      <4>1. Collection!Rescored(decisions) = task /\ "replay" \notin odd
        BY <1>1, <3>2 DEF RootRecorded
      <4>2. task \in Rated /\ task \in TaskStates
        BY <1>1, RecordTypes DEF Live, Chunk
      <4>3. Collection!Rescored(decisions') = Collection!RescoreDecision(task, d)
        <5> DEFINE reset == [step |-> 0, streak |-> 0, status |-> "active"]
        <5>1. reset \in Rated
          BY DEF Rated
        <5> HIDE DEF reset
        <5>2. Collection!FoldLeft(Collection!RescoreDecision, reset, Append(decisions, d))
                = Collection!RescoreDecision(Collection!FoldLeft(Collection!RescoreDecision,
                    reset, decisions), d)
          BY <1>1, <2>2, <5>1, LedgerAppend
        <5> QED BY <2>1, <4>1, <5>2 DEF Collection!Rescored, reset
      <4>4. Collection!RescoreDecision(task, d) = task
        <5> DEFINE ends == [w \in Worlds |-> Collection!FoldLeft(Collection!RescoreRow, task,
                       d.rows[w])]
        <5>1. \A w \in Worlds : ends[w] = shadow[w]
          BY <1>1, <2>2, <4>1 DEF WorldRecorded, RowScore
        <5>2. \A w \in Worlds : shadow[w].status # "refused"
          <6>1. \A w \in Worlds : shadow[w] \in TaskStates
            BY <1>1, RecordTypes DEF Live, Chunk
          <6> QED BY <6>1 DEF TaskStates
        <5>3. task.status # "refused"
          BY <1>1
        <5>4. Collection!RescoreDecision(task, d) =
                 IF task.status = "refused" \/ \E w \in Worlds : ends[w].status = "refused"
                 THEN [task EXCEPT !.status = "refused"]
                 ELSE IF d.continued = None THEN task ELSE ends[d.continued]
          BY DEF Collection!RescoreDecision
        <5> HIDE DEF ends
        <5> QED BY <2>2, <5>1, <5>2, <5>3, <5>4
      <4> QED BY <4>3, <4>4
    <3> QED BY <1>1, <3>1, <3>2, NextRecord DEF EndRecorded
  <2> QED BY <1>1, <2>1, <2>4, <2>5, <2>6, NextRecord DEF RecordKnown, Live, Chunk
<1>5. CASE Collection!Pool(o) # {}
  <2>a. PICK top \in Collection!Pool(o) : \E selected \in Collection!Selections(o, top) :
               /\ chosen' = top /\ UNCHANGED decisions
               /\ samples' = samples \cup
                    {[decision |-> Len(decisions) + 1, world |-> w, direct |-> env[w].success] :
                        w \in selected}
               /\ collectPc' = IF Collection!Over(Collection!Last(rows[top]))
                               THEN "close" ELSE "replay"
    BY <1>2, <1>5
  <2>1. PICK selected \in Collection!Selections(o, top) :
               /\ chosen' = top /\ UNCHANGED decisions
               /\ samples' = samples \cup
                    {[decision |-> Len(decisions) + 1, world |-> w, direct |-> env[w].success] :
                        w \in selected}
               /\ collectPc' = IF Collection!Over(Collection!Last(rows[top]))
                               THEN "close" ELSE "replay"
    BY <2>a
  <2>2. /\ top \in Worlds /\ top \in selected /\ selected \subseteq Collection!Eligible(o)
        /\ (\E w \in selected : env[w].success) => env[top].success
        /\ ~o[top].unsafe
        /\ \A w \in selected : w \in Worlds /\ ~o[w].unsafe
    <3>1. Collection!Successful(o) \subseteq Collection!Eligible(o)
      BY DEF Collection!Successful
    <3>2. CASE Collection!Successful(o) # {}
      <4>1. top \in Collection!Successful(o) /\ selected = Collection!Successful(o)
        BY <2>1, <3>2 DEF Collection!Pool, Collection!Selections
      <4> QED BY <3>1, <4>1 DEF Collection!Successful, Collection!Eligible
    <3>3. CASE Collection!Successful(o) = {}
      <4>1. top \in Collection!Eligible(o) /\ top \in selected
                /\ selected \subseteq Collection!Eligible(o)
        BY <2>1, <3>3 DEF Collection!Pool, Collection!Selections
      <4>2. \A w \in selected : ~env[w].success
        BY <3>3, <4>1 DEF Collection!Successful
      <4> QED BY <4>1, <4>2 DEF Collection!Eligible
    <3> QED BY <3>2, <3>3
  <2>3. Path' = Path /\ Path \in Seq(Rows) /\ task \in TaskStates /\ task \in Rated
    BY <1>1, <2>1, NextRecord, RecordTypes DEF Live, Chunk, Path
  <2>4. collectPc' \in {"replay", "close"} /\ ~success /\ Len(decisions) \in Nat
        /\ (collectPc' = "replay" => top \in active)
    <3>1. CollectionKnown'
      BY SelectKeeps
    <3>2. collectPc' = "replay" => chosen' \in active'
      BY <3>1 DEF CollectionKnown, ContinuationIsSound
    <3> QED BY <1>1, <2>1, <3>2 DEF RootRecorded
  <2>5. RootRecorded'
    BY <1>1, <2>1, <2>3, NextRecord DEF RootRecorded
  <2>6. \A w \in selected : Clean(rows[w])
    BY <1>1, <1>3, <2>2 DEF WorldRecorded
  <2>7. ASSUME NEW w \in Worlds PROVE WorldRecorded(w)'
    <3>1. WorldRecorded(w) /\ outcome'[w] = o[w] /\ (~o[w].unsafe => ~outcome[w].unsafe)
      BY <1>1, <1>3
    <3>2. w \in active => OnItsWay(w)'
      BY <1>1, <2>3, <3>1, NextWorld DEF WorldRecorded, OnItsWay
    <3> QED BY <1>1, <2>3, <3>1, <3>2, NextWorld DEF WorldRecorded
  <2>9. ChoiceRecorded'
    <3>1. Clean(rows'[chosen'])
      BY <1>1, <2>1, <2>2, <2>6
    <3>2. \E s \in samples' : s.decision = Len(decisions') + 1 /\ s.world = chosen'
      <4> DEFINE s == [decision |-> Len(decisions) + 1, world |-> top,
                     direct |-> env[top].success]
      <4>1. s \in samples'
        BY <2>1, <2>2
      <4>2. s.decision = Len(decisions) + 1 /\ s.world = top
        OBVIOUS
      <4> QED BY <2>1, <4>1, <4>2
    <3>3. collectPc' = "close" => chosen' \notin active'
      <4>1. top \in active <=> ~Collection!Over(rows[top][Len(rows[top])])
        BY <1>1, <2>2, ChunkBehind DEF CollectionKnown, Live, Chunk
      <4> QED BY <1>1, <2>1, <4>1 DEF Collection!Last
    <3> QED BY <3>1, <3>2, <3>3, NextRecord DEF ChoiceRecorded
  <2>10. SamplesRecorded'
    <3>1. ASSUME NEW s \in samples'
          PROVE  /\ s.decision \in 1 .. Len(decisions') + 1 /\ s.world \in Worlds
                 /\ s.decision <= Len(decisions')
                       => Clean(decisions'[s.decision].rows[s.world])
                 /\ s.decision = Len(decisions') + 1 => Clean(rows'[s.world])
                 /\ s.direct => success' \/ (collectPc' = "close" /\ env'[chosen'].success)
      <4>1. CASE s \in samples
        <5>1. /\ s.decision \in 1 .. Len(decisions) + 1 /\ s.world \in Worlds
              /\ s.decision <= Len(decisions) => Clean(decisions[s.decision].rows[s.world])
              /\ ~(s.decision = Len(decisions) + 1)
              /\ s.direct => success
          BY <1>1, <4>1 DEF SamplesRecorded
        <5> QED BY <1>1, <2>1, <5>1
      <4>2. CASE s \notin samples
        <5>1. PICK w \in selected :
                 s = [decision |-> Len(decisions) + 1, world |-> w, direct |-> env[w].success]
          BY <2>1, <3>1, <4>2
        <5>2. s.decision = Len(decisions) + 1 /\ s.world = w /\ s.direct = env[w].success
          BY <5>1
        <5>3. s.direct => collectPc' = "close" /\ env'[chosen'].success
          <6> SUFFICES ASSUME s.direct PROVE collectPc' = "close" /\ env'[chosen'].success
            OBVIOUS
          <6>1. env[top].success
            BY <2>2, <5>2
          <6>2. top \notin active
            <7>1. WorldIsSound(top)
              BY <1>1, <2>2, RecordTypes DEF Live, Chunk
            <7> QED BY <6>1, <7>1 DEF WorldIsSound, StillActive
          <6> QED BY <1>1, <2>1, <2>4, <6>1, <6>2
        <5>4. ~(Len(decisions) + 1 <= Len(decisions))
              /\ Len(decisions) + 1 \in 1 .. Len(decisions) + 1
          BY <2>4
        <5> QED BY <1>1, <2>1, <2>2, <2>6, <5>2, <5>3, <5>4
      <4> QED BY <4>1, <4>2
    <3>2. ASSUME NEW i \in 1 .. Len(decisions'), decisions'[i].continued # None
          PROVE  \E s \in samples' : s.decision = i /\ s.world = decisions'[i].continued
      BY <1>1, <2>1, <3>2 DEF SamplesRecorded
    <3> QED BY <2>4, <3>1, <3>2, NextSample DEF SamplesRecorded
  <2> QED BY <1>1, <2>3, <2>4, <2>5, <2>7, <2>9, <2>10, NextRecord DEF RecordKnown, Live, Chunk
<1> QED BY <1>4, <1>5

(* What the replay does to the continuation: its last transition gets the  *)
(* signals of the replay, which touches nothing.                           *)
LEMMA ReplayRow ==
    ASSUME Collection!CollectionAssumption, CollectionKnown, Collection!Replay,
           collectPc' # "aborted"
    PROVE  /\ collectPc = "replay" /\ collectPc' = "close" /\ chosen \in active
                  /\ chosen \in Worlds
           /\ left = 0 /\ odd \subseteq odd'
           /\ \A w \in Worlds : w # chosen => rows'[w] = rows[w]
           /\ \E hold \in 0 .. (Hold - 1), front \in Seq(Rows), r \in Rows, s \in Rows :
                 /\ rows[chosen] = Append(front, r) /\ rows'[chosen] = Append(front, s)
                 /\ s.terminated = r.terminated /\ s.truncated = r.truncated
                 /\ s.frame.near = (hold > 0) /\ ~s.frame.bad
                 /\ nextRoot'.hold = hold
                 /\ "replay" \notin odd' => hold = shadow[chosen].streak
<1>1. /\ collectPc = "replay" /\ LedgerIsSound /\ PathIsOpen /\ ChunkIsSound
      /\ ContinuationIsSound /\ left = 0 /\ chosen \in active /\ chosen \in Worlds
  BY DEF Collection!Replay, CollectionKnown, ContinuationIsSound, Live, Chunk
<1>2. /\ \E hold \in 0 .. (Hold - 1) :
            /\ nextRoot' = [frame |-> Collection!Frame(hold > 0, FALSE, "replay"), hold |-> hold]
            /\ odd' = IF hold = shadow[chosen].streak THEN odd ELSE odd \cup {"replay"}
      /\ rows' = [rows EXCEPT ![chosen][Len(rows[chosen])].frame = nextRoot'.frame]
      /\ collectPc' = "close"
  BY DEF Collection!Replay, Collection!Abort
<1>3. PICK hold \in 0 .. (Hold - 1) :
            /\ nextRoot' = [frame |-> Collection!Frame(hold > 0, FALSE, "replay"), hold |-> hold]
            /\ odd' = IF hold = shadow[chosen].streak THEN odd ELSE odd \cup {"replay"}
  BY <1>2
<1> DEFINE f == nextRoot'.frame
           n == Len(rows[chosen])
           r == rows[chosen][n]
<1>4. f \in Signals /\ f.near = (hold > 0) /\ ~f.bad /\ nextRoot'.hold = hold
  <2> DEFINE b == hold > 0
  <2>1. b \in BOOLEAN
    OBVIOUS
  <2>2. nextRoot' = [frame |-> Collection!Frame(b, FALSE, "replay"), hold |-> hold]
    BY <1>3
  <2>3. b = (hold > 0)
    OBVIOUS
  <2> HIDE DEF b
  <2>4. f = [near |-> b, bad |-> FALSE, by |-> "replay"] /\ nextRoot'.hold = hold
    BY <2>2 DEF Collection!Frame
  <2> HIDE DEF f
  <2> QED BY <2>1, <2>3, <2>4 DEF Signals
<1>5. /\ n \in Nat \ {0} /\ rows[chosen] \in Seq(Rows) /\ rows[chosen] # <<>> /\ r \in Rows
      /\ rows \in [Worlds -> Seq(Rows)]
  BY <1>1, ChunkBehind DEF ChunkIsSound, ChunkTypes
<1>6. PICK front \in Seq(Rows) : rows[chosen] = Append(front, r)
  <2>1. \E front \in Seq(Rows) : rows[chosen] = Append(front, rows[chosen][Len(rows[chosen])])
    BY <1>5, FrontAndLast, Zenon
  <2> QED BY <2>1
<1> HIDE DEF f
<1> DEFINE s == [r EXCEPT !.frame = f]
<1>7. rows' = [rows EXCEPT ![chosen] = [rows[chosen] EXCEPT ![n] = s]]
  BY <1>2 DEF f
<1>8. s \in Rows /\ s.frame = f /\ s.terminated = r.terminated /\ s.truncated = r.truncated
  BY <1>4, <1>5 DEF Rows
<1> HIDE DEF s
<1>9. [rows[chosen] EXCEPT ![n] = s] = Append(front, s)
  <2> HIDE DEF r
  <2>1. [Append(front, r) EXCEPT ![Len(Append(front, r))] = s] = Append(front, s)
    BY <1>5, <1>6, <1>8, LastReplaced
  <2> QED BY <1>6, <2>1
<1>10. rows'[chosen] = Append(front, s) /\ \A w \in Worlds : w # chosen => rows'[w] = rows[w]
  <2> DEFINE t == [rows[chosen] EXCEPT ![n] = s]
  <2>1. rows' = [rows EXCEPT ![chosen] = t]
    BY <1>7
  <2>2. t = Append(front, s)
    BY <1>9
  <2> HIDE DEF t
  <2> QED BY <1>1, <1>5, <2>1, <2>2
<1>11. odd \subseteq odd' /\ ("replay" \notin odd' => hold = shadow[chosen].streak)
  BY <1>3
<1> HIDE DEF r
<1> QED BY <1>1, <1>2, <1>4, <1>5, <1>6, <1>8, <1>10, <1>11

(* Two rows that show the same of the goal and of contacts, with the same  *)
(* flags, are rated alike.                                                 *)
LEMMA RowsAlike ==
    ASSUME NEW x \in Rated, NEW r \in Rows, NEW s \in Rows,
           s.terminated = r.terminated, s.truncated = r.truncated,
           s.frame.near = r.frame.near, s.frame.bad = r.frame.bad
    PROVE  Collection!RescoreRow(x, s) = Collection!RescoreRow(x, r)
<1>1. Collection!TaskStep(x, s.frame) = Collection!TaskStep(x, r.frame)
  BY DEF Collection!TaskStep
<1> QED BY <1>1 DEF Collection!RescoreRow

(* The replay shows the last step of the continuation otherwise at most in *)
(* that the goal is not near any more: then the root holds nothing.        *)
LEMMA ReplayRecords ==
    ASSUME Collection!CollectionAssumption, Hold <= ChunkSteps + 1, CollectionKnown, RecordKnown,
           Collection!Replay
    PROVE  RecordKnown'
<1> SUFFICES ASSUME collectPc' # "aborted" PROVE RecordKnown'
  BY DEF RecordKnown
<1>1. /\ collectPc = "replay" /\ collectPc' = "close" /\ chosen \in active /\ chosen \in Worlds
      /\ left = 0 /\ odd \subseteq odd'
      /\ \A w \in Worlds : w # chosen => rows'[w] = rows[w]
      /\ \E hold \in 0 .. (Hold - 1), front \in Seq(Rows), r \in Rows, s \in Rows :
            /\ rows[chosen] = Append(front, r) /\ rows'[chosen] = Append(front, s)
            /\ s.terminated = r.terminated /\ s.truncated = r.truncated
            /\ s.frame.near = (hold > 0) /\ ~s.frame.bad
            /\ nextRoot'.hold = hold
            /\ "replay" \notin odd' => hold = shadow[chosen].streak
  BY ReplayRow
<1>2. PICK hold \in 0 .. (Hold - 1), front \in Seq(Rows), r \in Rows, s \in Rows :
            /\ rows[chosen] = Append(front, r) /\ rows'[chosen] = Append(front, s)
            /\ s.terminated = r.terminated /\ s.truncated = r.truncated
            /\ s.frame.near = (hold > 0) /\ ~s.frame.bad
            /\ nextRoot'.hold = hold
            /\ "replay" \notin odd' => hold = shadow[chosen].streak
  BY <1>1
<1>3. /\ UNCHANGED <<decisions, root, task, env, shadow, active, left, outcome, chosen,
                     samples, success>>
      /\ RootRecorded /\ SamplesRecorded /\ Clean(Path) /\ success \in BOOLEAN
      /\ ChoiceRecorded /\ \A w \in Worlds : WorldRecorded(w)
  BY <1>1 DEF Collection!Replay, RecordKnown, Live, Chunk
<1>4. Path' = Path /\ Path \in Seq(Rows) /\ task \in Rated
      /\ \A w \in Worlds : rows[w] \in Seq(Rows) /\ shadow[w] \in Rated /\ WorldIsSound(w)
  BY <1>1, <1>3, NextRecord, RecordTypes DEF Live, Chunk, Path
<1>5. /\ StillActive(chosen) /\ shadow[chosen].streak \in Nat /\ task.streak \in Nat
      /\ hold \in Nat
  BY <1>1, <1>4 DEF WorldIsSound, Rated, Collection!CollectionAssumption
<1>6. Clean(rows'[chosen])
  <2>1. Clean(Append(front, r))
    BY <1>2, <1>3 DEF ChoiceRecorded
  <2>2. \A k \in 1 .. Len(front) : Append(front, r)[k] = front[k]
        /\ k \in 1 .. Len(Append(front, r))
    BY <1>2
  <2>3. Clean(front)
    BY <2>1, <2>2 DEF Clean
  <2> QED BY <1>2, <2>3, CleanMore
<1>7. RootRecorded'
  BY <1>1, <1>3, <1>4, NextRecord DEF RootRecorded
<1>8. ASSUME "replay" \notin odd' PROVE RowScore(task, rows'[chosen]) = shadow[chosen]
  <2> DEFINE x == Collection!FoldLeft(Collection!RescoreRow, task, front)
  <2>1. /\ x \in Rated
        /\ Collection!FoldLeft(Collection!RescoreRow, task, Append(front, r))
               = Collection!RescoreRow(x, r)
        /\ Collection!FoldLeft(Collection!RescoreRow, task, Append(front, s))
               = Collection!RescoreRow(x, s)
    BY <1>2, <1>4, RatedAppend
  <2>2. Collection!RescoreRow(x, r) = shadow[chosen] /\ hold = shadow[chosen].streak
    BY <1>1, <1>2, <1>3, <1>8, <2>1 DEF WorldRecorded, RowScore
  <2> HIDE DEF x
  <2>3. shadow[chosen] = Collection!TaskStep(x, r.frame)
    BY <1>5, <2>1, <2>2, RowIsRated DEF StillActive
  <2>4. ~r.frame.bad
    <3>1. /\ Len(Append(front, r)) \in 1 .. Len(Append(front, r))
          /\ Append(front, r)[Len(Append(front, r))] = r
      BY <1>2
    <3> QED BY <1>2, <1>3, <3>1 DEF ChoiceRecorded, Clean
  <2>5. r.frame \in Signals /\ s.frame \in Signals /\ x.step \in Nat /\ x.streak \in Nat
    BY <1>2, <2>1 DEF Rows, Rated
  <2>6. hold = IF r.frame.near THEN x.streak + 1 ELSE 0
    BY <2>2, <2>3, <2>4, <2>5, TaskStepType
  <2>7. s.frame.near = r.frame.near /\ s.frame.bad = r.frame.bad
    <3>1. r.frame.near \in BOOLEAN /\ s.frame.near \in BOOLEAN
          /\ r.frame.bad \in BOOLEAN /\ s.frame.bad \in BOOLEAN
      BY <2>5 DEF Signals
    <3>2. s.frame.near <=> hold > 0
      BY <1>2, <3>1
    <3>3. r.frame.near <=> hold > 0
      BY <1>5, <2>5, <2>6
    <3> QED BY <1>2, <2>4, <3>1, <3>2, <3>3
  <2>8. Collection!RescoreRow(x, s) = Collection!RescoreRow(x, r)
    BY <1>2, <2>1, <2>7, RowsAlike
  <2> QED BY <1>2, <2>1, <2>2, <2>8 DEF RowScore
<1>9. \/ NearEnd(Path \o rows'[chosen], shadow[chosen].streak)
      \/ shadow[chosen].streak >= 1 /\ nextRoot'.hold = 0
  <2>1. CASE shadow[chosen].streak = 0
    <3>1. Path \o rows'[chosen] \in Seq(Rows)
      BY <1>2, <1>4, JoinMore
    <3> QED BY <2>1, <3>1, NearNone
  <2>2. CASE shadow[chosen].streak >= 1 /\ hold = 0
    BY <1>2, <2>2
  <2>3. CASE hold > 0
    <3>1. OnItsWay(chosen)
      BY <1>1, <1>3 DEF WorldRecorded
    <3>2. ~(task.streak >= 1 /\ shadow[chosen].streak = task.streak + Len(rows[chosen]))
      <4>0. Steps \in Nat /\ Total \in Nat
        <5>1. LedgerIsSound /\ Steps < EpisodeSteps
          BY <1>1 DEF CollectionKnown, PathIsOpen, Live, Chunk
        <5> QED BY <5>1, PathLength
      <4>1. Steps + Total < EpisodeSteps /\ Len(rows[chosen]) = Total
        BY <1>1, <1>5, <4>0 DEF StillActive
      <4>2. Steps \in Nat
        BY <4>0
      <4>3. Total = ChunkSteps
        BY <4>1, <4>2 DEF Total, Collection!CollectionAssumption
      <4>4. shadow[chosen].streak < Hold
        BY <1>5 DEF StillActive
      <4> QED BY <1>5, <4>1, <4>3, <4>4 DEF Collection!CollectionAssumption
    <3>3. NearEnd(Path \o rows[chosen], shadow[chosen].streak)
      BY <3>1, <3>2 DEF OnItsWay
    <3> DEFINE q == Append(front, r)
               t == Append(front, s)
               n == shadow[chosen].streak
    <3>4. /\ q \in Seq(Rows) /\ t \in Seq(Rows) /\ Len(t) = Len(q) /\ Len(q) # 0
          /\ t[Len(q)] = s /\ \A k \in 1 .. Len(q) : k # Len(q) => t[k] = q[k]
      BY <1>2
    <3>5. s.frame.near
      BY <1>2, <2>3
    <3>6. n \in Nat /\ NearEnd(Path \o q, n) /\ rows'[chosen] = t
      BY <1>2, <1>5, <3>3
    <3> HIDE DEF q, t, n
    <3>7. NearEnd(Path \o t, n)
      BY <1>4, <3>4, <3>5, <3>6, LastNear
    <3> QED BY <3>6, <3>7 DEF n
  <2> QED BY <1>5, <2>1, <2>2, <2>3
<1>10. ChoiceRecorded'
  <2>1. \E x \in samples : x.decision = Len(decisions) + 1 /\ x.world = chosen
    BY <1>3 DEF ChoiceRecorded
  <2> QED BY <1>1, <1>3, <1>4, <1>6, <1>9, <2>1, NextRecord DEF ChoiceRecorded
<1>11. ASSUME NEW w \in Worlds PROVE WorldRecorded(w)'
  <2>1. WorldRecorded(w)
    BY <1>3
  <2>2. CASE w # chosen
    <3>1. rows'[w] = rows[w]
      BY <1>1, <2>2
    <3> QED BY <1>1, <1>3, <1>4, <2>1, <3>1, NextWorld DEF WorldRecorded
  <2>3. CASE w = chosen
    <3>1. ~env[w].success
      BY <1>5, <2>3 DEF StillActive
    <3> QED BY <1>1, <1>3, <1>4, <1>6, <1>8, <2>1, <2>3, <3>1, NextWorld DEF WorldRecorded
  <2> QED BY <2>2, <2>3
<1>12. SamplesRecorded'
  <2>1. ASSUME NEW x \in samples'
        PROVE  /\ x.decision \in 1 .. Len(decisions') + 1 /\ x.world \in Worlds
               /\ x.decision <= Len(decisions')
                     => Clean(decisions'[x.decision].rows[x.world])
               /\ x.decision = Len(decisions') + 1 => Clean(rows'[x.world])
               /\ x.direct => success'
    <3>1. /\ x.decision \in 1 .. Len(decisions) + 1 /\ x.world \in Worlds
          /\ x.decision <= Len(decisions) => Clean(decisions[x.decision].rows[x.world])
          /\ x.decision = Len(decisions) + 1 => Clean(rows[x.world])
          /\ x.direct => success
      BY <1>1, <1>3, <2>1 DEF SamplesRecorded
    <3>2. x.world # chosen => rows'[x.world] = rows[x.world]
      BY <1>1, <3>1
    <3> QED BY <1>3, <1>6, <3>1, <3>2
  <2>2. ASSUME NEW i \in 1 .. Len(decisions'), decisions'[i].continued # None
        PROVE  \E x \in samples' : x.decision = i /\ x.world = decisions'[i].continued
    BY <1>3, <2>2 DEF SamplesRecorded
  <2> QED BY <1>1, <2>1, <2>2, NextSample DEF SamplesRecorded
<1> QED BY <1>1, <1>3, <1>4, <1>7, <1>10, <1>11, <1>12, NextRecord DEF RecordKnown, Live, Chunk

(* What one more decision makes of the score of the ledger: with no        *)
(* candidate refused it is the score of the continuation.                  *)
LEMMA RescoredGrows ==
    ASSUME NEW d \in Decisions, d.continued # None, decisions \in Seq(Decisions),
           decisions' = Append(decisions, d),
           Collection!Rescored(decisions) = task, task \in Rated,
           task.status # "refused",
           \A w \in Worlds : RowScore(task, d.rows[w]) = shadow[w]
                             /\ shadow[w].status # "refused"
    PROVE  Collection!Rescored(decisions') = shadow[d.continued]
<1>1. Collection!Rescored(decisions') = Collection!RescoreDecision(task, d)
  <2> DEFINE reset == [step |-> 0, streak |-> 0, status |-> "active"]
  <2>1. reset \in Rated
    BY DEF Rated
  <2> HIDE DEF reset
  <2>2. Collection!FoldLeft(Collection!RescoreDecision, reset, Append(decisions, d))
          = Collection!RescoreDecision(Collection!FoldLeft(Collection!RescoreDecision, reset,
              decisions), d)
    BY <2>1, LedgerAppend
  <2> QED BY <2>2 DEF Collection!Rescored, reset
<1> DEFINE ends == [w \in Worlds |-> Collection!FoldLeft(Collection!RescoreRow, task, d.rows[w])]
<1>2. \A w \in Worlds : ends[w] = shadow[w]
  BY DEF RowScore
<1>3. Collection!RescoreDecision(task, d) =
         IF task.status = "refused" \/ \E w \in Worlds : ends[w].status = "refused"
         THEN [task EXCEPT !.status = "refused"]
         ELSE IF d.continued = None THEN task ELSE ends[d.continued]
  BY DEF Collection!RescoreDecision
<1>4. d.continued \in Worlds
  BY DEF Decisions
<1> HIDE DEF ends
<1> QED BY <1>1, <1>2, <1>3, <1>4

(* Closing adds the continuation to the path, and takes over its state.    *)
LEMMA CloseFacts ==
    ASSUME Collection!CollectionAssumption, CollectionKnown, Collection!CloseDecision,
           collectPc' # "aborted",
           NEW d, d = Collection!Closed(chosen)
    PROVE  /\ collectPc = "close" /\ chosen \in Worlds
           /\ d \in Decisions /\ d.continued = chosen /\ d.continued # None /\ d.rows = rows
           /\ decisions \in Seq(Decisions) /\ decisions' = Append(decisions, d)
           /\ task' = shadow[chosen] /\ success' = env[chosen].success
           /\ Path' = Path \o rows[chosen] /\ Path \in Seq(Rows) /\ rows[chosen] \in Seq(Rows)
           /\ collectPc' = "finish"
                  \/ (collectPc' = "root" /\ root' = nextRoot /\ chosen \in active)
<1>1. /\ collectPc = "close" /\ LedgerIsSound /\ PathIsOpen /\ ChunkIsSound
      /\ ContinuationIsSound /\ left = 0 /\ chosen \in Worlds
  BY DEF Collection!CloseDecision, CollectionKnown, ContinuationIsSound, Live, Chunk
<1>2. /\ Len(rows[chosen]) \in Nat \ {0} /\ rows[chosen] \in Seq(Rows)
      /\ chosen \in active <=> ~Collection!Over(Collection!Last(rows[chosen]))
  BY <1>1, ChunkBehind DEF Collection!Last
<1>3. /\ decisions' = Append(decisions, d)
      /\ task' = shadow[chosen] /\ success' = env[chosen].success
      /\ collectPc' = "finish"
             \/ (collectPc' = "root" /\ root' = nextRoot
                        /\ ~Collection!Over(Collection!Last(rows[chosen])))
  BY DEF Collection!CloseDecision, Collection!Abort
<1>4. d \in Decisions /\ d.continued = chosen /\ d.rows = rows
  <2>1. /\ root.frame \in Signals /\ rows \in [Worlds -> Seq(Rows)] /\ Steps \in Nat
    BY <1>1, PathLength DEF PathIsOpen, ChunkIsSound, ChunkTypes
  <2> QED BY <1>1, <2>1 DEF Collection!Closed, Decisions, Steps
<1>5. d.continued # None
  BY <1>1, <1>4 DEF Collection!CollectionAssumption
<1>6. decisions \in Seq(Decisions)
  BY <1>1 DEF LedgerIsSound
<1>7. Path' = Path \o rows[chosen] /\ Path \in Seq(Rows)
  <2>1. Collection!PathOf(Append(decisions, d)) = Collection!PathOf(decisions) \o Continued(d)
        /\ Collection!PathOf(decisions) \in Seq(Rows)
    BY <1>4, <1>6, PathGrows
  <2>2. Continued(d) = rows[chosen]
    BY <1>4, <1>5 DEF Continued
  <2> QED BY <1>3, <2>1, <2>2, NextRecord DEF Path
<1> QED BY <1>1, <1>2, <1>3, <1>4, <1>5, <1>6, <1>7

(* The path takes over what the continuation has shown.                    *)
LEMMA CloseRecords ==
    ASSUME Collection!CollectionAssumption, CollectionKnown, RecordKnown, Collection!CloseDecision
    PROVE  RecordKnown'
<1> SUFFICES ASSUME collectPc' # "aborted" PROVE RecordKnown'
  BY DEF RecordKnown
<1> DEFINE d == Collection!Closed(chosen)
<1>1. /\ collectPc = "close" /\ chosen \in Worlds
      /\ d \in Decisions /\ d.continued = chosen /\ d.continued # None /\ d.rows = rows
      /\ decisions \in Seq(Decisions) /\ decisions' = Append(decisions, d)
      /\ task' = shadow[chosen] /\ success' = env[chosen].success
      /\ Path' = Path \o rows[chosen] /\ Path \in Seq(Rows) /\ rows[chosen] \in Seq(Rows)
      /\ collectPc' = "finish" \/ (collectPc' = "root" /\ root' = nextRoot /\ chosen \in active)
  BY CloseFacts
<1> HIDE DEF d
<1>2. /\ UNCHANGED <<nextRoot, env, shadow, active, rows, chosen, samples, odd>>
      /\ RootRecorded /\ SamplesRecorded /\ Clean(Path)
      /\ ChoiceRecorded /\ \A w \in Worlds : WorldRecorded(w)
      /\ task \in Rated /\ task.status = "active" /\ ContinuationIsSound
      /\ \A w \in Worlds : /\ env[w] \in EnvStates /\ shadow[w] \in TaskStates
                           /\ WorldIsSound(w)
  BY <1>1, RecordTypes DEF Collection!CloseDecision, RecordKnown, CollectionKnown, PathIsOpen,
                           Live, Chunk
<1>3. /\ Len(decisions') = Len(decisions) + 1 /\ Len(decisions) \in Nat
      /\ decisions'[Len(decisions) + 1] = d
      /\ \A i \in 1 .. Len(decisions) : decisions'[i] = decisions[i]
  BY <1>1
<1>4. Clean(Path') /\ success' \in BOOLEAN /\ ~success
  BY <1>1, <1>2, CleanJoin DEF ChoiceRecorded, RootRecorded, EnvStates
<1>5. ASSUME "replay" \notin odd PROVE Collection!Rescored(decisions') = shadow[chosen]
  <2>1. Collection!Rescored(decisions) = task /\ task.status # "refused"
    BY <1>2, <1>5 DEF RootRecorded
  <2>2. \A w \in Worlds : RowScore(task, d.rows[w]) = shadow[w]
    BY <1>1, <1>2, <1>5 DEF WorldRecorded
  <2>3. \A w \in Worlds : shadow[w].status # "refused"
    BY <1>2 DEF TaskStates
  <2> QED BY <1>1, <1>2, <2>1, <2>2, <2>3, RescoredGrows
<1>6. SamplesRecorded'
  <2>1. ASSUME NEW s \in samples'
        PROVE  /\ s.decision \in 1 .. Len(decisions') + 1 /\ s.world \in Worlds
               /\ s.decision <= Len(decisions')
                     => Clean(decisions'[s.decision].rows[s.world])
               /\ ~(s.decision = Len(decisions') + 1)
               /\ s.direct => success'
    <3>1. /\ s.decision \in 1 .. Len(decisions) + 1 /\ s.world \in Worlds
          /\ s.decision <= Len(decisions) => Clean(decisions[s.decision].rows[s.world])
          /\ s.decision = Len(decisions) + 1 => Clean(rows[s.world])
          /\ s.direct => env[chosen].success
      BY <1>1, <1>2, <1>4, <2>1 DEF SamplesRecorded
    <3>2. CASE s.decision = Len(decisions) + 1
      <4>1. decisions'[s.decision].rows = rows
        BY <1>1, <1>3, <3>2
      <4>2. s.decision \in 1 .. Len(decisions') + 1 /\ ~(s.decision = Len(decisions') + 1)
        BY <1>3, <3>2
      <4> QED BY <1>1, <3>1, <3>2, <4>1, <4>2
    <3>3. CASE s.decision # Len(decisions) + 1
      <4>1. s.decision \in 1 .. Len(decisions)
        BY <1>3, <3>1, <3>3
      <4>2. decisions'[s.decision] = decisions[s.decision] /\ s.decision <= Len(decisions)
            /\ s.decision \in 1 .. Len(decisions') + 1 /\ ~(s.decision = Len(decisions') + 1)
        BY <1>3, <4>1
      <4> QED BY <1>1, <3>1, <4>2
    <3> QED BY <3>2, <3>3
  <2>2. ASSUME NEW i \in 1 .. Len(decisions'), decisions'[i].continued # None
        PROVE  \E s \in samples' : s.decision = i /\ s.world = decisions'[i].continued
    <3>1. CASE i = Len(decisions) + 1
      <4>1. decisions'[i].continued = chosen
        BY <1>1, <1>3, <3>1
      <4> QED BY <1>2, <3>1, <4>1 DEF ChoiceRecorded
    <3>2. CASE i # Len(decisions) + 1
      <4>1. i \in 1 .. Len(decisions) /\ decisions'[i] = decisions[i]
        BY <1>3, <3>2
      <4> QED BY <1>2, <2>2, <4>1 DEF SamplesRecorded
    <3> QED BY <3>1, <3>2
  <2> QED BY <2>1, <2>2, NextSample DEF SamplesRecorded
<1>7. \A i \in 1 .. Len(decisions') : decisions'[i].continued # None
  <2> TAKE i \in 1 .. Len(decisions')
  <2>1. CASE i = Len(decisions) + 1
    BY <1>1, <1>3, <2>1
  <2>2. CASE i # Len(decisions) + 1
    <3>1. i \in 1 .. Len(decisions) /\ decisions'[i] = decisions[i]
      BY <1>3, <2>2
    <3> QED BY <1>2, <3>1 DEF RootRecorded
  <2> QED BY <2>1, <2>2
<1>8. CASE collectPc' = "root"
  <2>1. chosen \in active /\ root' = nextRoot /\ ~env[chosen].success
    <3>1. chosen \in active /\ root' = nextRoot
      BY <1>1, <1>8
    <3> QED BY <1>1, <1>2, <3>1 DEF WorldIsSound, StillActive
  <2>2. NearEnd(Path', task'.streak) \/ (task'.streak >= 1 /\ root'.hold = 0)
    BY <1>1, <1>2, <2>1 DEF ChoiceRecorded
  <2>3. "replay" \notin odd' => Collection!Rescored(decisions') = task'
    BY <1>1, <1>2, <1>5
  <2>4. RootRecorded'
    BY <1>1, <1>7, <2>1, <2>2, <2>3, NextRecord DEF RootRecorded
  <2> QED BY <1>4, <1>6, <1>8, <2>4, NextRecord DEF RecordKnown, Live, Chunk
<1>9. CASE collectPc' = "finish"
  <2>1. /\ env[chosen].success <=> shadow[chosen].status = "success"
        /\ env[chosen].success => NearEnd(Path', Hold)
    BY <1>1, <1>2 DEF WorldRecorded
  <2>2. decisions' # <<>>
    BY <1>1
  <2>3. shadow[chosen].status # "refused"
    BY <1>1, <1>2 DEF TaskStates
  <2>4. "replay" \notin odd' => Collection!Rescored(decisions') = shadow[chosen]
    BY <1>2, <1>5
  <2>5. EndRecorded'
    BY <1>1, <1>4, <1>7, <2>1, <2>2, <2>3, <2>4, NextRecord DEF EndRecorded
  <2> QED BY <1>4, <1>6, <1>9, <2>5, NextRecord DEF RecordKnown, Live, Chunk
<1> QED BY <1>1, <1>8, <1>9

(* The validator reads, and nothing that moves changes any of this.        *)
LEMMA FinishRecords ==
    ASSUME Collection!CollectionAssumption, CollectionKnown, RecordKnown, Collection!Finish
    PROVE  RecordKnown'
<1> SUFFICES ASSUME collectPc' # "aborted" PROVE RecordKnown'
  BY DEF RecordKnown
<1>1. /\ collectPc = "finish" /\ collectPc' = "finished"
      /\ UNCHANGED <<decisions, root, task, env, shadow, active, rows, outcome, chosen,
                     samples, success, odd>>
      /\ EndRecorded /\ SamplesRecorded /\ Clean(Path) /\ success \in BOOLEAN
  BY DEF Collection!Finish, Collection!Abort, RecordKnown
<1>2. Path' = Path
  BY <1>1, NextRecord DEF Path
<1>3. EndRecorded'
  BY <1>1, <1>2, NextRecord DEF EndRecorded
<1>4. SamplesRecorded'
  BY <1>1, SamplesKept
<1> QED BY <1>1, <1>2, <1>3, <1>4, NextRecord DEF RecordKnown, Live, Chunk

(* A step that changes nothing of the collection keeps it.                 *)
LEMMA RecordPauses ==
    ASSUME RecordKnown, UNCHANGED collectVars
    PROVE  RecordKnown'
<1>1. UNCHANGED <<collectPc, decisions, root, nextRoot, task, env, shadow, active, left, rows,
                  outcome, chosen, samples, success, odd>>
  BY DEF collectVars
<1>2. Path' = Path
  BY <1>1, NextRecord DEF Path
<1>3. SamplesRecorded => SamplesRecorded'
  <2> SUFFICES ASSUME SamplesRecorded PROVE SamplesRecorded'
    OBVIOUS
  <2>1. ASSUME NEW s \in samples'
        PROVE  /\ s.decision \in 1 .. Len(decisions') + 1 /\ s.world \in Worlds
               /\ s.decision <= Len(decisions')
                     => Clean(decisions'[s.decision].rows[s.world])
               /\ s.decision = Len(decisions') + 1
                     => collectPc' \in {"replay", "close"} /\ Clean(rows'[s.world])
               /\ s.direct => success' \/ (collectPc' = "close" /\ env'[chosen'].success)
    BY <1>1, <2>1 DEF SamplesRecorded
  <2>2. ASSUME NEW i \in 1 .. Len(decisions'), decisions'[i].continued # None
        PROVE  \E s \in samples' : s.decision = i /\ s.world = decisions'[i].continued
    BY <1>1, <2>2 DEF SamplesRecorded
  <2> QED BY <2>1, <2>2, NextSample DEF SamplesRecorded
<1>4. RootRecorded => RootRecorded'
  BY <1>1, <1>2, NextRecord DEF RootRecorded
<1>5. EndRecorded => EndRecorded'
  BY <1>1, <1>2, NextRecord DEF EndRecorded
<1>6. ChoiceRecorded => ChoiceRecorded'
  BY <1>1, <1>2, NextRecord DEF ChoiceRecorded
<1>7. ASSUME NEW w \in Worlds, WorldRecorded(w) PROVE WorldRecorded(w)'
  <2>1. OnItsWay(w) => OnItsWay(w)'
    BY <1>1, <1>2, NextWorld DEF OnItsWay
  <2> QED BY <1>1, <1>2, <1>7, <2>1, NextWorld DEF WorldRecorded
<1> QED BY <1>1, <1>2, <1>3, <1>4, <1>5, <1>6, <1>7, NextRecord DEF RecordKnown

(* At the reset there is nothing to show.                                  *)
LEMMA RecordBegins ==
    ASSUME Collection!CollectionAssumption, Collection!Init PROVE RecordKnown
<1>1. /\ collectPc = "root" /\ decisions = <<>> /\ samples = {} /\ success = FALSE
      /\ task = [step |-> 0, streak |-> 0, status |-> "active"]
  BY DEF Collection!Init
<1>2. Path = <<>>
  <2>0. <<>> \in Seq(Decisions)
    OBVIOUS
  <2>1. Collection!PathOf(<<>>) = Joined(PathParts(<<>>)) /\ PathParts(<<>>) \in Seq(Seq(Rows))
    BY <2>0, PathIsJoined
  <2>2. PathParts(<<>>) = <<>>
    BY <2>1 DEF PathParts
  <2> QED BY <1>1, <2>1, <2>2 DEF Path, Joined
<1>3. Collection!Rescored(<<>>) = task
  <2> DEFINE reset == [step |-> 0, streak |-> 0, status |-> "active"]
  <2>1. reset \in Rated
    BY DEF Rated
  <2>2. \E d \in Decisions : TRUE
    <3> DEFINE d == [root |-> [near |-> FALSE, bad |-> FALSE, by |-> "replay"], step |-> 0,
                     rows |-> [w \in Worlds |-> <<>>], continued |-> None]
    <3>1. d \in Decisions
      BY DEF Decisions, Signals
    <3> QED BY <3>1
  <2> HIDE DEF reset
  <2>3. Collection!FoldLeft(Collection!RescoreDecision, reset, <<>>) = reset
    <3>1. PICK d \in Decisions : TRUE
      BY <2>2
    <3>2. <<>> \in Seq(Decisions)
      OBVIOUS
    <3> QED BY ONLY <2>1, <3>1, <3>2, LedgerAppend
  <2> QED BY <1>1, <2>3 DEF Collection!Rescored, reset
<1>4. Clean(Path) /\ NearEnd(Path, task.streak)
  BY <1>1, <1>2 DEF Clean, NearEnd
<1>5. SamplesRecorded
  BY <1>1 DEF SamplesRecorded
<1>6. RootRecorded
  BY <1>1, <1>3, <1>4 DEF RootRecorded
<1> QED BY <1>1, <1>4, <1>5, <1>6 DEF RecordKnown, Live, Chunk

(* What is known of the record says what a finished episode has to say.    *)
LEMMA RecordTellsTheTruth ==
    ASSUME Collection!CollectionAssumption, CollectionKnown, RecordKnown
    PROVE  Collection!RecordIsTrue
<1> SUFFICES ASSUME collectPc = "finished" PROVE Collection!RecordIsTrue
  BY DEF Collection!RecordIsTrue, Collection!SuccessIsOnTheLedger,
         Collection!SamplesMatchTheEpisode, Collection!RescoresAsRecorded,
         Collection!SegmentsAreRuns
<1>1. /\ EndRecorded /\ SamplesRecorded /\ Clean(Path) /\ success \in BOOLEAN
      /\ decisions \in Seq(Decisions) /\ SegmentSteps \in Nat \ {0} /\ Hold \in Nat \ {0}
  BY DEF RecordKnown, CollectionKnown, LedgerIsSound, Collection!CollectionAssumption
<1>2. Path \in Seq(Rows)
  BY <1>1, PathIsJoined, JoinedType DEF Path
<1>3. ASSUME NEW i \in 1 .. Len(decisions), NEW w \in Worlds
      PROVE  decisions[i].rows[w] \in Seq(Rows)
  <2>1. decisions[i] \in Decisions
    BY <1>1
  <2> QED BY <2>1 DEF Decisions
<1>4. Collection!SuccessIsOnTheLedger
  <2> DEFINE p == Path
  <2>1. /\ p \in Seq(Rows) /\ Clean(p)
        /\ success => NearEnd(p, Hold)
    BY <1>1, <1>2 DEF EndRecorded
  <2>2. Collection!PathOf(decisions) = p
    BY DEF Path
  <2> HIDE DEF p
  <2>3. Len(p) \in Nat /\ DOMAIN p = 1 .. Len(p)
    BY <2>1
  <2>4. \A k \in DOMAIN p : ~p[k].frame.bad
    BY <2>1, <2>3 DEF Clean
  <2>5. ASSUME success
        PROVE  Len(p) >= Hold /\ \A k \in (Len(p) - Hold + 1)..Len(p) : p[k].frame.near
    <3>1. NearEnd(p, Hold)
      BY <2>1, <2>5
    <3> QED BY <1>1, <2>3, <3>1 DEF NearEnd
  <2> QED BY <2>2, <2>4, <2>5 DEF Collection!SuccessIsOnTheLedger
<1>5. Collection!SamplesMatchTheEpisode
  <2>1. ASSUME NEW s \in samples
        PROVE  /\ s.decision \in 1 .. Len(decisions) /\ s.world \in Worlds
               /\ Clean(decisions[s.decision].rows[s.world])
               /\ s.direct => success
    <3>1. /\ s.decision \in 1 .. Len(decisions) + 1 /\ s.world \in Worlds
          /\ s.decision <= Len(decisions) => Clean(decisions[s.decision].rows[s.world])
          /\ s.decision # Len(decisions) + 1
          /\ s.direct => success
      BY <1>1 DEF SamplesRecorded
    <3>2. s.decision \in 1 .. Len(decisions) /\ s.decision <= Len(decisions)
      BY <1>1, <3>1
    <3> QED BY <3>1, <3>2
  <2>2. ASSUME NEW s \in samples
        PROVE  \A k \in DOMAIN decisions[s.decision].rows[s.world] :
                   ~decisions[s.decision].rows[s.world][k].frame.bad
    <3> DEFINE q == decisions[s.decision].rows[s.world]
    <3>1. q \in Seq(Rows) /\ Clean(q)
      BY <1>3, <2>1
    <3> HIDE DEF q
    <3>2. \A k \in DOMAIN q : ~q[k].frame.bad
      BY <3>1 DEF Clean
    <3> QED BY <3>2 DEF q
  <2>3. ASSUME success, NEW i \in DOMAIN decisions
        PROVE  \E s \in Collection!SuccessSamples :
                   s.decision = i /\ s.world = decisions[i].continued
    <3>1. i \in 1 .. Len(decisions)
      BY <1>1
    <3>2. PICK s \in samples : s.decision = i /\ s.world = decisions[i].continued
      BY <1>1, <2>3, <3>1 DEF EndRecorded, SamplesRecorded
    <3> QED BY <2>3, <3>2 DEF Collection!SuccessSamples, Collection!PathSamples
  <2>4. success => Collection!SuccessSamples # {}
    <3> SUFFICES ASSUME success PROVE Collection!SuccessSamples # {}
      OBVIOUS
    <3>1. 1 \in DOMAIN decisions
      BY <1>1 DEF EndRecorded
    <3> QED BY <2>3, <3>1
  <2>5. Collection!SuccessSamples # {} => success
    <3> SUFFICES ASSUME Collection!SuccessSamples # {} PROVE success
      OBVIOUS
    <3>1. PICK s \in samples : s.direct \/ (success /\ s \in Collection!PathSamples)
      BY DEF Collection!SuccessSamples
    <3> QED BY <2>1, <3>1
  <2>6. (Collection!SuccessSamples # {}) = success
    BY <1>1, <2>4, <2>5
  <2> QED BY <2>2, <2>3, <2>6 DEF Collection!SamplesMatchTheEpisode
<1>6. Collection!RescoresAsRecorded
  <2>1. ASSUME "replay" \notin odd
        PROVE  /\ Collection!Rescored(decisions).status # "refused"
               /\ (Collection!Rescored(decisions).status = "success") = success
    BY <1>1, <2>1 DEF EndRecorded
  <2> QED BY <2>1 DEF Collection!RescoresAsRecorded
<1>7. Collection!SegmentsAreRuns
  <2> SUFFICES ASSUME NEW i \in DOMAIN decisions, NEW w \in Worlds
               PROVE  LET parts == Collection!Segments(decisions[i].rows[w]) IN
                      /\ Collection!FlattenSeq(parts) = decisions[i].rows[w]
                      /\ \A j \in DOMAIN parts :
                            /\ Len(parts[j]) \in 1..SegmentSteps
                            /\ \A k \in DOMAIN parts[j] :
                                   Collection!Stage(parts[j][k]) = Collection!Stage(parts[j][1])
                            /\ j > 1 => \/ Collection!Stage(parts[j][1])
                                   # Collection!Stage(parts[j - 1][1])
                                        \/ Len(parts[j - 1]) = SegmentSteps
    BY DEF Collection!SegmentsAreRuns
  <2> DEFINE parts == Collection!Segments(decisions[i].rows[w])
  <2>1. decisions[i].rows[w] \in Seq(Rows)
    BY <1>1, <1>3
  <2>2. parts \in Seq(Seq(Rows)) /\ Runs(parts)
            /\ Collection!FlattenSeq(parts) = decisions[i].rows[w]
    BY <1>1, <2>1, SegmentsFacts
  <2> HIDE DEF parts
  <2>3. ASSUME NEW j \in DOMAIN parts
        PROVE  /\ Len(parts[j]) \in 1..SegmentSteps
               /\ \A k \in DOMAIN parts[j] :
                      Collection!Stage(parts[j][k]) = Collection!Stage(parts[j][1])
               /\ j > 1 => \/ Collection!Stage(parts[j][1]) # Collection!Stage(parts[j - 1][1])
                           \/ Len(parts[j - 1]) = SegmentSteps
    <3>1. j \in 1 .. Len(parts) /\ parts[j] \in Seq(Rows) /\ (j > 1 => j \in 2 .. Len(parts))
      BY <2>2
    <3>2. IsRun(parts[j]) /\ (j > 1 => CutHere(parts[j - 1], parts[j]))
      BY <2>2, <3>1 DEF Runs
    <3>3. DOMAIN parts[j] = 1 .. Len(parts[j])
      BY <3>1
    <3> QED BY <3>2, <3>3 DEF IsRun, CutHere
  <2> QED BY <2>2, <2>3 DEF parts
<1> QED BY <1>4, <1>5, <1>6, <1>7 DEF Collection!RecordIsTrue

(* What is read off a finished ledger is what happened - the success, the  *)
(* samples trained on, the rewards computed again, the process segments -  *)
(* however many worlds there are and however long chunk and episode, as    *)
(* long as a goal that was held before a decision can still be held after  *)
(* its chunk (_collect_episode, materialize_reward_view,                   *)
(* mark_success_path, _candidate_segments).                                *)
THEOREM RecordHolds ==
    ASSUME Collection!CollectionAssumption, Hold <= ChunkSteps + 1
    PROVE  MCSpec => []RecordIsTrue
<1> DEFINE Known == part = "collection" => CollectionKnown /\ RecordKnown
<1>1. MCInit => Known
  BY CollectionBegins, RecordBegins DEF MCInit
<1>2. Known /\ [MCNext]_<<part, vars, collectVars, transferVars, graspVars>> => Known'
  <2>1. ASSUME CollectionKnown, RecordKnown, Collection!Next PROVE CollectionKnown'
    BY <2>1, OpenKeeps, ChunkKeeps, SelectKeeps, ReplayKeeps, CloseKeeps, FinishKeeps
       DEF Collection!Next
  <2>2. ASSUME CollectionKnown, RecordKnown, Collection!Next PROVE RecordKnown'
    BY <2>2, OpenRecords, ChunkRecords, SelectRecords, ReplayRecords, CloseRecords,
       FinishRecords
       DEF Collection!Next
  <2> QED BY <2>1, <2>2, CollectionPauses, RecordPauses DEF MCNext
<1>3. Known => RecordIsTrue
  BY RecordTellsTheTruth DEF RecordIsTrue
<1> QED BY <1>1, <1>2, <1>3, PTL DEF MCSpec
=============================================================================
