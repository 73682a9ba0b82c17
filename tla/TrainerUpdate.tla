--------------------------- MODULE TrainerUpdate ---------------------------
(***************************************************************************)
(* DistributedPolicyTrainer.update (rexpolicy/flywheel/trainer.py): one    *)
(* synchronized update of the ranks of a launch.  Every rank builds its    *)
(* own schedule of windows from its own samples, the ranks meet in the     *)
(* collectives of torch.distributed, and each applies the optimizer step.  *)
(*                                                                         *)
(* A collective is matched by its place in the order of calls and not by   *)
(* its name: it ends when every rank waits in one.  Samples have weight 1; *)
(* those of a rank are numbered in the order of its schedule: successes,   *)
(* then others of this generation, then archived ones.                     *)
(***************************************************************************)
EXTENDS Integers, FiniteSets, FiniteSetsExt

CONSTANTS
    Ranks,
    MaxItems,           \* samples of a rank (bound)
    Requested,          \* train_steps_per_generation
    BatchSize, Accumulation

UpdateAssumption ==
    /\ IsFiniteSet(Ranks) /\ Ranks # {}
    /\ MaxItems \in Nat \ {0} /\ Requested \in Nat
    /\ BatchSize \in Nat \ {0} /\ Accumulation \in Nat \ {0}

SlotsPerStep == BatchSize * Accumulation

(* The label of a collective. *)
Label(name, window) == [name |-> name, window |-> window]

VARIABLES
    items,          \* the number of samples of each rank
    broken,         \* ranks with a repeated sample_id or a weight not finite and positive
    pc,             \* "run" or "wait", "done" or "failed"
    call,           \* the collective a rank waits in, or ran to last
    value,          \* what it contributes
    synced,         \* synchronized_item_count
    steps,          \* the optimizer steps of its schedule
    micro,          \* microbatches of the window that are done
    exposed,        \* how often each sample is in the windows that have begun
    applied,        \* optimizer steps applied
    cause           \* why it failed

vars == <<items, broken, pc, call, value, synced, steps, micro, exposed, applied, cause>>

Samples(r) == 1 .. items[r]

(* ceil(synchronized_item_count / slots_per_step) *)
CoverageSteps(sync) == (sync + SlotsPerStep - 1) \div SlotsPerStep

OptimizerSteps(r) ==
    LET c == CoverageSteps(synced[r]) IN IF Requested > c THEN Requested ELSE c

(* The slots of a window, numbered through the schedule. *)
Slots(k) == (k - 1) * SlotsPerStep + 1 .. k * SlotsPerStep

(* How often each sample is in a window of the coverage: a slot beyond the *)
(* samples is a dummy.                                                     *)
CoverageWindow(r, k) == [i \in Samples(r) |-> IF i \in Slots(k) THEN 1 ELSE 0]

Weight(w) == MapThenSumSet(LAMBDA i : w[i], DOMAIN w)

(* Windows beyond it sample with replacement. *)
Windows(r, k) ==
    IF k <= CoverageSteps(synced[r]) \/ items[r] = 0 THEN {CoverageWindow(r, k)}
    ELSE {w \in [Samples(r) -> 0 .. SlotsPerStep] : Weight(w) = SlotsPerStep}

Init ==
    /\ items \in [Ranks -> 0 .. MaxItems]
    /\ broken \in SUBSET Ranks
    /\ pc = [r \in Ranks |-> "wait"]
    /\ call = [r \in Ranks |-> Label("count", 0)]
    /\ value = [r \in Ranks |-> items[r]]
    /\ synced = [r \in Ranks |-> 0]
    /\ steps = [r \in Ranks |-> 0]
    /\ micro = [r \in Ranks |-> 0]
    /\ exposed = [r \in Ranks |-> [i \in Samples(r) |-> 0]]
    /\ applied = [r \in Ranks |-> 0]
    /\ cause = [r \in Ranks |-> "none"]

Running(r, name) == pc[r] = "run" /\ call[r].name = name

Await(r, name, window, v) ==
    /\ pc' = [pc EXCEPT ![r] = "wait"]
    /\ call' = [call EXCEPT ![r] = Label(name, window)]
    /\ value' = [value EXCEPT ![r] = v]

Fail(r, why) ==
    /\ pc' = [pc EXCEPT ![r] = "failed"]
    /\ cause' = [cause EXCEPT ![r] = why]
    /\ UNCHANGED <<call, value>>

Total == MapThenSumSet(LAMBDA r : value[r], Ranks)
Least == CHOOSE v \in {value[r] : r \in Ranks} : \A r \in Ranks : v <= value[r]
Greatest == CHOOSE v \in {value[r] : r \in Ranks} : \A r \in Ranks : v >= value[r]

(* Whether a rank raises on what a collective gives it. *)
Verdict(r) ==
    CASE call[r].name = "count"  -> IF Total = 0 THEN "no samples" ELSE "none"
      [] call[r].name = "steps"  -> IF Least # Greatest THEN "steps differ" ELSE "none"
      [] call[r].name = "weight" -> IF Total <= 0 THEN "weightless" ELSE "none"
      [] call[r].name = "finite" -> IF Least = 0 THEN "not finite" ELSE "none"
      [] OTHER -> "none"

(* Every rank waits: the collective ends for all of them. *)
AllReduce ==
    /\ \A r \in Ranks : pc[r] = "wait"
    /\ pc' = [r \in Ranks |-> IF Verdict(r) = "none" THEN "run" ELSE "failed"]
    /\ cause' = [r \in Ranks |-> Verdict(r)]
    /\ synced' = [r \in Ranks |-> IF call[r].name = "max" THEN Greatest ELSE synced[r]]
    /\ UNCHANGED <<items, broken, call, value, steps, micro, exposed, applied>>

ReduceMax(r) ==
    /\ Running(r, "count")
    /\ Await(r, "max", 0, items[r])
    /\ UNCHANGED <<items, broken, synced, steps, micro, exposed, applied, cause>>

(* build_update_schedule, which raises for this rank alone. *)
BuildSchedule(r) ==
    /\ Running(r, "max")
    /\ IF r \in broken THEN Fail(r, "samples") /\ UNCHANGED steps
       ELSE /\ steps' = [steps EXCEPT ![r] = OptimizerSteps(r)]
            /\ Await(r, "steps", 0, OptimizerSteps(r))
            /\ UNCHANGED cause
    /\ UNCHANGED <<items, broken, synced, micro, exposed, applied>>

(* Between two windows. *)
Between(r) == \/ Running(r, "steps")
              \/ Running(r, "gradient") /\ applied[r] = call[r].window

(* The next window: its weight over all of the ranks. *)
BeginWindow(r) ==
    LET k == call[r].window + 1 IN
    /\ Between(r) /\ k <= steps[r]
    /\ \E w \in Windows(r, k) :
          /\ exposed' = [exposed EXCEPT ![r] = [i \in Samples(r) |-> @[i] + w[i]]]
          /\ Await(r, "weight", k, Weight(w))
    /\ micro' = [micro EXCEPT ![r] = 0]
    /\ UNCHANGED <<items, broken, synced, steps, applied, cause>>

(* A plausible defect: a rank raises on its own loss at once. *)
Forward_RaisesAlone(r) ==
    /\ Running(r, "weight") \/ Running(r, "finite")
    /\ micro[r] < Accumulation
    /\ \E finite \in {0, 1} :
          IF finite = 1 THEN Await(r, "finite", call[r].window, 1) /\ UNCHANGED cause
          ELSE Fail(r, "not finite")
    /\ micro' = [micro EXCEPT ![r] = @ + 1]
    /\ UNCHANGED <<items, broken, synced, steps, exposed, applied>>

(* A plausible defect: a rank with nothing but dummies has nothing to do.  *)
Forward_SkipsDummies(r) ==
    /\ Running(r, "weight") \/ Running(r, "finite")
    /\ micro[r] < Accumulation
    /\ IF call[r].name = "weight" /\ value[r] = 0
       THEN Await(r, "gradient", call[r].window, 1) /\ micro' = [micro EXCEPT ![r] = Accumulation]
       ELSE /\ \E finite \in {0, 1} : Await(r, "finite", call[r].window, finite)
            /\ micro' = [micro EXCEPT ![r] = @ + 1]
    /\ UNCHANGED <<items, broken, synced, steps, exposed, applied, cause>>

(* A microbatch: its losses may turn out not to be finite, on any rank;    *)
(* _require_all_ranks tells all of them.                                   *)
Forward(r) ==
    /\ Running(r, "weight") \/ Running(r, "finite")
    /\ micro[r] < Accumulation
    /\ \E finite \in {0, 1} : Await(r, "finite", call[r].window, finite)
    /\ micro' = [micro EXCEPT ![r] = @ + 1]
    /\ UNCHANGED <<items, broken, synced, steps, exposed, applied, cause>>

(* The backward of the last microbatch averages the gradients. *)
Backward(r) ==
    /\ Running(r, "finite") /\ micro[r] = Accumulation
    /\ Await(r, "gradient", call[r].window, 1)
    /\ UNCHANGED <<items, broken, synced, steps, micro, exposed, applied, cause>>

(* The gradient is that of every rank: so is the step, and what it raises  *)
(* of norms and of parameters that did not move.                           *)
OptimizerStep(r) ==
    /\ Running(r, "gradient") /\ applied[r] < call[r].window
    /\ applied' = [applied EXCEPT ![r] = @ + 1]
    /\ UNCHANGED <<items, broken, pc, call, value, synced, steps, micro, exposed, cause>>

(* The replicas are compared, and the coverage is summed. *)
Compare(r) ==
    /\ Between(r) /\ call[r].window = steps[r]
    /\ Await(r, "compare", steps[r], applied[r])
    /\ UNCHANGED <<items, broken, synced, steps, micro, exposed, applied, cause>>

Return(r) ==
    /\ Running(r, "compare")
    /\ pc' = [pc EXCEPT ![r] = "done"]
    /\ UNCHANGED <<items, broken, call, value, synced, steps, micro, exposed, applied, cause>>

(* torchrun ends the launch when a rank has failed: the others are killed. *)
Killed ==
    /\ \E r \in Ranks : pc[r] = "failed"
    /\ pc' = [r \in Ranks |-> IF pc[r] \in {"done", "failed"} THEN pc[r] ELSE "failed"]
    /\ cause' = [r \in Ranks |-> IF pc[r] \in {"done", "failed"} THEN cause[r] ELSE "killed"]
    /\ pc' # pc
    /\ UNCHANGED <<items, broken, call, value, synced, steps, micro, exposed, applied>>

Local(r) ==
    \/ ReduceMax(r) \/ BuildSchedule(r) \/ BeginWindow(r) \/ Forward(r) \/ Backward(r)
    \/ OptimizerStep(r) \/ Compare(r) \/ Return(r)

Next == AllReduce \/ Killed \/ \E r \in Ranks : Local(r)

Fairness == WF_vars(AllReduce) /\ WF_vars(Killed) /\ \A r \in Ranks : WF_vars(Local(r))

Spec == Init /\ [][Next]_vars

FairSpec == Spec /\ Fairness

-----------------------------------------------------------------------------
(* Properties. *)

TypeOK ==
    /\ items \in [Ranks -> 0 .. MaxItems] /\ broken \subseteq Ranks
    /\ pc \in [Ranks -> {"run", "wait", "done", "failed"}]
    /\ \A r \in Ranks :
          /\ call[r].name \in {"count", "max", "steps", "weight", "finite", "gradient", "compare"}
          /\ call[r].window \in 0 .. steps[r] /\ steps[r] \in Nat
          /\ synced[r] \in 0 .. MaxItems /\ micro[r] \in 0 .. Accumulation
          /\ exposed[r] \in [Samples(r) -> Nat]
          /\ applied[r] \in 0 .. steps[r]

(* The ranks call the same collectives in the same order, whatever their   *)
(* samples are: two that wait, wait in the same one.                       *)
CollectivesMatch ==
    (\A r \in Ranks : pc[r] = "wait") =>
        \A r, q \in Ranks : call[r] = call[q] /\ micro[r] = micro[q]

(* A loss that is not finite fails the update on every rank, before any of *)
(* them applies the step of its window: the replicas never part.           *)
FailsTogether ==
    \A r, q \in Ranks :
        /\ cause[r] = "not finite" => cause[q] = "not finite" /\ applied[r] = applied[q]
        /\ pc[r] = "wait" /\ pc[q] = "wait" => applied[r] = applied[q]

(* No window is without weight, and the schedules agree: only repeated or  *)
(* weightless samples and losses that are not finite end an update.        *)
FailsOnlyForCause ==
    \A r \in Ranks :
        /\ cause[r] \in {"none", "no samples", "not finite", "samples", "killed"}
        /\ cause[r] = "no samples" => \A q \in Ranks : items[q] = 0
        /\ cause[r] \in {"samples", "killed"} => broken # {}

(* When the update is done, the coverage has had every sample of every     *)
(* rank exactly once, and whatever was sampled in it again is beyond it.   *)
CoversOnce ==
    \A r \in Ranks : call[r].window <= CoverageSteps(synced[r]) /\ pc[r] # "failed" =>
        \A i \in Samples(r) :
            exposed[r][i] = IF i <= call[r].window * SlotsPerStep THEN 1 ELSE 0

(* Every update ends on every rank. *)
Ended == \A r \in Ranks : pc[r] \in {"done", "failed"}

Ends == <>Ended
=============================================================================
