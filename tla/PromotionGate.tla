---------------------------- MODULE PromotionGate ----------------------------
(***************************************************************************)
(* evaluate_non_regression (rexpolicy/flywheel/evaluation.py), over the    *)
(* accepted generations of a run: each candidate is compared with the last *)
(* accepted one only, so that what is tolerated once adds up.              *)
(*                                                                         *)
(* An evaluation has one episode for each pair of a reset and a diffusion  *)
(* seed.  Distances are in units in which the tolerance is a number.       *)
(***************************************************************************)
EXTENDS Integers, FiniteSets

CONSTANTS
    Suite,              \* the pairs of seeds of the run (fixed_evaluation_suite)
    Foreign,            \* those of another run
    Distances,          \* median_final_distance
    TolerableDrop,      \* success_rate_drop_tolerance, in episodes
    DistanceTolerance,  \* distance_tolerance_m
    MaxAccepted         \* bound

GateAssumption ==
    /\ IsFiniteSet(Suite) /\ IsFiniteSet(Foreign)
    /\ Distances \subseteq Int
    /\ TolerableDrop \in Nat /\ DistanceTolerance \in Nat

Metrics == [suite : {Suite, Foreign}, unsafe : SUBSET (Suite \cup Foreign),
            successes : 0 .. Cardinality(Suite), invalid : BOOLEAN, median : Distances]

(* A complete suite of finite values (from_episodes). *)
Evaluations == {m \in Metrics : m.unsafe \subseteq m.suite /\ m.successes <= Cardinality(m.suite)}

VARIABLES
    first,              \* history: the first accepted generation
    lastGood,           \* last_good
    accepted,           \* history: the generations accepted since
    rises,              \* history: those of them with more successes than the one before
    pc

vars == <<first, lastGood, accepted, rises, pc>>

(* The first evaluation has nothing to be compared with: it is last_good. *)
Init ==
    /\ first \in Evaluations /\ first.suite = Suite
    /\ lastGood = first
    /\ accepted = 0 /\ rises = 0
    /\ pc = "running"

SameSuite(c) == c.suite = lastGood.suite

SuccessIncreased(c) == c.successes > lastGood.successes

(* A plausible defect: safety failures are counted, not compared one by one. *)
NewSafetyFailures_Counted(c) == Cardinality(c.unsafe) > Cardinality(lastGood.unsafe)

NewSafetyFailures(c) == ~(c.unsafe \subseteq lastGood.unsafe)

SuccessRegressed(c) == lastGood.successes - c.successes > TolerableDrop

DistanceRegressed(c) ==
    ~SuccessIncreased(c) /\ c.median > lastGood.median + DistanceTolerance

Regressed(c) ==
    c.invalid \/ NewSafetyFailures(c) \/ SuccessRegressed(c) \/ DistanceRegressed(c)

Accept(c) ==
    /\ pc = "running" /\ accepted < MaxAccepted
    /\ SameSuite(c) /\ ~Regressed(c)
    /\ lastGood' = c
    /\ accepted' = accepted + 1
    /\ rises' = IF SuccessIncreased(c) THEN rises + 1 ELSE rises
    /\ UNCHANGED <<first, pc>>

(* The run ends with a rejected checkpoint, or with an exception. *)
Reject(c) ==
    /\ pc = "running" /\ SameSuite(c) /\ Regressed(c)
    /\ pc' = "rejected"
    /\ UNCHANGED <<first, lastGood, accepted, rises>>

Raise(c) ==
    /\ pc = "running" /\ ~SameSuite(c)
    /\ pc' = "raised"
    /\ UNCHANGED <<first, lastGood, accepted, rises>>

(* An evaluation without episodes or with values that are not finite has   *)
(* no metrics. *)
NoMetrics ==
    /\ pc = "running"
    /\ pc' = "raised"
    /\ UNCHANGED <<first, lastGood, accepted, rises>>

Next == NoMetrics \/ \E c \in Evaluations : Accept(c) \/ Reject(c) \/ Raise(c)

Spec == Init /\ [][Next]_vars

-----------------------------------------------------------------------------
TypeOK ==
    /\ first \in Evaluations /\ lastGood \in Evaluations
    /\ accepted \in Nat /\ rises \in 0 .. accepted
    /\ pc \in {"running", "rejected", "raised"}

(* What a run of accepted generations can lose: no pair of seeds that was  *)
(* safe at first is ever unsafe, an accepted generation costs no more than *)
(* the tolerated successes, and a rise in successes is the only excuse for *)
(* a distance beyond the tolerated one.                                    *)
LossIsBounded ==
    /\ lastGood.unsafe \subseteq first.unsafe
    /\ first.successes - lastGood.successes <= TolerableDrop * (accepted - rises) - rises
    /\ rises = 0 => lastGood.median <= first.median + DistanceTolerance * accepted
=============================================================================
