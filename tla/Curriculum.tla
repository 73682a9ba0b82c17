----------------------------- MODULE Curriculum -----------------------------
(***************************************************************************)
(* rexpolicy/tasking/curriculum.py: a graph of prerequisites is searched   *)
(* for cycles, the units are classified on sealed evidence and on their    *)
(* prerequisites, and the slots of a schedule are given to lanes.          *)
(*                                                                         *)
(* Units are numbered in the order of their ids.                           *)
(***************************************************************************)
EXTENDS Integers, FiniteSets, Sequences, SequencesExt

CONSTANTS
    MaxUnit,            \* the units are 1 .. MaxUnit
    MasteredFloor,      \* min_mastered_replay_slots
    HardFloor,          \* min_hard_exposure_slots
    TotalSlots

CurriculumAssumption ==
    MaxUnit \in Nat /\ MasteredFloor \in Nat /\ HardFloor \in Nat /\ TotalSlots \in Nat

Units == 1 .. MaxUnit

(* What the evidence alone says of a unit; "excluded" is SAFETY_EXCLUDED   *)
(* and INSUFFICIENT_EVIDENCE. *)
Statuses == {"mastered", "hard", "frontier", "excluded"}

VARIABLES
    requires,           \* prerequisite_unit_ids of each unit
    base,               \* base_status
    pc,
    visiting,           \* the calls of visit under way: the unit, and what it has not visited yet
    visited,
    qualified,          \* qualified_mastered
    at, changed,        \* the pass over the units: the next one, and whether it found any
    slots               \* the units of the schedule

vars == <<requires, base, pc, visiting, visited, qualified, at, changed, slots>>

Init ==
    /\ requires \in [Units -> SUBSET Units]
    /\ \A u \in Units : u \notin requires[u]
    /\ base \in [Units -> Statuses]
    /\ pc = "graph"
    /\ visiting = << >> /\ visited = {}
    /\ qualified = {}
    /\ at = 1 /\ changed = FALSE
    /\ slots = << >>

First(S) == CHOOSE u \in S : \A v \in S : u <= v

Call(u) == [unit |-> u, rest |-> requires[u]]

-----------------------------------------------------------------------------
(* _validate_task_graph *)

VisitRoot ==
    /\ pc = "graph" /\ visiting = << >>
    /\ IF visited = Units
       THEN pc' = "qualify" /\ UNCHANGED visiting
       ELSE visiting' = <<Call(First(Units \ visited))>> /\ UNCHANGED pc
    /\ UNCHANGED <<requires, base, visited, qualified, at, changed, slots>>

VisitPrerequisite ==
    /\ pc = "graph" /\ visiting # << >> /\ Last(visiting).rest # {}
    /\ LET p == First(Last(visiting).rest)
           rest == [visiting EXCEPT ![Len(visiting)].rest = @ \ {p}]
       IN  IF \E i \in DOMAIN visiting : visiting[i].unit = p
           THEN pc' = "refused" /\ UNCHANGED visiting
           ELSE visiting' = (IF p \in visited THEN rest ELSE Append(rest, Call(p))) /\ UNCHANGED pc
    /\ UNCHANGED <<requires, base, visited, qualified, at, changed, slots>>

Visited ==
    /\ pc = "graph" /\ visiting # << >> /\ Last(visiting).rest = {}
    /\ visited' = visited \cup {Last(visiting).unit}
    /\ visiting' = Front(visiting)
    /\ UNCHANGED <<requires, base, pc, qualified, at, changed, slots>>

-----------------------------------------------------------------------------
(* assess_curriculum: passes over the units until one finds none. *)

(* A plausible defect: one pass. *)
NextPass_One ==
    /\ pc = "qualify" /\ at = MaxUnit + 1
    /\ pc' = "schedule" /\ UNCHANGED <<at, changed>>
    /\ UNCHANGED <<requires, base, visiting, visited, qualified, slots>>

NextPass ==
    /\ pc = "qualify" /\ at = MaxUnit + 1
    /\ IF changed THEN at' = 1 /\ changed' = FALSE /\ UNCHANGED pc
       ELSE pc' = "schedule" /\ UNCHANGED <<at, changed>>
    /\ UNCHANGED <<requires, base, visiting, visited, qualified, slots>>

Qualify ==
    /\ pc = "qualify" /\ at \in Units
    /\ IF base[at] = "mastered" /\ at \notin qualified /\ requires[at] \subseteq qualified
       THEN qualified' = qualified \cup {at} /\ changed' = TRUE
       ELSE UNCHANGED <<qualified, changed>>
    /\ at' = at + 1
    /\ UNCHANGED <<requires, base, pc, visiting, visited, slots>>

(* What a unit is assessed as. *)
Status(u) ==
    IF base[u] # "excluded" /\ ~(requires[u] \subseteq qualified) THEN "blocked" ELSE base[u]

Eligible == {u \in Units : Status(u) \in {"mastered", "hard", "frontier"}}
With(status) == {u \in Units : Status(u) = status}

-----------------------------------------------------------------------------
(* build_curriculum_schedule, without a seed *)

(* The units of the lane of slot i, and the place of the slot in its lane. *)
Lane(i) ==
    IF i <= MasteredFloor THEN [pool |-> With("mastered"), place |-> i - 1]
    ELSE IF i <= MasteredFloor + HardFloor THEN [pool |-> With("hard"), place |-> i - 1 - MasteredFloor]
    ELSE [pool |-> Eligible, place |-> i - 1 - MasteredFloor - HardFloor]

(* _choose: the units of the pool in turn, in an order that depends on the *)
(* pool alone (rank_curriculum: by weight and fingerprint).                *)
Choice(i) ==
    LET lane == Lane(i)
        ranked == SetToSeq(lane.pool)
    IN  ranked[(lane.place % Len(ranked)) + 1]

Refuses ==
    \/ MasteredFloor > 0 /\ With("mastered") = {}
    \/ HardFloor > 0 /\ With("hard") = {}
    \/ TotalSlots < MasteredFloor + HardFloor
    \/ Eligible = {}

Schedule ==
    /\ pc = "schedule"
    /\ IF Refuses THEN pc' = "unsatisfied" /\ UNCHANGED slots
       ELSE pc' = "done" /\ slots' = [i \in 1 .. TotalSlots |-> Choice(i)]
    /\ UNCHANGED <<requires, base, visiting, visited, qualified, at, changed>>

Next == VisitRoot \/ VisitPrerequisite \/ Visited \/ NextPass \/ Qualify \/ Schedule

Spec == Init /\ [][Next]_vars

-----------------------------------------------------------------------------
(* Properties. *)

(* A cycle: units each of which requires another of them. *)
Cyclic == \E S \in (SUBSET Units) \ {{}} : \A u \in S : requires[u] \cap S # {}

(* Everything a unit rests on, through any number of prerequisites. *)
Foundations(u) ==
    CHOOSE S \in SUBSET Units :
        /\ requires[u] \subseteq S /\ \A v \in S : requires[v] \subseteq S
        /\ \A T \in SUBSET S :
              requires[u] \subseteq T /\ (\A v \in T : requires[v] \subseteq T) => T = S

(* The search refuses the graphs with a cycle and no others, in whatever   *)
(* order the units are visited (_validate_task_graph).                     *)
RefusesCyclesOnly ==
    /\ pc = "refused" => Cyclic
    /\ pc \in {"qualify", "schedule", "unsatisfied", "done"} => ~Cyclic

(* A unit is open to training exactly when its own evidence allows it and  *)
(* everything it rests on, however far down, is mastered: a mastered unit  *)
(* above one that is not does not count.                                   *)
OnMasteredFoundations ==
    pc \in {"schedule", "unsatisfied", "done"} =>
        \A u \in Units :
            u \in Eligible <=> /\ base[u] # "excluded"
                               /\ \A v \in Foundations(u) : base[v] = "mastered"

(* How often the slots I are given to a unit. *)
Given(u, I) == Cardinality({i \in I : slots[i] = u})

(* The floors are kept by units that are really mastered and really hard,  *)
(* and the slots of a lane go round: no unit that could have one has two   *)
(* less than another.                                                      *)
LanesGoRound ==
    LET lanes == [mastered |-> 1 .. MasteredFloor,
                  hard |-> MasteredFloor + 1 .. MasteredFloor + HardFloor,
                  mix |-> MasteredFloor + HardFloor + 1 .. TotalSlots]
        pools == [mastered |-> With("mastered"), hard |-> With("hard"), mix |-> Eligible]
    IN  pc = "done" =>
            \A l \in DOMAIN lanes :
                /\ \A i \in lanes[l] : slots[i] \in pools[l]
                /\ \A u, v \in pools[l] : Given(u, lanes[l]) <= Given(v, lanes[l]) + 1
=============================================================================
