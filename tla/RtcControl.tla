----------------------------- MODULE RtcControl -----------------------------
(***************************************************************************)
(* GrootRtcExample (tools/run_newton_groot_rtc_control.py): the simulation *)
(* thread executes a chunk of actions, one row for each period of the      *)
(* simulated clock, while one worker thread infers the next chunk.  The    *)
(* answer belongs to the time it was asked for: the rows whose time has    *)
(* passed are skipped, an answer that is all in the past is dropped, and   *)
(* its first rows are those that were being executed anyway (RTC).         *)
(*                                                                         *)
(* Time is in units of which a frame and a period are integer multiples.   *)
(* A row is <<replan, offset>>: the inference it comes from and its place. *)
(***************************************************************************)
EXTENDS Integers, Sequences

CONSTANTS
    Period,             \* action_dt_s
    Frames,             \* what frame_dt may be
    Horizon,            \* rows of a chunk
    ReplanHorizon,      \* --replan-horizon
    MaxOverlap,         \* --rtc-max-overlap-steps
    FrozenSteps,        \* --rtc-frozen-steps
    MaxSteps,           \* --max-policy-steps
    Latencies,          \* ticks within which the inferences of a run are done
    MaxTicks,           \* bound
    None

MaxChunks == 4

VARIABLES
    async, frame, latency,  \* --async-policy; frame_dt; the worker's speed
    time,               \* sim_time
    next,               \* next_policy_time_s
    tick,               \* history: calls of _policy_tick
    control,            \* chunk, index, chunks and epoch of the seeds, replan
    future,             \* the request under way, or None
    worker,             \* "idle", "busy", "done", "raised"
    step,               \* policy_step
    pc,                 \* "running", "closing", "closed"
    why                 \* why it closes

setting == <<async, frame, latency>>
vars == <<setting, time, next, tick, control, future, worker, step, pc, why>>

Min2(a, b) == IF a < b THEN a ELSE b
Rows == 0 .. Horizon - 1

Init ==
    /\ async \in BOOLEAN /\ frame \in Frames /\ latency \in Latencies
    /\ time = 0 /\ next = 0 /\ tick = 0
    /\ control = [chunk |-> None, index |-> 0, chunks |-> << >>, epoch |-> None, replan |-> 0]
    /\ future = None /\ worker = "idle"
    /\ step = 0
    /\ pc = "running" /\ why = "none"

-----------------------------------------------------------------------------
(* Time and steps.                                                         *)

(* _elapsed_action_steps: floor(x + 1/2) *)
ElapsedSteps(start, now) == (2 * (now - start) + Period) \div (2 * Period)

(* _time_to_step: round(), to the even one of two. *)
StepOf(epoch, now) ==
    LET q == (now - epoch) \div Period
        r == (now - epoch) % Period
    IN  IF 2 * r > Period \/ (2 * r = Period /\ q % 2 = 1) THEN q + 1 ELSE q

-----------------------------------------------------------------------------
(* The seeds (TeleopRtcSeedManager).                                       *)

Push(c, chunk, start) ==
    LET epoch == IF c.epoch = None THEN start ELSE c.epoch
        all == Append(c.chunks, [from |-> StepOf(epoch, start), rows |-> chunk])
        extra == IF Len(all) > MaxChunks THEN Len(all) - MaxChunks ELSE 0
    IN  [c EXCEPT !.epoch = epoch, !.chunks = SubSeq(all, extra + 1, Len(all))]

Covering(c, s) ==
    {i \in DOMAIN c.chunks : s - c.chunks[i].from \in Rows}

RowAt(c, i, s) == c.chunks[i].rows[s - c.chunks[i].from]

(* A plausible defect: the first chunk that has a row for the step gives it.*)
SeedRow_Oldest(c, s) == RowAt(c, CHOOSE i \in Covering(c, s) : \A j \in Covering(c, s) : i <= j, s)

(* A later chunk replaces what earlier ones had for a step. *)
SeedRow(c, s) == RowAt(c, CHOOSE i \in Covering(c, s) : \A j \in Covering(c, s) : i >= j, s)

(* The rows from now on, the last of them repeated; None without any. *)
SeedWindow(c) ==
    LET s == StepOf(c.epoch, time)
        valid(n) == \A k \in 0 .. n : Covering(c, s + k) # {}
        last == CHOOSE n \in Rows : valid(n) /\ (n + 1 \in Rows => ~valid(n + 1))
    IN  IF c.chunks = << >> THEN None
        ELSE IF ~valid(0) THEN None
        ELSE [k \in Rows |-> SeedRow(c, s + Min2(k, last))]

(* _prepare_replan with _rtc_options: the seed begins now, so that none of *)
(* it has elapsed, whatever of it is padding.                              *)
Request(c) ==
    LET seed == SeedWindow(c)
        overlap == Min2(Horizon, MaxOverlap)
    IN  [replan |-> c.replan, time |-> time, tick |-> tick, seed |-> seed,
         frozen |-> IF seed = None THEN 0 ELSE Min2(FrozenSteps, overlap)]

(* _stored_rtc_action: what the policy answers, with the frozen rows. *)
Stored(q) == [k \in Rows |-> IF k < q.frozen THEN q.seed[k] ELSE <<q.replan, k>>]

(* _install_replan *)
Install(c, q) ==
    LET elapsed == ElapsedSteps(q.time, time)
    IN  IF elapsed >= Horizon THEN [c EXCEPT !.replan = @ + 1]
        ELSE [Push(c, Stored(q), q.time) EXCEPT
                 !.chunk = [rows |-> Stored(q), tick |-> q.tick],
                 !.index = elapsed,
                 !.replan = @ + 1]

-----------------------------------------------------------------------------
NeedsReplan(c) == c.chunk = None \/ c.index >= ReplanHorizon

(* How the answer to a request comes in: at once without a worker. *)
Consumed == IF worker = "done" THEN Install(control, future) ELSE control

Submits == NeedsReplan(Consumed) /\ worker # "busy"

Executing == IF Submits /\ ~async THEN Install(Consumed, Request(Consumed)) ELSE Consumed

(* An action is applied only while the chunk lasts. *)
Acts == Executing.chunk # None /\ Executing.index < Horizon

(* An exception ends the run. *)
Raises(cause) ==
    /\ pc' = "closing" /\ why' = cause
    /\ UNCHANGED <<control, future, worker, step>>

(* What _policy_tick does unless something in it raises. *)
Execute ==
    /\ control' = IF Acts THEN [Executing EXCEPT !.index = @ + 1] ELSE Executing
    /\ step' = IF Acts THEN step + 1 ELSE step
    /\ IF Submits /\ async
       THEN future' = Request(Consumed) /\ worker' = "busy"
       ELSE IF worker = "done" THEN future' = None /\ worker' = "idle"
       ELSE UNCHANGED <<future, worker>>
    /\ IF MaxSteps > 0 /\ step' >= MaxSteps
       THEN pc' = "closing" /\ why' = "finished"
       ELSE UNCHANGED <<pc, why>>

PolicyTick ==
    /\ tick' = tick + 1
    /\ next' = next + Period
    /\ \/ /\ worker \in {"raised", "done"} \/ Submits   \* the answer, its installation,
          /\ Raises("inference")                        \* or making the next request
       \/ worker # "raised" /\ Acts /\ Raises("action")     \* a row that is not finite
       \/ worker # "raised" /\ Execute

(* step(): a frame of the simulation. *)
Frame ==
    /\ pc = "running"
    /\ IF time >= next
       THEN /\ tick < MaxTicks
            /\ worker = "busy" => tick - future.tick < latency
            /\ PolicyTick
       ELSE UNCHANGED <<next, tick, control, future, worker, step, pc, why>>
    /\ time' = time + frame
    /\ UNCHANGED setting

(* The worker: _infer_replan. *)
Infer ==
    /\ worker = "busy"
    /\ worker' \in {"done", "raised"}
    /\ UNCHANGED <<setting, time, next, tick, control, future, step, pc, why>>

(* The viewer is closed. *)
CloseViewer ==
    /\ pc = "running"
    /\ pc' = "closing" /\ why' = "viewer"
    /\ UNCHANGED <<setting, time, next, tick, control, future, worker, step>>

(* close_policy_resources: shutdown(wait=True) waits for the worker. *)
Close ==
    /\ pc = "closing" /\ worker # "busy"
    /\ pc' = "closed"
    /\ UNCHANGED <<setting, time, next, tick, control, future, worker, step, why>>

Next == Frame \/ Infer \/ CloseViewer \/ Close

(* Frames go on, and inferences end. *)
Fairness == WF_vars(Frame) /\ WF_vars(Infer) /\ WF_vars(Close)

Spec == Init /\ [][Next]_vars

FairSpec == Spec /\ Fairness

-----------------------------------------------------------------------------
(* Properties. *)

TypeOK ==
    /\ time \in Nat /\ next \in Nat /\ tick \in 0 .. MaxTicks /\ step \in 0 .. tick
    /\ control.index \in 0 .. Horizon /\ control.replan \in Nat
    /\ Len(control.chunks) <= MaxChunks
    /\ worker \in {"idle", "busy", "done", "raised"}
    /\ (future = None) <=> (worker = "idle")
    /\ pc \in {"running", "closing", "closed"}
    /\ why \in {"none", "finished", "viewer", "inference", "action"}

(* A row is executed at the tick it was inferred for: the place counted in *)
(* rows, over answers that come late, and the place on the clock agree,    *)
(* though ticks fall on frames, not on periods.                            *)
(* (test_async_replan_skips_elapsed_actions)                               *)
OnTime ==
    control.chunk # None /\ pc = "running" =>
        control.index = Min2(Horizon, tick - control.chunk.tick)

(* An answer that comes before its frozen rows have passed changes nothing *)
(* of what is executed at that tick.                                       *)
Seamless ==
    LET old == control.chunk
        new == control'.chunk
    IN  /\ old # None /\ new # old
        /\ control'.index <= Min2(FrozenSteps, MaxOverlap)
        /\ control.index < Horizon
        => new.rows[control'.index - 1] = old.rows[control.index]

(* An inference that is fast enough for what is left of the chunk when it  *)
(* is asked for never leaves a tick without an action.                     *)
FastEnough == latency + (IF latency > ReplanHorizon THEN latency ELSE ReplanHorizon) <= Horizon

Gapless ==
    FastEnough /\ control.chunk # None /\ tick' # tick /\ why' \in {"none", "finished"}
        => step' = step + 1

(* An inference that ends within its horizon gets the policy to its last   *)
(* step, or to an exception, and the worker is waited for.                 *)
Finishes == latency < Horizon ~> pc = "closed"
=============================================================================
