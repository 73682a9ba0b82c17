-------------------------- MODULE EpisodeCollection --------------------------
(***************************************************************************)
(* One rank collects one episode.  A decision starts every parallel world  *)
(* from the same root, runs a chunk of control steps in all of them,       *)
(* selects candidates to train on and one to continue from, and replays    *)
(* the whole chosen path from the reset in the canonical world to get the  *)
(* next root.  Three judges watch: the environment, which latches failure  *)
(* at any physics frame; the task contract, which sees the signals at the  *)
(* end of a control step; and the event ledger, from which rewards are     *)
(* computed again later.  Scores are abstracted: any candidate of the pool *)
(* may be the best.                                                        *)
(***************************************************************************)
EXTENDS Naturals, FiniteSets, SequencesExt

CONSTANTS
    Worlds,             \* candidates_per_state parallel worlds
    Hold,               \* goal_hold_steps
    ChunkSteps,         \* execution_horizon
    EpisodeSteps,       \* episode_control_steps
    EliteDivisor,       \* chunk_elite_fraction is 1 / EliteDivisor
    SegmentSteps,       \* max_segment_steps of the process contract
    MaxOddities,        \* bound: rare physical events in an episode
    None

VARIABLES
    pc,                 \* where _collect_episode is
    decisions,          \* the closed decisions of the ledger
    root,               \* current_root: its signals and the environment's hold count
    nextRoot,           \* next_root, once the chosen path is replayed
    task,               \* task_state on the chosen path
    env,                \* env[w]: hold count, success and fail of world w
    shadow,             \* shadow[w]: the task state of world w
    active,             \* the worlds that still execute their chunk
    left,               \* the steps left of the chunk
    rows,               \* rows[w]: the open decision's transitions of world w
    outcome,            \* outcome[w]: BranchOutcomeAccumulator
    touching,           \* the worlds in contact at the end of the last step
    chosen,             \* the continuation, or None
    witness,            \* _continuation_witness_sample_id
    samples,            \* selected_samples, with what they claim
    success,            \* selected_success
    odd,                \* the rare physical events that have happened
    why                 \* what stopped the collection, or None

vars == <<pc, decisions, root, nextRoot, task, env, shadow, active, left, rows,
          outcome, touching, chosen, witness, samples, success, odd, why>>

CollectionAssumption ==
    /\ Worlds # {} /\ None \notin Worlds
    /\ {Hold, ChunkSteps, EpisodeSteps, EliteDivisor, SegmentSteps} \subseteq Nat \ {0}

(* ---- physics: what a control step may do to one world ------------------ *)

(* near: the goal predicate holds at the end of the step.  touch: a contact *)
(* (or too large a displacement) "passing" within the step, or at its end;  *)
(* with one, how near the world is decides nothing.                         *)
Motion == {m \in [near : BOOLEAN, touch : {"no", "passing", "end"}] : m.near => m.touch = "no"}

(* The signals an event carries; "by" stands for the dynamics digest, which *)
(* differs between a parallel branch and the canonical replay.              *)
Frame(near, bad, by) == [near |-> near, bad |-> bad, by |-> by]

(* _advance_reach_physics at every frame, then _advance_reach_episode.      *)
EnvStep(e, m) ==
    LET fail == e.fail \/ (~e.success /\ m.touch # "no")
        over == fail \/ e.success
        hold == IF over THEN e.hold ELSE IF m.near THEN e.hold + 1 ELSE 0
    IN [hold |-> hold, fail |-> fail, success |-> e.success \/ (~fail /\ hold >= Hold)]

EnvTerminated(e) == e.success \/ e.fail
EnvTruncated(step) == step >= EpisodeSteps

(* ---- the task contract -------------------------------------------------- *)

(* evaluate_task_step: failure, then success, then truncation.              *)
TaskStep(s, f) ==
    LET step == s.step + 1
        streak == IF ~f.bad /\ f.near THEN s.streak + 1 ELSE 0
    IN [step |-> step, streak |-> streak,
        status |-> IF f.bad THEN "failure"
                   ELSE IF streak >= Hold THEN "success"
                   ELSE IF step >= EpisodeSteps THEN "truncated" ELSE "active"]

(* _validate_state *)
MayEvaluate(s) == s.status = "active" /\ s.step < EpisodeSteps /\ s.streak < Hold

(* compare_groot_step_parity, without the reward: where success and failure *)
(* agree the two rewards are the same clipped distance.                     *)
Parity(s, e) ==
    /\ e.success = (s.status = "success")
    /\ e.fail = (s.status = "failure")
    /\ EnvTerminated(e) = (s.status \in {"success", "failure"})
    /\ EnvTruncated(s.step) = (s.status = "truncated")

(* ---- the ledger --------------------------------------------------------- *)

Over(row) == row.terminated \/ row.truncated

(* The transitions on the path of the first n decisions of a ledger.        *)
PathOf(ledger) ==
    FlattenSeq([i \in DOMAIN ledger |->
        IF ledger[i].continued = None THEN <<>> ELSE ledger[i].rows[ledger[i].continued]])

ControlSteps == Len(PathOf(decisions))

(* EpisodeEventLedger.validate *)
Accepted(ledger) ==
    /\ ledger # <<>>
    /\ \A i \in DOMAIN ledger :
        LET d == ledger[i]
            before == SubSeq(ledger, 1, i - 1)
            last == ledger[i - 1]
        IN /\ d.step = Len(PathOf(before))
           /\ i > 1 => /\ last.continued # None
                       /\ ~Over(Last(last.rows[last.continued]))
                       /\ d.root = Last(last.rows[last.continued]).frame
           /\ \E w \in Worlds : d.rows[w] # <<>>
           /\ d.continued # None => d.rows[d.continued] # <<>>
           /\ \A w \in Worlds : \A k \in 2..Len(d.rows[w]) : ~Over(d.rows[w][k - 1])

(* ---- _collect_episode --------------------------------------------------- *)

Abort(reason) == pc' = "aborted" /\ why' = reason

Init ==
    /\ pc = "root" /\ decisions = <<>> /\ chosen = None /\ witness = None /\ nextRoot = None
    /\ root = [frame |-> Frame(FALSE, FALSE, "replay"), hold |-> 0]
    /\ task = [step |-> 0, streak |-> 0, status |-> "active"]
    /\ env = [w \in Worlds |-> None] /\ shadow = [w \in Worlds |-> None]
    /\ active = {} /\ left = 0 /\ rows = [w \in Worlds |-> <<>>]
    /\ outcome = [w \in Worlds |-> [failure |-> FALSE, unsafe |-> FALSE]]
    /\ touching = {} /\ samples = {} /\ success = FALSE /\ odd = {} /\ why = None

(* Mutant: the root is restored without the environment's hold count.       *)
OpenDecision_NoHold ==
    /\ pc = "root" /\ pc' = "chunk"
    /\ env' = [w \in Worlds |-> [hold |-> 0, success |-> FALSE, fail |-> FALSE]]
    /\ shadow' = [w \in Worlds |-> task]
    /\ active' = Worlds /\ rows' = [w \in Worlds |-> <<>>]
    /\ left' = Min({ChunkSteps, EpisodeSteps - ControlSteps})
    /\ outcome' = [w \in Worlds |-> [failure |-> FALSE, unsafe |-> FALSE]]
    /\ touching' = {} /\ chosen' = None /\ witness' = None /\ nextRoot' = None
    /\ UNCHANGED <<decisions, root, task, samples, success, odd, why>>

(* begin_shadow_decision and open_decision: every world starts at the root. *)
OpenDecision ==
    /\ pc = "root" /\ pc' = "chunk"
    /\ env' = [w \in Worlds |-> [hold |-> root.hold, success |-> FALSE, fail |-> FALSE]]
    /\ shadow' = [w \in Worlds |-> task]
    /\ active' = Worlds /\ rows' = [w \in Worlds |-> <<>>]
    /\ left' = Min({ChunkSteps, EpisodeSteps - ControlSteps})
    /\ outcome' = [w \in Worlds |-> [failure |-> FALSE, unsafe |-> FALSE]]
    /\ touching' = {} /\ chosen' = None /\ witness' = None /\ nextRoot' = None
    /\ UNCHANGED <<decisions, root, task, samples, success, odd, why>>

Observe(o, fail, unsafe) == [failure |-> o.failure \/ fail, unsafe |-> o.unsafe \/ unsafe]

(* What a step of the worlds shows that is rare, or that ends the episode.  *)
Oddities(m, after) ==
    {x \in {"passing", "held", "last"} :
        \/ x = "passing" /\ \E w \in active : m[w].touch = "passing"
        \/ x = "held" /\ \E w \in Worlds \ active : env[w].success /\ m[w].touch # "no"
        \/ x = "last" /\ \E w \in active : shadow[w].step + 1 = EpisodeSteps /\ EnvTerminated(after[w])}

(* One step of the chunk loop: every world moves, those that are over hold; *)
(* what the active ones show is judged, compared and appended.              *)
ChunkStep ==
    /\ pc = "chunk" /\ left > 0
    /\ \E m \in [Worlds -> Motion] :
        LET after == [w \in Worlds |-> EnvStep(env[w], m[w])]
            frame == [w \in Worlds |-> Frame(m[w].near, m[w].touch = "end", "branch")]
            judged == [w \in active |-> TaskStep(shadow[w], frame[w])]
            row(w) == [frame |-> frame[w], terminated |-> EnvTerminated(after[w]),
                       truncated |-> EnvTruncated(judged[w].step)]
        IN /\ odd' = odd \cup Oddities(m, after)
           /\ Cardinality(odd' \ {"last"}) <= MaxOddities
           /\ IF \E w \in active : ~MayEvaluate(shadow[w])
              THEN Abort("task") /\ UNCHANGED <<env, shadow, active, left, rows, outcome, touching>>
              ELSE IF \E w \in active : ~Parity(judged[w], after[w])
              THEN Abort("parity") /\ UNCHANGED <<env, shadow, active, left, rows, outcome, touching>>
              ELSE /\ env' = after
                   /\ shadow' = [w \in Worlds |-> IF w \in active THEN judged[w] ELSE shadow[w]]
                   /\ rows' = [w \in Worlds |->
                        IF w \in active THEN Append(rows[w], row(w)) ELSE rows[w]]
                   /\ outcome' = [w \in Worlds |->
                        IF w \in active THEN Observe(outcome[w], after[w].fail, m[w].touch # "no")
                        ELSE outcome[w]]
                   /\ active' = {w \in active : ~Over(row(w))}
                   /\ touching' = {w \in Worlds : m[w].touch = "end"}
                   /\ left' = left - 1
                   /\ UNCHANGED <<pc, why>>
    /\ UNCHANGED <<decisions, root, nextRoot, task, chosen, witness, samples, success>>

(* select_advantage_chunks, by any order of the scores: every success when  *)
(* there is one, else at most the elite share of the safe candidates; the   *)
(* best is continued and is always among the selected.                      *)
Eligible(o) == {w \in Worlds : ~o[w].failure /\ ~o[w].unsafe}
Successful(o) == {w \in Eligible(o) : env[w].success}
(* Mutant: the best is taken of all safe candidates.                        *)
Pool_AnySafe(o) == Eligible(o)
Pool(o) == IF Successful(o) # {} THEN Successful(o) ELSE Eligible(o)
EliteLimit(n) == (n + EliteDivisor - 1) \div EliteDivisor
Selections(o, best) ==
    IF Successful(o) # {} THEN {Successful(o)}
    ELSE {s \in SUBSET Eligible(o) : best \in s /\ Cardinality(s) <= EliteLimit(Cardinality(Eligible(o)))}

(* The archived decision. *)
Closed(continued) ==
    [root |-> root.frame, step |-> ControlSteps, rows |-> rows, continued |-> continued]

(* The end of a chunk: a last look at every world, the selection, and, with *)
(* no safe candidate, the end of the path.                                  *)
Select ==
    /\ pc = "chunk" /\ left = 0
    /\ LET o == [w \in Worlds |-> Observe(outcome[w], env[w].fail, w \in touching)] IN
       /\ outcome' = o
       /\ IF \E w \in Worlds : env[w].success /\ (o[w].failure \/ o[w].unsafe)
          THEN Abort("select") /\ UNCHANGED <<decisions, chosen, samples>>
          ELSE IF \E w \in Worlds : o[w].unsafe /\ ~o[w].failure
          THEN Abort("record") /\ UNCHANGED <<decisions, chosen, samples>>
          ELSE IF Pool(o) = {}
          THEN /\ decisions' = Append(decisions, Closed(None)) /\ pc' = "finish"
               /\ UNCHANGED <<chosen, samples, why>>
          ELSE \E best \in Pool(o) : \E selected \in Selections(o, best) :
               /\ chosen' = best
               /\ samples' = samples \cup
                    {[decision |-> Len(decisions) + 1, world |-> w, direct |-> env[w].success] :
                        w \in selected}
               /\ pc' = IF Over(Last(rows[best])) THEN "close" ELSE "replay"
               /\ UNCHANGED <<decisions, why>>
    /\ UNCHANGED <<root, nextRoot, task, env, shadow, active, left, rows, touching, witness, success, odd>>

(* _replay_canonical_continuation and commit_continuation_witness.  The     *)
(* replay runs the same actions from the reset; where it comes out with     *)
(* other signals than the branch did, or ends, that is one of the rare      *)
(* events.  What it shows replaces the selected transition's signals.       *)
Replay ==
    /\ pc = "replay"
    /\ \/ /\ \E hold \in 0..(Hold - 1) :
               /\ hold <= ControlSteps + Len(rows[chosen])
               /\ nextRoot' = [frame |-> Frame(hold > 0, FALSE, "replay"), hold |-> hold]
               /\ odd' = IF hold = shadow[chosen].streak THEN odd ELSE odd \cup {"replay"}
          /\ rows' = [rows EXCEPT ![chosen][Len(rows[chosen])].frame = nextRoot'.frame]
          /\ witness' = chosen /\ pc' = "close" /\ UNCHANGED why
       \/ /\ odd' = odd \cup {"replay"} /\ Abort("replay")
          /\ UNCHANGED <<nextRoot, rows, witness>>
    /\ Cardinality(odd' \ {"last"}) <= MaxOddities
    /\ UNCHANGED <<decisions, root, task, env, shadow, active, left, outcome, touching, chosen, samples, success>>

(* close_decision, and the bookkeeping of the path.                         *)
CloseDecision ==
    /\ pc = "close"
    /\ IF ~Over(Last(rows[chosen])) /\ witness # chosen
       THEN Abort("builder") /\ UNCHANGED <<decisions, root, task, success>>
       ELSE /\ decisions' = Append(decisions, Closed(chosen))
            /\ task' = shadow[chosen] /\ success' = env[chosen].success
            /\ IF \/ env[chosen].success \/ Over(Last(rows[chosen]))
                  \/ ControlSteps + Len(rows[chosen]) >= EpisodeSteps
               THEN pc' = "finish" /\ UNCHANGED root
               ELSE pc' = "root" /\ root' = nextRoot
            /\ UNCHANGED why
    /\ UNCHANGED <<nextRoot, env, shadow, active, left, rows, outcome, touching, chosen, witness, samples, odd>>

(* EpisodeEventLedgerBuilder.finish: the validator reads what was built.    *)
Finish ==
    /\ pc = "finish"
    /\ IF Accepted(decisions) THEN pc' = "finished" /\ UNCHANGED why ELSE Abort("ledger")
    /\ UNCHANGED <<decisions, root, nextRoot, task, env, shadow, active, left, rows, outcome, touching,
                   chosen, witness, samples, success, odd>>

Next == OpenDecision \/ ChunkStep \/ Select \/ Replay \/ CloseDecision \/ Finish

Spec == Init /\ [][Next]_vars

(* ---- what is computed from the ledger afterwards ------------------------ *)

(* materialize_reward_view, one candidate: the task state it ends in, with  *)
(* "refused" once the flags of a row disagree with the oracle.              *)
RescoreRow(s, row) ==
    LET next == TaskStep(s, row.frame) IN
    IF s.status = "refused" \/ ~MayEvaluate(s)
       \/ row.terminated # (next.status \in {"success", "failure"})
       \/ row.truncated # (next.status = "truncated")
    THEN [s EXCEPT !.status = "refused"] ELSE next

(* One decision: refused if any candidate is, else where the path goes on.  *)
RescoreDecision(s, d) ==
    LET ends == [w \in Worlds |-> FoldLeft(RescoreRow, s, d.rows[w])] IN
    IF s.status = "refused" \/ \E w \in Worlds : ends[w].status = "refused"
    THEN [s EXCEPT !.status = "refused"]
    ELSE IF d.continued = None THEN s ELSE ends[d.continued]

Rescored(ledger) ==
    FoldLeft(RescoreDecision, [step |-> 0, streak |-> 0, status |-> "active"], ledger)

(* mark_success_path: the samples that claim a success.                     *)
PathSamples == {s \in samples : decisions[s.decision].continued = s.world}
SuccessSamples == {s \in samples : s.direct \/ (success /\ s \in PathSamples)}

(* _candidate_segments over the stages of a candidate's rows.               *)
Stage(row) == IF row.frame.bad THEN "unsafe" ELSE IF row.frame.near THEN "near" ELSE "far"
Cut(segments, row) ==
    IF segments = <<>> \/ Stage(Last(Last(segments))) # Stage(row) \/ Len(Last(segments)) >= SegmentSteps
    THEN Append(segments, <<row>>)
    ELSE [segments EXCEPT ![Len(segments)] = Append(@, row)]
Segments(candidate) == FoldLeft(Cut, <<>>, candidate)

(* ---- properties --------------------------------------------------------- *)

(* A collection stops with an error only where physics gave it a cause: a   *)
(* contact that came and went within a control step, a contact of a world   *)
(* that had already succeeded and was only held, a replay that came out     *)
(* otherwise than the branch, or an outcome on the episode's last step.     *)
AbortsOnlyForCause ==
    pc = "aborted" =>
        \/ why = "parity" /\ odd \cap {"passing", "replay", "last"} # {}
        \/ why = "select" /\ "held" \in odd
        \/ why = "replay" /\ "replay" \in odd

(* The success that is recorded is on the ledger: the goal held at the last *)
(* Hold steps of the chosen path, and the path never touched anything.      *)
SuccessIsOnTheLedger ==
    (pc = "finished" /\ success) =>
        LET path == PathOf(decisions) IN
        /\ Len(path) >= Hold
        /\ \A k \in (Len(path) - Hold + 1)..Len(path) : path[k].frame.near
        /\ \A k \in DOMAIN path : ~path[k].frame.bad

(* Only safe candidates are trained on; an episode has samples of a success *)
(* exactly when it succeeded, and then every chunk of its path is one.      *)
SamplesMatchTheEpisode ==
    pc = "finished" =>
        /\ \A s \in samples : \A k \in DOMAIN decisions[s.decision].rows[s.world] :
              ~decisions[s.decision].rows[s.world][k].frame.bad
        /\ (SuccessSamples # {}) = success
        /\ success => \A i \in DOMAIN decisions :
              \E s \in SuccessSamples : s.decision = i /\ s.world = decisions[i].continued

(* The finished ledger is scored again to what was recorded, as long as no  *)
(* replay came out otherwise than its branch.                               *)
RescoresAsRecorded ==
    (pc = "finished" /\ "replay" \notin odd) =>
        /\ Rescored(decisions).status # "refused"
        /\ (Rescored(decisions).status = "success") = success

(* The process labels cut every candidate into runs of one stage, none too  *)
(* long, and cut only where they must.                                      *)
SegmentsAreRuns ==
    pc = "finished" => \A i \in DOMAIN decisions : \A w \in Worlds :
        LET parts == Segments(decisions[i].rows[w]) IN
        /\ FlattenSeq(parts) = decisions[i].rows[w]
        /\ \A j \in DOMAIN parts :
              /\ Len(parts[j]) \in 1..SegmentSteps
              /\ \A k \in DOMAIN parts[j] : Stage(parts[j][k]) = Stage(parts[j][1])
              /\ j > 1 => \/ Stage(parts[j][1]) # Stage(parts[j - 1][1])
                          \/ Len(parts[j - 1]) = SegmentSteps

RecordIsTrue ==
    SuccessIsOnTheLedger /\ SamplesMatchTheEpisode /\ RescoresAsRecorded /\ SegmentsAreRuns

(* A success or a failure on the last control step is an outcome like any   *)
(* other: it does not stop the collection.                                  *)
HorizonOutcomeCounts == ~(pc = "aborted" /\ odd = {"last"})
=============================================================================
