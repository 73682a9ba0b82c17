# Formal models of RExPolicy

RExPolicy trains a robot policy in a *flywheel*: torchrun workers collect
episodes in simulation, update the policy together, compare it with the last
good one and checkpoint, generation after generation, across crashes and
restarts. Beside it, a *tasking* pipeline lets an external proposer author new
tasks and moves each candidate through an audited lifecycle, *Stage 0* trains
and selects the first models on data that are opened once, and a *control loop*
drives the robot with chunks of actions inferred while it moves. State is kept in
plain files (durable writes, locks, write-once directories, hash-chained
journals) and in state machines that see the world one physics frame, one
control step or one late answer at a time. What is hard here is what those
files mean after a crash, a restart, a copy, or two processes that meet in them,
and what those machines make of an order of events nobody wrote a test for. That is
what this directory models, checks and proves; the learning and the physics are
not modelled.

Paths below are relative to `src/`; `flywheel/`, `tasking/`, `stage0/` and
`manifold/` stand for the directories of that name in `rexpolicy/`.

## 1. The system

### Components, their state and their operations

| component | state | operations | hard behaviour |
|---|---|---|---|
| Lifecycle store, `tasking/authoring_lifecycle_store.py` | a root directory (manifest, hash-chained journal, `head.json`), an external anchor, a flock per root | `initialize`, `load`, `append`, `recover_pending_tail`, anchor `compare_and_set` | three durable writes per append, a crash between any two, copied or rolled-back roots, two roots over one anchor |
| Candidate admission, `tasking/authoring_admission.py` | none; lifecycle events are values | `transition_candidate_lifecycle`, evidence and quality checks | order of states, which signatures a state needs |
| Authoring job, `tasking/authoring_job.py`, `authoring_quarantine.py` | a job directory: manifest, one directory per attempt (request, launch marker, completion), result; quarantine entries | `run_durable_automatic_authoring`, `write_authoring_quarantine`, `load_authoring_quarantine` | a paid external call that must not be repeated, crashes around it, two processes on one directory |
| Proposer run, `tasking/authoring_runner.py` | a process group, two pipes, two bounded buffers | `run_proposer`, `_read_bounded_process`, `_terminate` | a helper that outlives its leader, output after the limit, a deadline over reading but not over waiting |
| Authoring orchestration, `authoring_orchestrator.py`, `authoring_provider.py`, ... | none | build requests, validate answers | schemas, signatures |
| Curriculum, `tasking/curriculum.py` | a graph of prerequisites, statuses, slots of a schedule | search for cycles, classification in passes, scheduling by lanes | order of ids against order of prerequisites, floors and remainders |
| Task contracts, `tasking/contract.py`, `process*.py`, `expression.py`, ... | none | parse, compile and evaluate task records | data validation |
| Run loop, `tools/run_flywheel_ddp.py` | weights, optimizer, archive, last-good metrics in memory; `last_good.json` | `main`: launch, resume, generation loop | rejection, STOP and signals, crash between any two steps, rewinding to an older checkpoint |
| Episode collection, `_collect_episode` there, with `flywheel/event_ledger.py`, `experience.py`, `task_shadow.py` | parallel worlds, a task state, a ledger under construction | open a decision, step a chunk, select, replay in the canonical world, close | three judges of one physics, worlds held after their end, a replay that comes out otherwise |
| Collective checkpoint, `flywheel/checkpoint.py`, `distributed.py` | `.partial-generation-g`, `generation-g`, `latest.json` | `save` (all ranks, four barriers), `load`, `latest_checkpoint` | one rank fails or dies while the others go on; leftovers of an earlier launch |
| Run operations, `flywheel/operations.py` | `RUNNING.lock`, `STOP`, exit records, heartbeats, logs | acquire and close the lock, request and clear STOP, signal handlers | stale locks, two start-ups at once |
| Success archive, `flywheel/success_archive.py` | append-only shards, a replay cursor, quarantined records | `write_generation`, `commit_shard`, `plan`, `quarantine`, `state_dict` | two-phase shards of crashed launches, a cursor over a list that changes |
| Paired archives, derived views, `paired_archive.py`, `derived_views.py` | write-once files | publish and verify | order of publication |
| Trainer, `flywheel/trainer.py` | weights and optimizer | `build_update_schedule`, `update` | collectives matched by order alone; a rank with few samples, a loss that is not finite, an error on one rank |
| Promotion gate, `flywheel/evaluation.py` | last accepted metrics | `evaluate_non_regression` | what is tolerated once adds up |
| Success manifold, `manifold/memory.py`, `occupancy.py` | a FIFO of latents with a cursor; modes of successes | `add`, `sample`, `rebase`; `observe_success`, `merge`; `load_state_dict` of both | a cursor over a list that loses its head, modes that depend on the order of records, a merge refused in the middle |
| Stage 0 long run, `tools/run_stage0_long.py`, `stage0/long_run.py`, `stage0/checkpoint.py` | checkpoints with a cursor over four phases, a selection, a claim, a locked test, a report | train, stop, resume, select, claim, test | nothing locks the directory; pauses, torn files, what is not in a checkpoint |
| Validation cohort, `stage0/data/grasp_lift_validation_*.py`, `tools/run_stage0_grasp_lift_*` | claims in a registry, a cohort, outputs with a `status.json` | author once, open once | create, write and flush are three steps before the data are read; machines that go down |
| Grasp-lift task, `stage0/envs/grasp_lift_*.py`, rollout and pilot | latches of the oracle, phases of the controller, rows of a batch | evaluate, observe, keep rows | steps that see only what frames accumulated; a world driven on after its verdict |
| Transfer task, `rexpolicy/envs/groot_newton_env.py` | a phase and counters per world | one evaluation and one advance per frame, one announcement per step | contact that comes and goes, evaluation under the phase before |
| RTC control loop, `tools/run_newton_groot_rtc_control.py` | a chunk, a position in it, an inference under way, the chunks before it | ticks, requests, answers, closing | answers several ticks late, rows frozen before they are answered |
| Replay, audit, quality diversity, policies, environments, robots, teleoperation | arrays, simulator and network state | numerical | not of this kind |

### How they interact

`run_flywheel_ddp.main` runs on every rank. It takes the run lock through
`RunOperations` on rank zero, loads through `CheckpointManager`, holds one
`SuccessArchive` and one `LatentMemory` per rank, and in each generation collects
episodes (which step the environment, whose task decides success), updates the
weights through the trainer, asks the gate, and calls `CheckpointManager.save` on
all ranks at a generation boundary; decisions are reduced or broadcast so that
the ranks take the same branch. An operator talks to a run through files and
signals: `STOP`, SIGTERM, a new launch with `--resume-latest` or `--resume-from`.
The tasking pipeline runs on its own: the job calls the proposer and publishes
what it answers into quarantine; `transition_candidate_lifecycle` makes events that the lifecycle
store commits once they are signed. Stage 0 precedes both: its long run trains,
selects and tests in one directory; the validation cohort is authored by one tool and
opened by another, which meet in a registry of claims. The control loop is alone
with its inference thread.

### What makes them correct

* **Lifecycle store**: one history of events, whatever directories were copied;
  nothing uncommitted is shown; nothing committed is lost or shown stale; a crash
  never locks the store for good; each step was signed for exactly that step.
* **Checkpoint**: a directory that counts as complete is whole and from one launch;
  a number is committed once; success is reported only for one's own
  checkpoint; ranks fail together; leftovers do no harm.
* **Run loop**: rejected weights are never trained on; archive and metrics belong
  to the weights they are restored with; a crash loses a bounded number of
  generations; STOP is obeyed and leaves a checkpoint; a directory can always be resumed.
* **Collection**: it stops only where physics gave it a cause; the ledger, scored
  again later, says what happened; what is trained on as a success was one.
* **Run lock**: one owner; a stale lock never blocks a restart.
* **Success archive**: every checkpoint's archive can be loaded; a sample found bad is never
  replayed again; a resumed launch continues the round where the checkpoint left it; every success has its turn.
* **Trainer**: ranks that wait, wait in the same collective; they fail together; every sample counts once; the update ends.
* **Gate**: over any number of accepted generations the loss is what was tolerated, added up.
* **Curriculum**: exactly the cyclic graphs are refused; a unit opens on mastered foundations only; each lane goes round.
* **Memory and modes**: any checkpoint of them loads, to the same modes; every latent that stays has its turn.
* **Authoring job**: the proposer runs once per attempt; the budget counts across
  restarts; a finished job always gives the same answer; a restart continues.
* **Proposer run**: what is said of a run is so; its group does not outlive the call; the call ends by its deadline.
* **Stage 0**: resuming is exact; held-out data are settled by one claim, opened once, for what was claimed;
  what the files say of it is true; an undisturbed operator gets a decision.
* **Grasp-lift and transfer**: the verdict is the one the frames deserve, is announced, and is kept.
* **Control loop**: a row is executed at the tick it was inferred for; a new chunk joins the old; fast inference leaves no gap.

## 2. Modules

| module | what it is |
|---|---|
| `LifecycleLog` | abstract: one append-only log and readers that see growing prefixes |
| `LifecycleStore`, `LifecycleStoreProofs` | the store and its anchor, in detail, implementing `LifecycleLog`; its theorems |
| `LifecycleRecovery` | one root that is never copied, from the moment processes stop dying |
| `MCLifecycleStore` | TLC instance: two roots that may be copies |
| `CheckpointRegistry` | abstract: a write-once registry of whole checkpoints |
| `CheckpointSave`, `CheckpointSaveProofs` | the collective `save()` with launches, crashes and resumes around it, implementing `CheckpointRegistry`; its theorems |
| `FlywheelRun`, `FlywheelRunProofs` | all the launches of one run directory: generation loop, gate, cadence, STOP, resume; its theorems |
| `EpisodeCollection` | one rank's episode, with the task contract, the environment's judge, the ledger, and what is computed from it |
| `TransferTask` | the transfer of a bottle by physics frames |
| `GraspLift` | the lift of a bottle: environment, oracle, controller, the drivers' rows |
| `MCFlywheelRun`, `EpisodeProofs` | TLC instance: the loop, the collection, the two tasks; theorems about the collection and the tasks in its behaviours |
| `RunLock` | `RUNNING.lock` |
| `SuccessArchive` | one rank's archive of successes over all launches |
| `TrainerUpdate` | one synchronized update: schedules and collectives |
| `PromotionGate` | the gate over a whole run |
| `Curriculum` | cycles, classification and schedule |
| `RtcControl` | the control loop and its inference thread |
| `LatentMemory`, `SuccessOccupancy` | the memory of latents; the modes of successes |
| `MCParts`, `PartsProofs` | TLC instance of the components that are checked alone, and of one root of the store; theorems about each in its behaviours |
| `AuthoringChain` | abstract: one chain of attempts, each started once |
| `AuthoringJob`, `AuthoringJobProofs` | the durable authoring job and its quarantine, implementing `AuthoringChain`; its theorems |
| `ProposerRun` | one run of the proposer, its helper and its two pipes |
| `MCAuthoringJob` | TLC instance: the job with fairness, and the proposer's run; `AuthoringJobProofs` has theorems about both |
| `OneTimeTest` | abstract: a claim, one opening, a result that is of both |
| `Stage0LongRun` | launches of one Stage 0 long run, implementing `OneTimeTest` |
| `ValidationCohort` | authors and selectors of one validation cohort |
| `MCStage0`, `Stage0Proofs` | TLC instance: the long run, serial or overlapping, and the cohort; their theorems |
| `BasicFacts` | lemmas the theorems share: least and greatest naturals, quotients and remainders, sums over finite sets, joined sequences, folds of sequences as chains, dealing in turn |

`FlywheelRun` uses `save()` as one atomic step. That is what
`CheckpointSave` justifies: `ImplementsRegistry` says that a save, for all its
partial directories and barriers, adds one whole checkpoint at one moment or none.
Its `Update` and `Gate` choose their outcomes: `TrainerUpdate` shows that an update
ends alike on all ranks, `PromotionGate` what the gate lets through. Its `Collect` is
one step as well: a collection leaves nothing behind until it has finished, and its error is the
loop's `Fail`. `EpisodeCollection` knows a world by its verdict, which
`TransferTask` and `GraspLift` decide; `AuthoringJob` takes as one step the
run of the proposer that `ProposerRun` spells out. Where components share no state
an MC module puts them side by side, with a variable `part` that says which one moves in a behaviour.

### LifecycleStore

*State and code.* `manifest`, `journal`, `head` are the files of each root;
`anchor` is the anchor file; `lock` is flock; `pc`, `at`, `snap`, `entry` are
where a process is inside `append` or `recover_pending_tail`; `result` is
what was last returned to it; `issued` the signatures that exist. A fingerprint
determines the chain below it, so a head and the anchor *are* chains.

*Actions.* `append` is `BeginAppend` (`_load_locked`, the comparison of the head
the caller expects, transition and signature checks), `WriteJournal`,
`AnchorCas` or `AnchorCasStale`, `PublishHead`; recovery is `BeginRecover`,
`RecoverRead` (its second look at the anchor) and then the same two last steps.
`Interrupt` ends a process, or raises out of it, between any two steps. `load`
is one step: under the flock only the anchor is shared with other roots, and the call takes
effect when it reads it. `CopyRoot` and `RestoreRoot` are an operator with `cp -r`.

*Left out.* Atomic link/replace with fsync is one step. Edited bytes are not
modelled: hashes turn them into an error. Keys are given.

### CheckpointSave

*State and code.* `partial[g]` and `final[g]` are the two directories of a
generation; `pc[r]` is where rank r is inside `save`; content is abstracted to
the number of the launch that wrote it, which is what "own" and "whole" need. A barrier is one
step that releases all ranks. `initError` is the broadcast of rank zero's error;
the ranks read it after the first barrier. ERROR files are `errors` and `error`.
Each I/O step may fail (`PrepareFails`, `WriteRankFails`, `CommitFails`,
`PointFails`), and a rank may die anywhere (`Die`). A new launch starts when all
ranks are down: torchrun stops the others when one dies.

*Left out.* Tensors, RNG state, checksums of corrupted bytes.

### FlywheelRun

*State and code.* `ckpt[g]` is checkpoint generation-g with its weights, verdict,
last-good metrics, archive state and `max_generations`; `lastGoodFile` is
`last_good.json`; `pc` follows `main`. Weights are the sequence of launches that
trained them: two models are equal exactly when the same launches trained them.
A committed shard is the launch and generation that wrote it. Metrics are
identified with the model they were measured on.

*Actions.* `LaunchFresh`, `ResumeLatest`, `ResumeFrom` with the directory checks;
`ClearStop` once per rank; `Load` and `LoadRefused` (`validate_manifest_compatible`:
the target may grow, never shrink); `StopBefore`, `Collect`, `Update` (with
`commit_shard`), `Gate`, `Boundary`, `Save` or `SaveRefused`, `WriteLastGood`, `Verdict`;
`Fail` and `Kill` anywhere; `TouchStop` and `Signal` by the operator at any time.
`--save` is taken to be on. The other options in the manifest are part of the
compatibility check and so are the same in every launch.

*How much is lost.* `main` finishes a generation, evaluates it, and only then saves what is due. `BoundedLoss` therefore holds at every
label of a running launch and says at most `--checkpoint-every` finished generations, reached when a launch dies between the update and the
save of a generation that is due (or when such a one is rejected, so that its checkpoint does not count); otherwise fewer.

### RunLock

A process stands for rank zero of one launch. Steps are the system calls of
`_acquire_run_lock`: `Create` (O_EXCL), `Read`, `Probe` (same host and dead?),
`Unlink`, again `Create`, `Write`. A process writes to the file it opened, even
when its name is gone. Pids are not reused. `Remote` are the launches of another host that
shares the file system.

### AuthoringJob

*State and code.* `slot[o]` is the directory of attempt o: does it exist, its
request (the chain of attempts before it, whose fingerprint it contains), its
launch marker, its completion. `payload` and `described` are the two
stages of a quarantine entry. `manifest` and `result` are the job's other files, `lock` is
flock. A process has its own copy of the `chain` it has read, as the function has its
lists, and `got`, what its proposer run produced. `runs` counts the
proposer's runs and `lost` says where calls were cut short; nothing in the job reads either.

*Actions.* `Call` takes the lock. `Open` or `OpenDrifted` pins the manifest.
`Examine...` is the loop that reads the slots back, one slot per step, with its
refusals; then `MakeSlot`, `PublishRequest`, `CheckMark`, `PublishMark`, `Propose`,
`WritePayload`, `WriteDescriptor`, `PublishCompletion` for each attempt, and `PublishResult`.
`Interrupt` is death or an exception at any label. A proposer that fails or times out has answered:
the code makes an attempt of it like of an invalid candidate.

*Left out.* Files edited by hand (all such checks raise); the contents of requests and candidates.

### SuccessArchive

*State and code.* `disk` and `episodes` are the shards in the directories of all launches (a directory
has the attempt id in its name, a sample does not: two launches at one generation write equal
identities). `archive` is the running rank's `SuccessArchive`: committed shards, quarantine, cursor.
`todo` is the plan not yet replayed, `pending` the shard between `write_generation` and
`commit_shard`. `checkpoint[g]` keeps what `state_dict` puts there. Histories serve the properties alone: `past`,
the plans that led to this archive, which a checkpoint keeps and a resume takes back up; `base` and `followed`,
which plans were made right after which checkpoint.

*Actions.* `LaunchFresh`, `Resume` (`load_state_dict` with its checks), `Crash` anywhere, which also stands for
every exception; then `MakePlan`, `ReplayMatches` or `ReplayMismatch` for each chosen sample,
`WriteEpisodes`, `WriteShard`, `Commit`, and `Save` or `Pass`. A generation rejected by the gate is a `Save` followed by the end.

*What the fairness property says.* The cursor is a position in the list of eligible successes. When a success
that was just chosen is quarantined, the list closes the gap and the cursor is one too far: of 1, 2, 3, with 2 quarantined at its
turn, 1 is chosen again before 3. `FairButForQuarantine` says it is never worse than that: no more are passed over than were quarantined.

*Left out.* The other ranks (each has its own archive and sees only its own samples), what decides a mismatch,
checksums of edited files, and `plan_quality_balanced`, which the run loop does not call.

### EpisodeCollection

*State and code.* `env[w]` is the environment's own hold count and latches, `shadow[w]` the task state of
the contract that watches it, `rows[w]` the transitions of the open decision, `decisions` the ledger's closed ones.
`chosen`, `witness` and `nextRoot` are the continuation, its canonical replay and the root it leads to;
`samples` and `success` what is trained on. Physics is what a control step may do to a world:
bring it near the goal or not, touch something in passing or at the step's end.

*Actions.* `OpenDecision`, `ChunkStep` (all active worlds step, the three judges speak and are compared, worlds that are over
are held), `Select` (contacts are looked at again, the pool, the elite, the continuation), `Replay` in the canonical world,
`CloseDecision`, `Finish`. `RescoreRow` to `Segments` are what `materialize_reward_view` and the process labels
make of the ledger afterwards.

*Left out.* Scores (any candidate of the pool may be the best), identities, fingerprints, observations.

### TransferTask and GraspLift

*State and code.* `TransferTask` has the phase and counters of one bottle, as `_advance_transfer_phase` keeps them, and what
the last control step announced (`told`); `past` is history. `GraspLift` has what a control step accumulated (`frames`,
`palm`), the oracle's latches and streaks, the controller's phase and counters (`ctl`), the row kept of the world (`record`), and
`driver`, which of the two programs steps it; `story` is history.

*Actions.* `Frame` is one physics frame with any contacts and any place of the bottle; `EndStep`, or the last frame of a
`GraspLift` control step, is `_advance_episode`, or oracle, controller and driver in the order of the code; `Reset` and `End` finish.

*Left out.* Geometry, actions, reward terms but for the one that tells success; budgets of seeds; how rows become shards.

### TrainerUpdate

*State and code.* `pc`, `call` and `value` say where each rank is and what it brings to the collective it waits in;
`items`, `broken` are its samples; `exposed` counts a sample's windows, `applied` the optimizer steps; `cause` is why it raised.
A collective is matched by order and not by name, so that a rank with one window more pairs with somebody's
next call: `CollectivesMatch` says it does not happen.

*Actions.* `Local(r)` is everything rank r does between two collectives (counting, the schedule, forward and backward
of a microbatch, dummies, the optimizer step); `AllReduce` releases all who wait; `Killed` is torchrun, when one rank has failed and
another waits. *Left out.* Tensors; moving and saving optimizer state.

### PromotionGate and Curriculum

`PromotionGate` accepts, rejects or raises on any evaluation that `from_episodes` can produce, generation after
generation. `Curriculum` is the depth-first search of `_validate_task_graph` call by call (`VisitRoot`,
`VisitPrerequisite`, `Visited`), the passes of `assess_curriculum` unit by unit (`Qualify`, `NextPass`), and the
schedule without a seed (`Schedule`), for every graph of three units. In which order a lane's units take their turns is left open, but for that it depends on the units alone. *Left out.* The statistics that give a unit its own status, and the seeded draw.

### RtcControl

*State and code.* `time`, `next` and `tick` are the simulated clock; `control` is the chunk, the position in it, and what the
seeds are taken from; `future` and `worker` the inference under way. A row of a chunk is the inference it
comes from and its place in it, so that "the same row" can be told. `latency` bounds a run's inferences, in ticks.

*Actions.* `Frame` is one frame of the viewer, with the policy tick that falls on it: take an answer, skip what is past,
drop what is all past, ask again, execute a row. `Infer` is the worker, `CloseViewer` the user, `Close` the shutdown that waits for the worker.

*What was found out.* With frames that do not divide a period, a row is executed at the tick it was inferred for as long as a frame is at most half a
period. No tick idles when the answer comes within the rows that are left: latency plus the larger of latency and the
replan horizon at most the chunk. With a latency of the whole horizon every answer is all in the past, and the policy never moves: `LoopsEnd` excludes it.

### LatentMemory and SuccessOccupancy

`LatentMemory` has the entries in order of admission and the sampling cursor; `Add` with its eviction, `Sample`, `Rebase`.
`vetted` and `turn` are histories. The rank that evaluates draws no candidates from it, so that only collection moves the cursor. `SuccessOccupancy` has the records and the modes made
of them; `Merge` takes a batch in any order, and `Observe` one record, or refuses it and with it the rest. `Reloaded` is `load_state_dict`.
The run loop does not make an occupancy index yet: its clients are the optional exploration policy and the tests.
*Left out.* Vectors (a latent is an integer), densities, metrics, encoder fingerprints; which of equally near modes is taken (always the same one, by a hash).

### ProposerRun

*State and code.* The proposer is a leader, whose process group the caller may kill, and a helper that shares its pipes and may have left the group; `holds` are the
pipe ends each has, `pipe` the unread bytes, `kept` the buffers, `open` what the selector still watches, `ready` the events of
its last call. In a Bubblewrap command the leader is bwrap, which keeps both pipes, and its death ends everything.

*Actions.* `Select`, `TimeOut`, `ReadBytes`, `ReadEnd`, `Stop` (`_terminate`), `StartWait` and `Wait` are the caller;
`Interrupt` the `finally` clause after an exception or a signal; `Write`, `CloseEnd`, `Exit` the proposer, of which nothing is assumed;
`DeadlinePasses` is time. `poll` and `killpg` are one step.

*What was found out.* Past the deadline a plain command holds the caller as long as it likes if it has closed both pipes, because `process.wait()` has no
deadline; and if the leader has ended while a helper keeps a pipe open, `_terminate` returns at once and the helper lives on. Neither happens in a sandbox. The
properties state exactly these exceptions.

### Stage0LongRun and ValidationCohort

*State and code.* The files of the long run's output directory are variables (`checkpoint`, `selection`, `claim`,
`artifacts`, `report`, ...), `pc` and `mem` the launches. A model is the number of steps each phase gave it and how often the selector was
warm-started. Files made with O_EXCL and then written are `Torn` in between. `admitted` is which checkpoints pass the gates: any set.
`ValidationCohort` has the two claims (made, whole, durable), the cohort, the outputs with their `status.json`, and runs that author or select.

*Actions.* One for each step of the programs at which something is written or read; a launch may be stopped by its budget or a signal, paused after
training, killed (`Crash`), and a run of the cohort may raise anywhere, be killed, or go down with the machine (`PowerLoss`: what
is not flushed may be gone).

*What was found out.* Nothing locks an output directory, so that two launches may share it; the claim keeps the test from being opened twice all the same. A launch that dies
while it writes the selection or the claim leaves a torn file that every later one refuses (`Wedged`). `--collect-only --resume` puts the
status of a finished run's report back to that of its corpus.

*How much is lost.* A step is taken, evaluated, and then saved if it is due. `BoundedLoss` says at most `checkpoint_every_steps` steps for a launch
that dies at `due`, between the step and its checkpoint; fewer in the rest of the training; none once a launch has paused or is past it.

*Left out.* What training and evaluation compute, corpora, the contents of records, Git directories.

## 3. Runs

| run | asks | bounds |
|---|---|---|
| `lifecycle_fork` | is there one history, seen fresh, whatever is copied, rolled back or interrupted? does the store implement the log? | 2 processes, 2 roots, 2 manifests, 1 key of each kind, 2 authorities, 2 signatures: enough for the three-entry chains that two roots can disagree about |
| `checkpoint_save` | is every complete checkpoint whole and committed once; do ranks fail together; do leftovers do no harm? | 2 ranks, generations 0..2, 3 launches: a crash, a resume that meets the leftovers, and one more |
| `flywheel` | the loop: rejection, archive, last-good, bounded loss and STOP, with every way to restart; one line of training unless somebody rewinds. The collection of an episode, the transfer and the lift of a bottle: who says what of it, and is it true? | 3 launches, targets 2 and 3, checkpoint every 2, evaluate every 3: checkpoints by cadence, by evaluation, at the end and on STOP fall on different generations. 2 worlds, hold 2, three decisions of two steps, 1 rare event. Transfer: 2 frames per step, counts of 2, 6 steps. Lift: drop, hold and stable counts of 2, close in 1 to 4 steps, 11 steps: every count at least two that one frame could satisfy by accident, and a lost grip can be tried again |
| `flywheel_stop` | does a stopped run leave a checkpoint of what it completed? **violated** | as `flywheel` |
| `flywheel_rejected` | does a resumed run fail only for a reason of its own? **violated** | as `flywheel` |
| `collection_horizon` | does an outcome on the last control step count? **violated** | 2 worlds, hold 2, two decisions of two steps, 1 rare event |
| `authoring_job` | does the proposer run once per attempt, are answers final, what may refuse a call, is the directory one chain, is a job that is not stuck brought to its result? And one run of the proposer: is what is said of it so, and does it end? | 2 processes, 2 sets of inputs, 2 attempts, any interruptions; pipes of up to 3 bytes, of which 1 may be kept |
| `authoring_drift` | is drift reported only of changed inputs? **violated** | 2 processes, 2 sets of inputs, 3 attempts |
| `run_lock_race` | one owner, when start-ups overlap? **violated** | 4 launches on 2 hosts |
| `stage0` | is resuming exact, is the loss bounded wherever a launch dies, are held-out data opened once and for what was claimed, are the files true, is there a decision in the end? | phases of 1, 1, 3 and 1 steps, checkpoint every 2, 2 launches, one after the other with every set of admitted checkpoints or together with two; 2 authors, 2 selectors, 2 outputs, 2 choices |
| `stage0_spike` | do stable runs outrank isolated spikes? **violated** | 6 conditional steps, 1 launch |
| `parts` | the components that are alone: archive, lock, update, gate, curriculum, control loop, recovery of a store, memory, modes | archive: 2 launches of 4 generations with 0 or 2 successes each and 4 in all, 1 replay each; lock: 4 launches on 2 hosts, start-ups one after another; update: 2 ranks of up to 5 samples, 2 steps requested, accumulation 2; gate: 2 pairs of seeds, 3 accepted generations; curriculum: 3 units, 5 slots; control: chunks of 5, replan at 2, overlap 3, frozen 2, 6 steps, frame 2 of a period of 5, latencies of 2, 4 and 5 ticks; store: 1 root, 4 signatures; memory: 4 samples, 3 places, draws of 2; modes: 4 samples, 3 records, batches of 2 |

Every property of a passing run has been broken by a plausible defect in one mapped
definition; the defects are beside the definitions they alter (`..._NoBarrier` and so on).

Some properties are conjunctions, each part of which is stated and explained in the component's module:

| property | its parts |
|---|---|
| `StoreInv`, `SaveInv`, `JobInv`, `ArchiveInv` | the inductive invariants of the proofs, with what clients rely on among their conjuncts |
| `TrainingLine` | `RejectedNeverResumed`, `OneLine` |
| `PlansContinue` | `ResumeIsExact`, `FairButForQuarantine` (of the archive) |
| `RanksInStep` | `CollectivesMatch`, `FailsTogether`, `FailsOnlyForCause`, `CoversOnce` |
| `RootIsSound` | `NeverLockedOut`, `AuthorizedHistory` |
| `RecordIsTrue` | `SuccessIsOnTheLedger`, `SamplesMatchTheEpisode`, `RescoresAsRecorded`, `SegmentsAreRuns` |
| `TransferIsSound` | `TypeOK`, `VerdictIsDeserved`, `VerdictIsTold`, `PlacedLagsAtReleaseOnly` |
| `GraspIsSound` | `TypeOK`, `VerdictIsDeserved`, `LiftIsHeld`, `AttemptIsBounded`, `PhaseMatchesOutcome` |
| `CurriculumIsSound` | `RefusesCyclesOnly`, `OnMasteredFoundations`, `LanesGoRound` |
| `ControlIsSound` | `OnTime`, `Seamless`, `Gapless` |
| `LoopsEnd` | the update ends; the control loop does |
| `MemoryIsSound` | `Loads`, `Apart`, `GoesRound` |
| `OccupancyRestores` | `Restores`, `ModesAreTheirMembers` |
| `ProposerIsTrue` | `TypeOK`, `StatusIsTrue`, `NobodyIsLeft` (of the proposer's run) |
| `CallsEnd` | `ResumesToTheEnd` of the job, `ProposerEnds` |
| `ResumesWell` | `ResumeIsExact`, `BoundedLoss` (of the long run) |
| `FilesAreTrue` | `ReportIsOfTheTest`, `StatusIsHonest` |
| `OpenedOnce` | `AuthoredOnce`, `OpenedOnce` of the cohort |

**Deadlock** is not checked in the runs of finite histories (bounded launches): they stop.

**Fairness.** Where it is assumed, and why the code justifies it:

* `ResumesToTheEnd`: a process takes its next step, calls stop being cut short at some moment (`calm`), and one operator
  runs the job again with its inputs as long as it may have to be: documents leave resuming to the operator.
* `ProposerEnds`: the caller goes on and time passes; nothing of the proposer.
* `RecoveryCompletes`: a process takes its next step unless it dies, processes stop dying at some moment, and
  somebody runs recovery on a root that stays in need of it, as the store leaves recovery to an operator.
* `SerialDecided`: a launch takes its next step, from some moment on nothing interrupts it, and it is resumed when it has paused.
* `LoopsEnd`: a rank takes its next step, a collective in which all wait ends, torchrun kills the waiting when one has failed;
  frames go on, an inference ends within its latency, closing goes on.

### What the violated runs say

* `flywheel_stop`. STOP is read at the boundary of a generation and again at the
  loop head. A STOP that appears between the two ends the run at the loop head,
  where nothing is saved: unless the completed generation was due anyway, its work is lost.
  `roadmap/bootstrap_ddp.md:104` promises a checkpoint.
* `flywheel_rejected`. A rejected generation is checkpointed under its number and
  skipped by `--resume-latest`. The launch retrains from before it, reaches
  the number, and `save()` refuses to overwrite on every rank. No launch gets past it.
* `collection_horizon`. On the last control step the environment says truncated, even of a world that is over
  (`rexpolicy/envs/groot_newton_env.py:1749`); the task contract says it only of one that is not. The comparison of the two
  (`flywheel/task_shadow.py:232`) raises, so that a success on the last step ends the launch, where
  `tools/test_tasking_runtime.py:190` wants it to be a success.
* `authoring_drift`. An attempt's directory is made before its request is published. A process that
  dies between the two leaves a directory that every later call takes for tampering, though nothing was launched.
  `roadmap/automatic_task_authoring.md:49` says the same bundle and directory resume the chain.
* `run_lock_race`. Two contenders read the same stale lock; the second unlinks
  the file the first has just created. Both own the directory.
* `stage0_spike`. A run paused at conditional step 1 has the candidates 1, 2, 4 and 6. If 1, 4 and 6 pass the gates, the
  interval is 1, the smallest distance of two, so that 4 and 6 are no neighbours any more and step 1 may be chosen over them;
  `stage0/evaluation/checkpoint_selection.py:308` says stable runs outrank isolated spikes.

### What else the models say

Behaviours the properties had to make room for, which a reader of the code may not expect:

* *Gate.* A candidate is compared with the last accepted generation only: tolerated losses add up over a run, and any rise in
  successes excuses any distance (`LossIsBounded` is the bound that is left).
* *Collection.* It aborts for a contact in passing that the contract does not see, a contact of a success while it is held, a replay that comes out otherwise,
  and an outcome on the last step. After such a replay rescoring may refuse the ledger, since the witness replaces the signals of the last row alone.
* *Grasp-lift.* The phases' budgets allow 92 steps with the defaults, and `configs/stage0/grasp_lift_pilot.json:12` gives an episode 72: an attempt with many retries is
  cut short as "timeout". After the controller has given up the oracle may still see a success; the row kept says "timeout".
* *Transfer.* `is_obj_placed` is evaluated under the phase the frame began with: when a release is confirmed in the last frame of a control step,
  the dense reward of that step is that of a bottle that is not placed.

## 4. Proofs

All are checked by TLAPS for any values of the constants that satisfy the named
assumptions. `LifecycleAssumption`, `CheckpointAssumption`, `JobAssumption`, `ArchiveAssumption`, `RunAssumption`, `RecordAssumption` and
`LongRunAssumption` are assumed of the constants where they are declared; the other components' (`CohortAssumption`, `LockAssumption`, `GateAssumption`,
`MemoryAssumption`, `UpdateAssumption`, `CurriculumAssumption`, `TransferAssumption`, `GraspAssumption`, `CollectionAssumption`, `ControlAssumption`, `OccupancyAssumption`, `ProposerAssumption`, and `OneRoot` of the store) are hypotheses of
their theorems. They say that `None` is not a member of the sets it stands beside, that key sets are disjoint, that rank zero is a rank, that
counts are numbers and at least one, of a run that its targets have a largest, and of the modes that there are finitely many samples, in an order, and that latents can be measured. Four hypotheses say more: `OneRoot`, that a root is never copied (with copies
`RootIsSound` does not hold, and `lifecycle_fork` asks what does); `ControlAssumption`, that a frame takes at most half a period, rounded up, and an inference a tick at least (frames
longer than that execute rows a tick late); the hypothesis of the lock's theorems, that start-ups do not overlap (`run_lock_race` shows what happens if they do);
and that of `RecordHolds`, that a goal is held for at most `ChunkSteps` + 1 steps. The environment's default of 2 (`rexpolicy/envs/groot_newton_env.py:249`) is below that for every chunk length, but
contracts allow longer holds (`tasking/contract.py:139`), and of those `RecordIsTrue` does not hold: with 3 steps and chunks of 1 TLC finds that one inexact replay may put "not near" on the ledger for a
step that later replays, of the longer path, show as near; the success is then recorded with a step of its hold that says otherwise.

Where components stand side by side in an MC module, a theorem is about the behaviours in which its component moves: the invariant is `part = "x" => Inv`, and that `part`
never changes is the first fact of its proof.

* **LifecycleStoreProofs.** `StoreInv` is inductive and TLC checks it too. What the clients may rely
  on (`OnePendingEntry`, `CommittedReads`, `HeadNeverAhead`) is not inductive alone: a process in
  the middle of an append holds a chain it loaded a while ago, and a backup
  may come back. `BackupCommitted` says the copy is as good as a root;
  `Appending`, `Committing`, `Publishing` say what a process knows at each step. The
  crucial case is a compare-and-set: it succeeds only when the anchor is still what the journal extends,
  so every prefix fact about the old anchor holds of the new one. From it follow `AnchorExtends`, `FreshLoad`
  and the refinement of `LifecycleLog`. `HistoryIsAuthorized` adds `Authorized` (whatever chain is anywhere, in files or in hands, was signed entry by entry),
  `OneRootIsSound` adds `WithinReach`: with one root the journal is the anchor or one pending entry beyond it, and the head one behind at most, so that load or recovery accepts it.
* **CheckpointSaveProofs.** `SaveInv` groups the labels of `pc` into the stretches between barriers
  (`Aligned`): ranks are always in one stretch, so while one writes its state no
  other rank is deleting the directory. The other parts say what the directories hold in each stretch. From it follow
  ownership, orderly failure, cause of failure, `LatestIsAccepted` and the refinement of `CheckpointRegistry`.
* **FlywheelRunProofs.** The properties speak of weights and checkpoints only; that they hold depends on where in the loop a launch is,
  so `RunInv` adds `Position` (what each label knows), `Archives` and `LastGoods` (what memory and checkpoints keep belongs to their weights), `Stops` (what a STOP
  file has let through), `Anchored` (the running weights are at most `gen % CheckpointEvery` updates from a checkpoint, the cadence; between the update and the save
  this is known of the generation before only, which is one more),
  `Trainers` (whose launch number is in which model), `Rejected` (the last launch in a rejected candidate is older than the one that
  runs, so that no later model can contain it by accident), and `Line`. Theorems: `RunInvariant`, `TypeCorrect`, `OnlyAcceptedIsTrained`,
  `ArchiveFollowsModel`, `ComparedWithAncestor`, `LossIsBounded`, `StopIsObeyed`, for any cadence, any number of launches, any targets and any ranks.
* **AuthoringJobProofs.** `JobInv` says there is an n such that exactly the first n slots are completed, by the
  proposer runs 1..n; at most slot n+1 is launched, and without its marker its run has not happened (`Journal`);
  a process that has gone past reading has read all n, because only the lock's holder has read anything (`Reads`).
  The length n is named once and each step keeps it or, for a completion, adds one. From it follow
  `OncePerAttempt`, `AnswersAreFinal` and the refinement of `AuthoringChain`; `JobRunsAlone` says that they hold of the runs' composition too. `RefusalsHaveCauses` needs `CauseInv` beside it: a slot says what follows from the slots before it (`Follows`),
  and a directory without a request, or a launch without a completion, is either under somebody's hands or where a call was cut short (`Explained`). Every check that could
  refuse otherwise is then shown to pass. *Proposer:* `RunKnown` says of the processes that the dead hold nothing and a sandbox ends with its leader, of the bytes that below the limit what was written is
  kept or still in the pipe, and that a pipe is given up only when nobody holds it (`Bytes`): so an answer that counts is everything. A pipe that was readable in the last select still is when it is handled,
  whatever the proposer does in between. From it `ProposerIsTrue`.
* **Stage0Proofs.** `LongRunInv` says what each launch has in memory at each label, what each file is worth, torn ones included, and that launches that overlap agree, because
  training is a function of the steps done and because a claim is made once. Its part `Ready` also says how far each launch in training is from what it saved or loaded last, and that past training that is nothing; from it `ResumesWell` and the refinement of `OneTimeTest`. The cohort's invariant orders the
  claims, the cohort and the outputs: what is durable was whole, what is whole was made by the run that says so; a power loss takes only what was not flushed. From it `FilesAreTrue` and `OpenedOnce`.
* **EpisodeProofs.** *Transfer:* the verdict's history cannot be read off the phase alone, so `TransferTypes`, `BeforeTransferGrasp`, `InTheHand`, `LetGo` say what the counters of each
  phase have seen. *Lift:* `GraspKnown` says what the oracle's streaks have seen (`OracleHolds`), which rows are open (`OpenRows`), that the controller's count of held frames is the story's (`Holding`),
  and that retries spend a budget (`Budget`). *Collection:* `CollectionKnown` says of each world which of the three judges has spoken (`StillActive`, `IsOver`, `IsNoted`), and that the ledger and the path to the
  next root are what the rows say; the sequences of rows are joined decision by decision, which `BasicFacts` proves by hand.
  *Record:* `RecordKnown` says of the path that is open that it shows the streak of the contract, or that a replay has taken its last step off it (`RootRecorded`, of a world within its chunk `OnItsWay`). That is where
  the bound on holds is needed: the contract carries a streak over a replay that has cut the environment's, and if the goal stays near for a whole chunk, it sees a success before the environment does, at which the collection aborts. What is selected is clean (`SamplesRecorded`). The scores the code computes by folding are chains, one
  value per row and per decision, so that those of a path are those of its parts in turn; and segments are runs of one stage, or of the full length, that join to the candidate they were cut from.
* **PartsProofs.**
  *Archive:* that checkpoints load and that quarantine holds are not inductive alone. `ArchiveInv` adds
  what a launch has underway (`Underway`: a pending shard is on disk, with its episodes, and shares no sample
  with the archive; what is still to be replayed is in the archive), and says that the running archive, and every
  checkpointed one, belongs to the plans behind it (`Belongs`). A plan chooses among the eligible, so nothing in the quarantine; a commit adds a shard that is there and
  disjoint; a checkpoint and its plans are kept together; files only come. That the cursor stays a number needs
  that there are finitely many references (`ReferenceFinite`). `ResumedPlansAreExact` is the first part of `PlansContinue`, to which `PlansAlwaysContinue` adds the second: a plan takes the eligible that come next
  after the cursor, and whoever was chosen last waits behind those that were passed over since, except as many as have been quarantined in between (`Waits`). `TakesTurns` says so of the running launch and of every checkpoint.
  *Modes:* the index is always what comes of its records one by one (`IsGrowth`), and each mode is the sum and the count of its members, the first of which names it (`HoldsItsMembers`); records are kept in the canonical order, and sorting what
  goes up changes nothing (`SortedAlready`), so rebuilding from what was saved takes the same steps to the same index, in whatever batches it came.
  *Lock:* `LockInv` under serial start-ups: an owner's file stays, what a contender has read is still there, and the second round finds the name free.
  *Gate:* each accepted generation costs at most the tolerance, each rise gives at least one back, and the sum is what `LossIsBounded` says.
  *Memory:* `MemoryTypes`, `Apart`, and `WaitersComeFirst`: whoever waits longest is before the cursor's next turn, whatever is evicted.
  *Update:* `UpdateKnown` says where each rank is by the collective it waits in (`AtCall`), that the ranks have agreed on the numbers of the schedule (`Agreed`), fail alike (`FailsAs`) and are in step (`InStep`),
  and which samples the windows so far have covered (`CoversOnce`); a sum over ranks is one over a finite set.
  *Store:* `StoreStaysWithinReach` takes over the theorems of one root.
  *Curriculum:* `CurriculumKnown` says that the calls on the stack are a path (`SearchPath`), that what is visited is well founded (`Grounded`), and what a pass has settled (`PassKnown`); a cycle is a set of units none of which is first,
  and what a unit rests on is the least set closed under prerequisites. That lanes go round is a fact about remainders (`InTurn`).
  *Control:* `ControlKnown` says that time is on the tick that comes, that the chunk that is executed is the last that was pushed and is executed where the clock says (`ChunkFacts`), that a request carries the rows of that chunk (`Carries`), and
  how old a chunk may be before its successor is there (`Patience`); rounding elapsed time gives ticks because times that fall on ticks are less than half a period off.

The library's induction theorems take an operator as a parameter, which none of the provers can instantiate. Where a proof needs induction over numbers, sets or sequences, it goes by the least counterexample (`LeastNatural`), for the one function
at hand: so are sums, joined sequences, folds over sequences and the dealing in turn of `BasicFacts` obtained.

Only model-checked:

* `CallsEnd` (`ResumesToTheEnd` and `ProposerEnds`), `SerialDecided`, `LoopsEnd` and `RecoveryCompletes`: liveness under fairness, as ENABLED, is out of this prover's reach.

## 5. Not modelled, and the plan

The plan, most important first:

1. `PairedArchive` with derived views: the pair's three publications, and what reads them.
2. Quality diversity (the replacement rule of elites) and the graph of successes, as pure modules.
3. The seeded draw of a curriculum schedule; `plan_quality_balanced`.

Most lines of the repository will stay without a model, for the reasons PROJECT.json gives component by component: simulators, neural
networks, kinematics, retargeting and teleoperation compute with continuous values that have no faithful finite abstraction; readers and writers of records
check schemas and keep no state; asset importers and debug utilities run once; logs, heartbeats and GPU monitoring decide nothing.
