--------------------------- MODULE SuccessArchive ---------------------------
(***************************************************************************)
(* src/rexpolicy/flywheel/success_archive.py: one rank's archive of the    *)
(* successes it may replay, over all the launches of a run directory, with *)
(* the steps of the generation loop (tools/run_flywheel_ddp.py, main) that *)
(* touch it.                                                               *)
(*                                                                         *)
(* A generation's successes become a shard in the directory of the launch. *)
(* The shard is written before the update and committed after it; only     *)
(* committed shards are replayed.  Each generation replays a few eligible  *)
(* successes, starting at a cursor that the archive keeps; a success that  *)
(* does not replay as it was recorded is quarantined.  Checkpoints keep    *)
(* shards, quarantine and cursor; a launch that dies loses the rest.       *)
(*                                                                         *)
(* A reference is the place it has among the successes of its generation;  *)
(* the launch that collected it is not part of its identity (sample_id).   *)
(***************************************************************************)
EXTENDS Integers, FiniteSets, Sequences

CONSTANTS
    MaxGenerations,     \* --max-generations
    ReplayPerRank,      \* --success-replay-per-rank
    Successes,          \* bound: how many successes a generation may have
    MaxRetained,        \* bound: successes of an archive
    MaxLaunches,        \* bound: launches of the run directory
    None

Generations == 0 .. MaxGenerations

VARIABLES
    episodes,           \* <<launch, generation>>: episode shards on disk
    disk,               \* success shards on disk
    checkpoint,         \* checkpoint[g]: what generation g's checkpoint keeps, or None
    launches,           \* how many launches there were
    pc,                 \* where the launch is
    gen,                \* the generation it is at
    archive,            \* its archive: shards, quarantined, cursor
    todo,               \* planned references not yet replayed
    pending,            \* the generation's shard, written and not committed
    base,               \* history: the checkpoint its state is that of, or None
    past,               \* history: the plans behind this model, and what became of them
    followed            \* history: followed[g]: the plans made right after checkpoint g

memory == <<gen, archive, todo, pending, base, past>>
vars == <<episodes, disk, checkpoint, launches, pc, memory, followed>>

Shard == [launch : 1 .. MaxLaunches, generation : Generations,
          size : Successes \cap (1 .. MaxRetained)]

Reference == [generation : Generations, place : 1 .. MaxRetained]

(* state_dict(): what a checkpoint keeps. *)
State == [shards : SUBSET Shard, quarantined : SUBSET Reference, cursor : Nat]

Plan == [chosen : SUBSET Reference, eligible : SUBSET Reference, dropped : SUBSET Reference]

Checkpoint == [archive : State, past : Seq(Plan)]

ASSUME ArchiveAssumption ==
    /\ MaxGenerations \in Nat \ {0}
    /\ ReplayPerRank \in Nat
    /\ Successes \subseteq Nat /\ MaxRetained \in Nat /\ MaxLaunches \in Nat
    /\ None \notin Shard /\ None \notin Checkpoint /\ None \notin Generations

Empty == [shards |-> {}, quarantined |-> {}, cursor |-> 0]

Init ==
    /\ episodes = {}
    /\ disk = {}
    /\ checkpoint = [g \in Generations |-> None]
    /\ launches = 0
    /\ pc = "down"
    /\ gen = 0
    /\ archive = Empty
    /\ todo = {}
    /\ pending = None
    /\ base = None
    /\ past = << >>
    /\ followed = [g \in Generations |-> {}]

(* The references of a shard (_read_shard), and of all shards. *)
Read(shard) == [generation : {shard.generation}, place : 1 .. shard.size]

References(a) == UNION {Read(s) : s \in a.shards}

(* The key plan() sorts by. *)
Before(r, s) == \/ r.generation < s.generation
                \/ r.generation = s.generation /\ r.place < s.place

(* The place of r in that order, from zero. *)
Place(E, r) == Cardinality({s \in E : Before(s, r)})

(* What plan() may choose from for generation g. *)
Eligible(a, g) == {r \in References(a) : r.generation < g} \ a.quarantined

(* plan(): as many as there are, from the cursor on and around. *)
Planned(a, g) ==
    LET E == Eligible(a, g)
        n == Cardinality(E)
        count == IF ReplayPerRank < n THEN ReplayPerRank ELSE n
        start == a.cursor % n
    IN  IF n = 0 \/ ReplayPerRank = 0 THEN [chosen |-> {}, cursor |-> a.cursor]
        ELSE [chosen |-> {r \in E : (Place(E, r) + n - start) % n < count},
              cursor |-> (start + count) % n]

(* load_state_dict(): every shard is there, no sample is in two of them,   *)
(* every quarantined sample is known and every episode is there.           *)
Loads(a) ==
    /\ a.shards \subseteq disk
    /\ \A s, t \in a.shards : s # t => Read(s) \cap Read(t) = {}
    /\ a.quarantined \subseteq References(a)
    /\ \A s \in a.shards : <<s.launch, s.generation>> \in episodes

-----------------------------------------------------------------------------
(* The launches.                                                           *)

(* An empty archive, and the checkpoint of generation zero. *)
LaunchFresh ==
    /\ pc = "down" /\ launches = 0 /\ launches < MaxLaunches
    /\ launches' = 1
    /\ checkpoint' = [checkpoint EXCEPT ![0] = [archive |-> Empty, past |-> << >>]]
    /\ pc' = "plan"
    /\ gen' = 1
    /\ base' = 0
    /\ UNCHANGED <<episodes, disk, archive, todo, pending, past, followed>>

(* A plausible defect: the cursor is not restored. *)
Resume_NoCursor(g) ==
    /\ pc = "down" /\ launches < MaxLaunches
    /\ checkpoint[g] # None /\ g < MaxGenerations
    /\ Loads(checkpoint[g].archive)
    /\ launches' = launches + 1
    /\ archive' = [checkpoint[g].archive EXCEPT !.cursor = 0]
    /\ past' = checkpoint[g].past
    /\ gen' = g + 1
    /\ base' = g
    /\ pc' = "plan"
    /\ UNCHANGED <<episodes, disk, checkpoint, todo, pending, followed>>

(* --resume-from generation g, or --resume-latest. *)
Resume(g) ==
    /\ pc = "down" /\ launches < MaxLaunches
    /\ checkpoint[g] # None /\ g < MaxGenerations
    /\ Loads(checkpoint[g].archive)
    /\ launches' = launches + 1
    /\ archive' = checkpoint[g].archive
    /\ past' = checkpoint[g].past
    /\ gen' = g + 1
    /\ base' = g
    /\ pc' = "plan"
    /\ UNCHANGED <<episodes, disk, checkpoint, todo, pending, followed>>

(* The launch ends: at its target, in an error, killed. *)
Down ==
    /\ pc' = "down"
    /\ gen' = 0 /\ archive' = Empty /\ todo' = {} /\ pending' = None
    /\ base' = None /\ past' = << >>

Crash ==
    /\ pc # "down"
    /\ Down
    /\ UNCHANGED <<episodes, disk, checkpoint, launches, followed>>

-----------------------------------------------------------------------------
(* A generation.                                                           *)

MakePlan ==
    /\ pc = "plan"
    /\ LET p == Planned(archive, gen) IN
       /\ todo' = p.chosen
       /\ archive' = [archive EXCEPT !.cursor = p.cursor]
       /\ past' = Append(past, [chosen |-> p.chosen, eligible |-> Eligible(archive, gen),
                                dropped |-> {}])
       /\ followed' = IF base = None THEN followed
                      ELSE [followed EXCEPT ![base] = @ \cup {p.chosen}]
    /\ pc' = "replay"
    /\ base' = None
    /\ UNCHANGED <<episodes, disk, checkpoint, launches, gen, pending>>

(* admit_candidate_replay accepts. *)
ReplayMatches(r) ==
    /\ pc = "replay" /\ r \in todo
    /\ todo' = todo \ {r}
    /\ UNCHANGED <<episodes, disk, checkpoint, launches, pc, gen, archive, pending, base, past, followed>>

(* It does not: quarantine(). *)
ReplayMismatch(r) ==
    /\ pc = "replay" /\ r \in todo
    /\ todo' = todo \ {r}
    /\ archive' = [archive EXCEPT !.quarantined = @ \cup {r}]
    /\ past' = [past EXCEPT ![Len(past)].dropped = @ \cup {r}]
    /\ UNCHANGED <<episodes, disk, checkpoint, launches, pc, gen, pending, base, followed>>

(* write_generation_archive_pair: the episodes of this generation. *)
WriteEpisodes ==
    /\ pc = "replay" /\ todo = {}
    /\ episodes' = episodes \cup {<<launches, gen>>}
    /\ pc' = "write"
    /\ UNCHANGED <<disk, checkpoint, launches, memory, followed>>

(* write_generation: n successes, of which there may be none. *)
WriteShard(n) ==
    /\ pc = "write"
    /\ Cardinality(References(archive)) + n <= MaxRetained
    /\ IF n = 0 THEN /\ pending' = None
                     /\ UNCHANGED disk
       ELSE LET shard == [launch |-> launches, generation |-> gen, size |-> n] IN
            /\ Read(shard) \cap References(archive) = {}
            /\ pending' = shard
            /\ disk' = disk \cup {shard}
    /\ pc' = "update"
    /\ UNCHANGED <<episodes, checkpoint, launches, gen, archive, todo, base, past, followed>>

(* A plausible defect: whatever is on disk for the generation is committed.*)
Commit_Disk ==
    /\ pc = "update"
    /\ archive' = [archive EXCEPT !.shards = @ \cup {s \in disk : s.generation = gen}]
    /\ pending' = None
    /\ pc' = "boundary"
    /\ UNCHANGED <<episodes, disk, checkpoint, launches, gen, todo, base, past, followed>>

(* The update is done: commit_shard. *)
Commit ==
    /\ pc = "update"
    /\ archive' = [archive EXCEPT !.shards = @ \cup ({pending} \ {None})]
    /\ pending' = None
    /\ pc' = "boundary"
    /\ UNCHANGED <<episodes, disk, checkpoint, launches, gen, todo, base, past, followed>>

(* The next generation, or the end. *)
GoOn(from) ==
    IF gen < MaxGenerations
    THEN /\ pc' = "plan"
         /\ gen' = gen + 1
         /\ base' = from
         /\ UNCHANGED <<archive, todo, pending, past>>
    ELSE Down

(* No checkpoint is due. *)
Pass ==
    /\ pc = "boundary"
    /\ gen < MaxGenerations
    /\ GoOn(None)
    /\ UNCHANGED <<episodes, disk, checkpoint, launches, followed>>

(* A checkpoint is due; save() refuses to write over one. *)
Save ==
    /\ pc = "boundary"
    /\ IF checkpoint[gen] = None
       THEN /\ checkpoint' = [checkpoint EXCEPT ![gen] = [archive |-> archive, past |-> past]]
            /\ GoOn(gen)
       ELSE Down /\ UNCHANGED checkpoint
    /\ UNCHANGED <<episodes, disk, launches, followed>>

Next ==
    \/ LaunchFresh \/ Crash \/ MakePlan \/ WriteEpisodes \/ Commit \/ Pass \/ Save
    \/ \E g \in Generations : Resume(g)
    \/ \E r \in todo : ReplayMatches(r) \/ ReplayMismatch(r)
    \/ \E n \in Successes : WriteShard(n)

Spec == Init /\ [][Next]_vars

-----------------------------------------------------------------------------
(* Properties.                                                             *)

(* The plans behind the running launch, and behind each checkpoint. *)
Lines == {past} \cup {checkpoint[g].past : g \in {h \in Generations : checkpoint[h] # None}}

Archives == {archive} \cup
            {checkpoint[g].archive : g \in {h \in Generations : checkpoint[h] # None}}

TypeOK ==
    /\ episodes \subseteq (1 .. MaxLaunches) \X Generations
    /\ disk \subseteq Shard
    /\ checkpoint \in [Generations -> Checkpoint \cup {None}]
    /\ launches \in 0 .. MaxLaunches
    /\ pc \in {"down", "plan", "replay", "write", "update", "boundary"}
    /\ pc # "down" => launches > 0
    /\ gen \in Generations
    /\ archive \in State
    /\ todo \subseteq Reference
    /\ pending \in Shard \cup {None}
    /\ base \in Generations \cup {None}
    /\ past \in Seq(Plan)

(* What a launch has in its hands is on disk and not yet in its archive.   *)
Underway ==
    /\ todo # {} => pc = "replay" /\ todo \subseteq References(archive)
    /\ pc = "replay" => past # << >>
    /\ pc = "write" => <<launches, gen>> \in episodes
    /\ pending # None =>
          /\ pc = "update" /\ pending \in disk
          /\ <<pending.launch, pending.generation>> \in episodes
          /\ Read(pending) \cap References(archive) = {}

(* Every checkpoint can be loaded, whatever launches wrote, left pending   *)
(* or wrote again after it: a shard that a checkpoint names is there, with *)
(* its episodes, and a sample is in one of them only.                      *)
CheckpointsLoad == \A a \in Archives : Loads(a)

(* No plan of a line chooses what an earlier one found out to be bad. *)
NeverAgain(line) ==
    \A i, j \in 1 .. Len(line) : i < j => line[i].dropped \cap line[j].chosen = {}

(* A sample that was once found not to replay as recorded is never chosen  *)
(* again by what follows, over restarts as well                            *)
(* (test_quarantine_is_strict_restartable_and_v2_compatible).              *)
QuarantineHolds == \A line \in Lines : NeverAgain(line)

(* What a line of plans found out is in the archive that goes with it.     *)
Remembers(line, a) == \A i \in 1 .. Len(line) : line[i].dropped \subseteq a.quarantined

(* An archive that loads, and the line of plans it comes from. *)
Belongs(line, a) == Loads(a) /\ Remembers(line, a) /\ NeverAgain(line)

(* The type invariant, what a launch has underway, and that every archive  *)
(* there is belongs to the plans behind it: together, what makes           *)
(* CheckpointsLoad and QuarantineHolds inductive.                          *)
ArchiveInv ==
    /\ TypeOK
    /\ Underway
    /\ Belongs(past, archive)
    /\ \A g \in Generations :
          checkpoint[g] # None => Belongs(checkpoint[g].past, checkpoint[g].archive)

(* Resuming is exact (bootstrap_ddp.md:310): whether the launch that wrote *)
(* a checkpoint goes on from it or a later one resumes it, the next plan   *)
(* is the same.                                                            *)
ResumeIsExact == \A g \in Generations : Cardinality(followed[g]) <= 1

(* The samples that could be chosen from plan i to plan j and never were.  *)
PassedOver(line, i, j) ==
    {s \in line[i].eligible : \A k \in i .. j : s \in line[k].eligible \ line[k].chosen}

(* Between two choices of one sample every other has its turn, except as   *)
(* many as were quarantined in the meantime.                               *)
FairButForQuarantine ==
    \A line \in Lines : \A i, j \in 1 .. Len(line) :
        i < j /\ line[i].chosen \cap line[j].chosen # {} =>
            Cardinality(PassedOver(line, i, j)) <=
            Cardinality(UNION {line[k].dropped : k \in i .. j - 1})
=============================================================================
