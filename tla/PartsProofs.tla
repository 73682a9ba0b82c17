----------------------------- MODULE PartsProofs -----------------------------
(***************************************************************************)
(* Theorems about the components that are composed in MCParts, each in the *)
(* behaviours in which it is the one that moves: for any number of         *)
(* processes, ranks, units, records and steps.                             *)
(***************************************************************************)
EXTENDS MCParts, FiniteSetTheorems, SequenceTheorems, BasicFacts

-----------------------------------------------------------------------------
(* The archive of successes.                                               *)

(* There are finitely many references. *)
LEMMA ReferenceFinite == IsFiniteSet(Reference)
    <1> DEFINE S == Generations \X (1 .. MaxRetained)
               f == [x \in S |-> [generation |-> x[1], place |-> x[2]]]
    <1>1. IsFiniteSet(Generations) /\ IsFiniteSet(1 .. MaxRetained)
        BY ArchiveAssumption, FS_Interval DEF Generations
    <1>2. IsFiniteSet(S)
        BY <1>1, FS_Product
    <1>3. f \in Surjection(S, Reference)
        <2>1. f \in [S -> Reference]
            BY DEF Reference
        <2>2. ASSUME NEW r \in Reference PROVE \E x \in S : f[x] = r
            <3>1. <<r.generation, r.place>> \in S
                BY DEF Reference
            <3>2. f[<<r.generation, r.place>>] = r
                BY <3>1 DEF Reference
            <3> QED
                BY <3>1, <3>2
        <2> QED
            BY <2>1, <2>2 DEF Surjection
    <1> QED
        BY <1>2, <1>3, FS_Surjection

(* What a shard lists, and what an archive holds, are references. *)
LEMMA ReferencesType ==
    ASSUME NEW a \in State
    PROVE  /\ \A s \in a.shards : Read(s) \subseteq References(a)
           /\ References(a) \subseteq Reference
           /\ Cardinality(References(a)) \in Nat
    <1>1. \A s \in Shard : Read(s) \subseteq Reference
        BY ArchiveAssumption DEF Read, Shard, Reference
    <1>2. References(a) \subseteq Reference
        BY <1>1 DEF References, State
    <1>3. Cardinality(References(a)) \in Nat
        BY <1>2, ReferenceFinite, FS_Subset, FS_CardinalityType
    <1> QED
        BY <1>2, <1>3 DEF References

(* A plan chooses among the eligible, and leaves a cursor. *)
LEMMA PlannedType ==
    ASSUME NEW a \in State, NEW g \in Generations
    PROVE  /\ Eligible(a, g) \subseteq References(a) \ a.quarantined
           /\ Planned(a, g).chosen \subseteq Eligible(a, g)
           /\ Planned(a, g).cursor \in Nat
    <1> DEFINE E == Eligible(a, g)
               n == Cardinality(E)
               count == IF ReplayPerRank < n THEN ReplayPerRank ELSE n
    <1>1. E \subseteq References(a) \ a.quarantined
        BY DEF Eligible
    <1>2. n \in Nat
        BY <1>1, ReferencesType, ReferenceFinite, FS_Subset, FS_CardinalityType
    <1>3. count \in Nat
        BY <1>2, ArchiveAssumption
    <1>4. a.cursor \in Nat
        BY DEF State
    <1>5. n # 0 => ((a.cursor % n) + count) % n \in Nat
        <2> SUFFICES ASSUME n # 0 PROVE ((a.cursor % n) + count) % n \in Nat
            OBVIOUS
        <2> HIDE DEF n, count
        <2>1. a.cursor % n \in Nat
            BY <1>2, <1>4
        <2> QED
            BY <2>1, <1>2, <1>3
    <1>6. Planned(a, g).chosen \subseteq E
        BY DEF Planned
    <1>7. Planned(a, g).cursor \in Nat
        BY <1>4, <1>5 DEF Planned
    <1> QED
        BY <1>1, <1>6, <1>7

(* Files only come; an archive that loads keeps loading, and a step that   *)
(* touches neither archives nor plans keeps them together.                 *)
LEMMA KeptBelongings ==
    ASSUME ArchiveInv, disk \subseteq disk', episodes \subseteq episodes',
           checkpoint' = checkpoint
    PROVE  /\ \A g \in Generations : checkpoint'[g] # None =>
                  Belongs(checkpoint[g].past, checkpoint[g].archive)'
           /\ archive' = archive /\ past' = past => Belongs(past, archive)'
    <1>1. ASSUME NEW g \in Generations, checkpoint'[g] # None
          PROVE  Belongs(checkpoint[g].past, checkpoint[g].archive)'
        <2>1. Belongs(checkpoint[g].past, checkpoint[g].archive)
            BY <1>1 DEF ArchiveInv
        <2> QED
            BY <2>1 DEF Belongs, Loads, Remembers, NeverAgain
    <1>2. ASSUME archive' = archive, past' = past PROVE Belongs(past, archive)'
        <2>1. Belongs(past, archive)
            BY DEF ArchiveInv
        <2> QED
            BY <1>2, <2>1 DEF Belongs, Loads, Remembers, NeverAgain
    <1> QED
        BY <1>1, <1>2

(* The empty archive, and no plans. *)
LEMMA EmptyBelongs ==
    /\ Empty \in State /\ << >> \in Seq(Plan) /\ References(Empty) = {}
    /\ Belongs(<< >>, Empty)
    /\ [archive |-> Empty, past |-> << >>] \in Checkpoint
    <1>1. Empty \in State
        BY DEF Empty, State
    <1>2. << >> \in Seq(Plan)
        OBVIOUS
    <1>3. References(Empty) = {}
        BY DEF Empty, References
    <1>4. Belongs(<< >>, Empty)
        BY <1>3 DEF Belongs, Loads, Remembers, NeverAgain, Empty
    <1> QED
        BY <1>1, <1>2, <1>3, <1>4 DEF Checkpoint

(* A launch that ends leaves what is on disk. *)
LEMMA DownInv ==
    ASSUME ArchiveInv, Down, UNCHANGED <<episodes, disk, checkpoint, launches>>
    PROVE  ArchiveInv'
    <1>1. TypeOK'
        BY EmptyBelongs, ArchiveAssumption DEF ArchiveInv, TypeOK, Down, Generations
    <1>2. Underway'
        BY DEF Down, Underway
    <1>3. Belongs(past, archive)'
        BY EmptyBelongs DEF Down, Belongs, Loads, Remembers, NeverAgain, References, Empty
    <1> QED
        BY <1>1, <1>2, <1>3, KeptBelongings DEF ArchiveInv

(* A fresh launch begins with the empty archive and checkpoints it. *)
LEMMA LaunchFreshInv == ArchiveInv /\ LaunchFresh => ArchiveInv'
    <1> SUFFICES ASSUME ArchiveInv, LaunchFresh PROVE ArchiveInv'
        OBVIOUS
    <1> DEFINE c == [archive |-> Empty, past |-> << >>]
    <1>1. 0 \in Generations /\ 1 \in Generations
        BY ArchiveAssumption DEF Generations
    <1>2. checkpoint' = [checkpoint EXCEPT ![0] = c] /\ c \in Checkpoint
        BY EmptyBelongs DEF LaunchFresh
    <1>3. TypeOK'
        <2>1. checkpoint' \in [Generations -> Checkpoint \cup {None}]
            BY <1>1, <1>2 DEF ArchiveInv, TypeOK
        <2> QED
            BY <2>1, <1>1, ArchiveAssumption DEF ArchiveInv, TypeOK, LaunchFresh
    <1>4. Underway'
        BY DEF ArchiveInv, LaunchFresh, Underway, References
    <1>5. Belongs(past, archive)'
        BY DEF ArchiveInv, LaunchFresh, Belongs, Loads, Remembers, NeverAgain
    <1>6. ASSUME NEW g \in Generations, checkpoint'[g] # None
          PROVE  Belongs(checkpoint[g].past, checkpoint[g].archive)'
        <2>1. CASE g = 0
            <3>1. checkpoint'[g].past = << >> /\ checkpoint'[g].archive = Empty
                BY <2>1, <1>1, <1>2 DEF ArchiveInv, TypeOK
            <3> QED
                BY <3>1, EmptyBelongs DEF Belongs, Loads, Remembers, NeverAgain, References, Empty
        <2>2. CASE g # 0
            <3>1. checkpoint'[g] = checkpoint[g]
                BY <2>2, <1>2 DEF ArchiveInv, TypeOK
            <3>2. Belongs(checkpoint[g].past, checkpoint[g].archive)
                BY <3>1, <1>6 DEF ArchiveInv
            <3> QED
                BY <3>1, <3>2 DEF LaunchFresh, Belongs, Loads, Remembers, NeverAgain
        <2> QED
            BY <2>1, <2>2
    <1> QED
        BY <1>3, <1>4, <1>5, <1>6 DEF ArchiveInv

(* Resuming takes over the archive of a checkpoint and the plans behind it. *)
LEMMA ResumeInv == ASSUME ArchiveInv, NEW g \in Generations, Resume(g) PROVE ArchiveInv'
    <1>1. checkpoint[g] \in Checkpoint /\ g + 1 \in Generations /\ launches + 1 \in 0 .. MaxLaunches
        BY ArchiveAssumption DEF ArchiveInv, TypeOK, Resume, Generations
    <1>2. archive' \in State /\ past' \in Seq(Plan)
        BY <1>1 DEF Resume, Checkpoint
    <1>3. TypeOK'
        BY <1>1, <1>2 DEF ArchiveInv, TypeOK, Resume
    <1>4. Underway'
        BY DEF ArchiveInv, Resume, Underway
    <1>5. Belongs(checkpoint[g].past, checkpoint[g].archive)
        BY DEF ArchiveInv, Resume
    <1>6. Belongs(past, archive)'
        BY <1>5 DEF Resume, Belongs, Loads, Remembers, NeverAgain
    <1>7. \A h \in Generations : checkpoint'[h] # None =>
              Belongs(checkpoint[h].past, checkpoint[h].archive)'
        BY KeptBelongings DEF Resume
    <1> QED
        BY <1>3, <1>4, <1>6, <1>7 DEF ArchiveInv

(* A plan chooses what is eligible, and the archive remembers what it chose. *)
LEMMA MakePlanInv == ArchiveInv /\ MakePlan => ArchiveInv'
    <1> SUFFICES ASSUME ArchiveInv, MakePlan PROVE ArchiveInv'
        OBVIOUS
    <1> DEFINE p == Planned(archive, gen)
               E == Eligible(archive, gen)
               plan == [chosen |-> p.chosen, eligible |-> E, dropped |-> {}]
    <1>1. /\ archive \in State /\ gen \in Generations /\ past \in Seq(Plan)
          /\ Belongs(past, archive)
        BY DEF ArchiveInv, TypeOK
    <1>2. /\ E \subseteq References(archive) \ archive.quarantined
          /\ p.chosen \subseteq E /\ p.cursor \in Nat
          /\ References(archive) \subseteq Reference
        BY <1>1, PlannedType, ReferencesType
    <1> HIDE DEF p, E
    <1>3. /\ todo' = p.chosen /\ archive' = [archive EXCEPT !.cursor = p.cursor]
          /\ past' = Append(past, plan)
          /\ pc' = "replay" /\ base' = None
          /\ UNCHANGED <<episodes, disk, checkpoint, launches, gen, pending>>
        BY DEF MakePlan, p, E
    <1>4. plan \in Plan
        BY <1>2 DEF Plan
    <1>5. /\ archive' \in State
          /\ archive'.shards = archive.shards /\ archive'.quarantined = archive.quarantined
        BY <1>1, <1>2, <1>3 DEF State
    <1>6. /\ past' \in Seq(Plan) /\ Len(past') = Len(past) + 1
          /\ past'[Len(past) + 1] = plan
          /\ \A i \in 1 .. Len(past) : past'[i] = past[i]
        BY <1>1, <1>3, <1>4
    <1>7. References(archive)' = References(archive)
        BY <1>5 DEF References
    <1>8. TypeOK'
        BY <1>2, <1>3, <1>5, <1>6 DEF ArchiveInv, TypeOK, MakePlan
    <1>9. Underway'
        <2>1. todo' \subseteq References(archive)'
            BY <1>2, <1>3, <1>7
        <2>2. past' # << >>
            <3>1. Len(<< >>) = 0
                OBVIOUS
            <3>2. Len(past) + 1 # 0
                BY <1>1
            <3> QED
                BY <3>1, <3>2, <1>6
        <2>3. pending' = None
            BY <1>3 DEF ArchiveInv, Underway, MakePlan
        <2> QED
            BY <2>1, <2>2, <2>3, <1>3 DEF Underway
    <1>10. Belongs(past, archive)'
        <2>1. Loads(archive)'
            BY <1>1, <1>3, <1>5, <1>7 DEF Belongs, Loads
        <2>2. \A i \in 1 .. Len(past') : past'[i].dropped \subseteq archive.quarantined
            <3> SUFFICES ASSUME NEW i \in 1 .. Len(past')
                         PROVE  past'[i].dropped \subseteq archive.quarantined
                OBVIOUS
            <3>1. CASE i = Len(past) + 1
                BY <3>1, <1>6
            <3>2. CASE i # Len(past) + 1
                <4>1. i \in 1 .. Len(past)
                    BY <3>2, <1>1, <1>6
                <4> QED
                    BY <4>1, <1>1, <1>6 DEF Belongs, Remembers
            <3> QED
                BY <3>1, <3>2
        <2>3. \A i, j \in 1 .. Len(past') : i < j => past'[i].dropped \cap past'[j].chosen = {}
            <3> SUFFICES ASSUME NEW i \in 1 .. Len(past'), NEW j \in 1 .. Len(past'), i < j
                         PROVE  past'[i].dropped \cap past'[j].chosen = {}
                OBVIOUS
            <3>1. CASE j = Len(past) + 1
                <4>1. past'[j].chosen = p.chosen
                    BY <3>1, <1>6
                <4> QED
                    BY <4>1, <2>2, <1>2
            <3>2. CASE j # Len(past) + 1
                <4>1. i \in 1 .. Len(past) /\ j \in 1 .. Len(past)
                    BY <3>2, <1>1, <1>6
                <4> QED
                    BY <4>1, <1>1, <1>6 DEF Belongs, NeverAgain
            <3> QED
                BY <3>1, <3>2
        <2> QED
            BY <2>1, <2>2, <2>3, <1>5 DEF Belongs, Remembers, NeverAgain
    <1> QED
        BY <1>3, <1>8, <1>9, <1>10, KeptBelongings DEF ArchiveInv

(* A replay that matches changes nothing but what is left to replay. *)
LEMMA ReplayMatchesInv ==
    ASSUME ArchiveInv, NEW r \in todo, ReplayMatches(r) PROVE ArchiveInv'
    <1>1. TypeOK'
        BY DEF ArchiveInv, TypeOK, ReplayMatches
    <1>2. Underway'
        BY DEF ArchiveInv, Underway, ReplayMatches, References
    <1> QED
        BY <1>1, <1>2, KeptBelongings DEF ArchiveInv, ReplayMatches

(* A mismatch quarantines a sample of the last plan. *)
LEMMA ReplayMismatchInv ==
    ASSUME ArchiveInv, NEW r \in todo, ReplayMismatch(r) PROVE ArchiveInv'
    <1> DEFINE n == Len(past)
    <1>1. /\ archive \in State /\ past \in Seq(Plan) /\ Belongs(past, archive)
          /\ past # << >> /\ r \in References(archive) /\ r \in Reference
        BY DEF ArchiveInv, TypeOK, Underway, ReplayMismatch
    <1>2. n \in Nat /\ n > 0 /\ n \in 1 .. n
        BY <1>1
    <1>3. /\ archive' \in State /\ archive'.shards = archive.shards
          /\ archive'.quarantined = archive.quarantined \cup {r}
        BY <1>1 DEF ReplayMismatch, State
    <1>4. past[n] \in Plan
        BY <1>1, <1>2
    <1>5. PICK q \in Plan : q = [past[n] EXCEPT !.dropped = past[n].dropped \cup {r}]
        BY <1>1, <1>4 DEF Plan
    <1>6. q.chosen = past[n].chosen /\ q.dropped = past[n].dropped \cup {r}
        BY <1>4, <1>5 DEF Plan
    <1>7. past' = [past EXCEPT ![n] = q]
        BY <1>5 DEF ReplayMismatch
    <1>8. /\ past' \in Seq(Plan) /\ Len(past') = n /\ past'[n] = q
          /\ \A i \in 1 .. n : i # n => past'[i] = past[i]
        BY <1>1, <1>2, <1>7
    <1>9. References(archive)' = References(archive)
        BY <1>3 DEF References
    <1>10. TypeOK'
        BY <1>3, <1>8 DEF ArchiveInv, TypeOK, ReplayMismatch
    <1>11. Underway'
        <2>1. past' # << >>
            BY <1>2, <1>8
        <2> QED
            BY <2>1, <1>9 DEF ArchiveInv, Underway, ReplayMismatch
    <1>12. Belongs(past, archive)'
        <2>1. Loads(archive)'
            BY <1>1, <1>3, <1>9 DEF Belongs, Loads, ReplayMismatch
        <2>2. \A i \in 1 .. n : past'[i].dropped \subseteq archive'.quarantined
            BY <1>1, <1>2, <1>3, <1>6, <1>8 DEF Belongs, Remembers
        <2>3. \A i, j \in 1 .. n : i < j => past'[i].dropped \cap past'[j].chosen = {}
            <3> SUFFICES ASSUME NEW i \in 1 .. n, NEW j \in 1 .. n, i < j
                         PROVE  past'[i].dropped \cap past'[j].chosen = {}
                OBVIOUS
            <3>1. i # n
                BY <1>2
            <3>2. past'[i] = past[i] /\ past'[j].chosen = past[j].chosen
                BY <3>1, <1>6, <1>8
            <3>3. past[i].dropped \cap past[j].chosen = {}
                BY <1>1 DEF Belongs, NeverAgain
            <3> QED
                BY <3>2, <3>3
        <2> QED
            BY <2>1, <2>2, <2>3, <1>8 DEF Belongs, Remembers, NeverAgain
    <1> QED
        BY <1>10, <1>11, <1>12, KeptBelongings DEF ArchiveInv, ReplayMismatch

(* Publishing the episodes of a generation leaves the archive alone. *)
LEMMA WriteEpisodesInv == ArchiveInv /\ WriteEpisodes => ArchiveInv'
    <1> SUFFICES ASSUME ArchiveInv, WriteEpisodes PROVE ArchiveInv'
        OBVIOUS
    <1>1. /\ launches \in 1 .. MaxLaunches
          /\ episodes' = episodes \cup {<<launches, gen>>} /\ pc' = "write"
          /\ UNCHANGED <<disk, checkpoint, launches, gen, archive, todo, pending, base, past>>
        BY ArchiveAssumption DEF ArchiveInv, TypeOK, WriteEpisodes, memory
    <1>2. TypeOK'
        BY <1>1 DEF ArchiveInv, TypeOK
    <1>3. Underway'
        BY <1>1 DEF ArchiveInv, Underway, WriteEpisodes
    <1> QED
        BY <1>1, <1>2, <1>3, KeptBelongings DEF ArchiveInv

(* A shard written is pending: on disk, and not in the archive yet. *)
LEMMA WriteShardInv ==
    ASSUME ArchiveInv, NEW n \in Successes, WriteShard(n) PROVE ArchiveInv'
    <1> DEFINE shard == [launch |-> launches, generation |-> gen, size |-> n]
    <1>1. /\ pc = "write" /\ pc' = "update"
          /\ UNCHANGED <<episodes, checkpoint, launches, gen, archive, todo, base, past>>
        BY DEF WriteShard
    <1>2. CASE n = 0
        <2>1. pending' = None /\ disk' = disk
            BY <1>2 DEF WriteShard
        <2>2. TypeOK'
            BY <1>1, <2>1 DEF ArchiveInv, TypeOK
        <2>3. Underway'
            BY <1>1, <2>1 DEF ArchiveInv, Underway
        <2> QED
            BY <1>1, <2>1, <2>2, <2>3, KeptBelongings DEF ArchiveInv
    <1>3. CASE n # 0
        <2>1. /\ pending' = shard /\ disk' = disk \cup {shard}
              /\ Read(shard) \cap References(archive) = {}
            BY <1>3 DEF WriteShard
        <2>2. shard \in Shard
            <3>1. Cardinality(References(archive)) \in Nat
                BY ReferencesType DEF ArchiveInv, TypeOK
            <3>2. n \in 1 .. MaxRetained
                BY <3>1, <1>3, ArchiveAssumption DEF WriteShard
            <3>3. launches \in 1 .. MaxLaunches /\ gen \in Generations
                BY <1>1, ArchiveAssumption DEF ArchiveInv, TypeOK
            <3> QED
                BY <3>2, <3>3 DEF Shard
        <2>3. TypeOK'
            BY <1>1, <2>1, <2>2 DEF ArchiveInv, TypeOK
        <2>4. Underway'
            <3>1. <<launches, gen>> \in episodes
                BY <1>1 DEF ArchiveInv, Underway
            <3>2. /\ pending'.launch = launches /\ pending'.generation = gen
                  /\ Read(pending)' \cap References(archive)' = {}
                BY <1>1, <2>1 DEF Read, References
            <3> QED
                BY <3>1, <3>2, <1>1, <2>1 DEF ArchiveInv, Underway
        <2> QED
            BY <1>1, <2>1, <2>3, <2>4, KeptBelongings DEF ArchiveInv
    <1> QED
        BY <1>2, <1>3

(* A commit adds the pending shard, which is on disk, to the archive. *)
LEMMA CommitInv == ArchiveInv /\ Commit => ArchiveInv'
    <1> SUFFICES ASSUME ArchiveInv, Commit PROVE ArchiveInv'
        OBVIOUS
    <1> DEFINE new == {pending} \ {None}
    <1>1. /\ archive \in State /\ Belongs(past, archive) /\ new \subseteq Shard
        BY DEF ArchiveInv, TypeOK
    <1>2. /\ archive' \in State /\ archive'.shards = archive.shards \cup new
          /\ archive'.quarantined = archive.quarantined
        BY <1>1 DEF Commit, State
    <1>3. /\ pending' = None /\ pc' = "boundary"
          /\ UNCHANGED <<episodes, disk, checkpoint, launches, gen, todo, base, past>>
        BY DEF Commit
    <1>4. TypeOK'
        BY <1>2, <1>3 DEF ArchiveInv, TypeOK, Commit
    <1>5. Underway'
        BY <1>3 DEF ArchiveInv, Underway, Commit
    <1>6. \A s \in new : /\ s \in disk /\ <<s.launch, s.generation>> \in episodes
                         /\ Read(s) \cap References(archive) = {}
        BY DEF ArchiveInv, Underway
    <1>7. References(archive) \subseteq References(archive)'
        BY <1>2 DEF References
    <1>8. Loads(archive)'
        <2>1. archive'.shards \subseteq disk'
            BY <1>1, <1>2, <1>3, <1>6 DEF Belongs, Loads
        <2>2. \A s, t \in archive.shards \cup new : s # t => Read(s) \cap Read(t) = {}
            <3> SUFFICES ASSUME NEW s \in archive.shards \cup new,
                                NEW t \in archive.shards \cup new, s # t
                         PROVE  Read(s) \cap Read(t) = {}
                OBVIOUS
            <3>1. \A u \in archive.shards : Read(u) \subseteq References(archive)
                BY <1>1, ReferencesType
            <3>2. CASE s \in archive.shards /\ t \in archive.shards
                BY <3>2, <1>1 DEF Belongs, Loads
            <3>3. CASE s \in new /\ t \in archive.shards
                BY <3>1, <3>3, <1>6
            <3>4. CASE s \in archive.shards /\ t \in new
                BY <3>1, <3>4, <1>6
            <3> QED
                BY <3>2, <3>3, <3>4
        <2>3. \A s, t \in archive'.shards : s # t => Read(s)' \cap Read(t)' = {}
            BY <2>2, <1>2 DEF Read
        <2>4. archive'.quarantined \subseteq References(archive)'
            BY <1>1, <1>2, <1>7 DEF Belongs, Loads
        <2>5. \A s \in archive'.shards : <<s.launch, s.generation>> \in episodes'
            BY <1>1, <1>2, <1>3, <1>6 DEF Belongs, Loads
        <2> QED
            BY <2>1, <2>3, <2>4, <2>5 DEF Loads
    <1>9. Belongs(past, archive)'
        BY <1>1, <1>2, <1>3, <1>8 DEF Belongs, Remembers, NeverAgain
    <1> QED
        BY <1>3, <1>4, <1>5, <1>9, KeptBelongings DEF ArchiveInv

(* The next generation, with what this one left. *)
LEMMA GoOnInv ==
    ASSUME ArchiveInv, pc = "boundary", NEW from \in Generations \cup {None}, GoOn(from),
           UNCHANGED <<episodes, disk, launches>>,
           checkpoint' \in [Generations -> Checkpoint \cup {None}],
           \A g \in Generations : checkpoint'[g] # None =>
               Belongs(checkpoint[g].past, checkpoint[g].archive)'
    PROVE  ArchiveInv'
    <1>1. CASE gen < MaxGenerations
        <2>1. gen + 1 \in Generations
            BY <1>1, ArchiveAssumption DEF ArchiveInv, TypeOK, Generations
        <2>2. /\ pc' = "plan" /\ gen' = gen + 1 /\ base' = from
              /\ UNCHANGED <<archive, todo, pending, past>>
            BY <1>1 DEF GoOn
        <2>3. TypeOK'
            BY <2>1, <2>2 DEF ArchiveInv, TypeOK
        <2>4. Underway'
            BY <2>2 DEF ArchiveInv, Underway
        <2>5. Belongs(past, archive)'
            BY <2>2 DEF ArchiveInv, Belongs, Loads, Remembers, NeverAgain
        <2> QED
            BY <2>3, <2>4, <2>5 DEF ArchiveInv
    <1>2. CASE ~(gen < MaxGenerations)
        <2>1. Down
            BY <1>2 DEF GoOn
        <2>2. TypeOK'
            BY <2>1, EmptyBelongs, ArchiveAssumption DEF ArchiveInv, TypeOK, Down, Generations
        <2>3. Underway'
            BY <2>1 DEF Down, Underway
        <2>4. Belongs(past, archive)'
            BY <2>1, EmptyBelongs DEF Down, Belongs, Loads, Remembers, NeverAgain, References,
                                      Empty
        <2> QED
            BY <2>2, <2>3, <2>4 DEF ArchiveInv
    <1> QED
        BY <1>1, <1>2

(* Saving makes a checkpoint of the running archive, or ends the launch over an old one. *)
LEMMA SaveInv == ArchiveInv /\ Save => ArchiveInv'
    <1> SUFFICES ASSUME ArchiveInv, Save PROVE ArchiveInv'
        OBVIOUS
    <1> DEFINE c == [archive |-> archive, past |-> past]
    <1>1. CASE checkpoint[gen] = None
        <2>1. /\ checkpoint' = [checkpoint EXCEPT ![gen] = c] /\ GoOn(gen) /\ pc = "boundary"
              /\ UNCHANGED <<episodes, disk, launches>>
            BY <1>1 DEF Save
        <2>2. c \in Checkpoint /\ gen \in Generations
            BY DEF ArchiveInv, TypeOK, Checkpoint
        <2>3. checkpoint' \in [Generations -> Checkpoint \cup {None}]
            BY <2>1, <2>2 DEF ArchiveInv, TypeOK
        <2>4. ASSUME NEW g \in Generations, checkpoint'[g] # None
              PROVE  Belongs(checkpoint[g].past, checkpoint[g].archive)'
            <3>1. CASE g = gen
                <4>1. checkpoint'[g].past = past /\ checkpoint'[g].archive = archive
                    BY <3>1, <2>1, <2>2 DEF ArchiveInv, TypeOK
                <4> QED
                    BY <4>1, <2>1 DEF ArchiveInv, Belongs, Loads, Remembers, NeverAgain
            <3>2. CASE g # gen
                <4>1. checkpoint'[g] = checkpoint[g]
                    BY <3>2, <2>1 DEF ArchiveInv, TypeOK
                <4>2. Belongs(checkpoint[g].past, checkpoint[g].archive)
                    BY <4>1, <2>4 DEF ArchiveInv
                <4> QED
                    BY <4>1, <4>2, <2>1 DEF Belongs, Loads, Remembers, NeverAgain
            <3> QED
                BY <3>1, <3>2
        <2> QED
            BY <2>1, <2>2, <2>3, <2>4, GoOnInv
    <1>2. CASE checkpoint[gen] # None
        BY <1>2, DownInv DEF Save
    <1> QED
        BY <1>1, <1>2

(* A boundary without a checkpoint only moves on to the next generation. *)
LEMMA PassInv == ArchiveInv /\ Pass => ArchiveInv'
    <1> SUFFICES ASSUME ArchiveInv, Pass PROVE ArchiveInv'
        OBVIOUS
    <1>1. \A g \in Generations : checkpoint'[g] # None =>
              Belongs(checkpoint[g].past, checkpoint[g].archive)'
        BY KeptBelongings DEF Pass
    <1>2. checkpoint' \in [Generations -> Checkpoint \cup {None}]
        BY DEF ArchiveInv, TypeOK, Pass
    <1> QED
        BY <1>1, <1>2, GoOnInv DEF Pass

(* What is known of the archive holds at first. *)
LEMMA InitInv == Init => ArchiveInv
    <1> SUFFICES ASSUME Init PROVE ArchiveInv
        OBVIOUS
    <1>1. TypeOK
        BY EmptyBelongs, ArchiveAssumption DEF Init, TypeOK, Generations
    <1>2. Underway
        BY DEF Init, Underway
    <1> QED
        BY <1>1, <1>2, EmptyBelongs DEF Init, ArchiveInv

(* Every step of a launch, or its end, keeps archives and plans together.  *)
LEMMA ArchiveStep == ASSUME ArchiveInv, [Next]_vars PROVE ArchiveInv'
<1>1. CASE UNCHANGED vars
  <2>1. TypeOK'
    BY <1>1 DEF ArchiveInv, TypeOK, vars, memory
  <2>2. Underway'
    BY <1>1 DEF ArchiveInv, Underway, Read, References, vars, memory
  <2> QED
    BY <1>1, <2>1, <2>2, KeptBelongings DEF ArchiveInv, vars, memory
<1>2. CASE Crash
  BY <1>2, DownInv DEF Crash
<1>3. CASE LaunchFresh \/ MakePlan \/ WriteEpisodes \/ Commit \/ Pass \/ Save
  BY <1>3, LaunchFreshInv, MakePlanInv, WriteEpisodesInv, CommitInv, PassInv, SaveInv
<1>4. CASE \E g \in Generations : Resume(g)
  BY <1>4, ResumeInv
<1>5. CASE \E r \in todo : ReplayMatches(r) \/ ReplayMismatch(r)
  BY <1>5, ReplayMatchesInv, ReplayMismatchInv
<1>6. CASE \E n \in Successes : WriteShard(n)
  BY <1>6, WriteShardInv
<1> QED
  BY <1>1, <1>2, <1>3, <1>4, <1>5, <1>6 DEF Next

(* A step of the composition is one of the archive, or leaves it alone.    *)
LEMMA ArchiveMoves == [MCNext]_allVars => [Next]_vars
BY DEF MCNext, allVars

(* Types, what is underway, and that archives and plans belong together,   *)
(* at any time of any number of launches.                                  *)
THEOREM ArchiveInvariant == MCSpec => []ArchiveInv
<1>1. MCInit => ArchiveInv
  BY InitInv DEF MCInit
<1>2. ArchiveInv /\ [MCNext]_allVars => ArchiveInv'
  BY ArchiveStep, ArchiveMoves
<1> QED
  BY <1>1, <1>2, PTL DEF MCSpec

(* No launch can be turned away from a checkpoint by its archive: whatever *)
(* earlier launches left pending, what it names is there.                  *)
THEOREM AllCheckpointsLoad == MCSpec => []CheckpointsLoad
<1>1. ArchiveInv => CheckpointsLoad
  BY DEF ArchiveInv, Belongs, CheckpointsLoad, Archives
<1> QED
  BY <1>1, ArchiveInvariant, PTL

(* What was quarantined is not replayed by anything that follows from it.  *)
THEOREM QuarantineIsForever == MCSpec => []QuarantineHolds
<1>1. ArchiveInv => QuarantineHolds
  BY DEF ArchiveInv, Belongs, QuarantineHolds, Lines
<1> QED
  BY <1>1, ArchiveInvariant, PTL

(* Why a resume is exact: until it has made its first plan a launch is in  *)
(* the state of its checkpoint, and every plan made right after one is the *)
(* plan of what it keeps.                                                  *)
FollowsItsCheckpoint ==
    /\ launches = 0 => \A g \in Generations : checkpoint[g] = None
    /\ pc = "down" => archive = Empty
    /\ base # None =>
          /\ pc = "plan" /\ gen = base + 1
          /\ checkpoint[base] # None /\ archive = checkpoint[base].archive
    /\ followed \in [Generations -> SUBSET SUBSET Reference]
    /\ \A g \in Generations : \A chosen \in followed[g] :
          checkpoint[g] # None /\ chosen = Planned(checkpoint[g].archive, g + 1).chosen

(* It holds of an empty run directory.                                     *)
LEMMA FollowsFromTheStart == Init => FollowsItsCheckpoint
BY DEF Init, FollowsItsCheckpoint

(* Every step keeps it: a checkpoint is written once, and each plan that   *)
(* follows one is made from what it keeps.                                 *)
LEMMA FollowsStep ==
    ASSUME ArchiveInv, FollowsItsCheckpoint, [Next]_vars PROVE FollowsItsCheckpoint'
<1> USE ArchiveAssumption
<1>0. /\ checkpoint \in [Generations -> Checkpoint \cup {None}] /\ archive \in State
      /\ gen \in Generations /\ base \in Generations \cup {None} /\ past \in Seq(Plan)
      /\ 0 \in Generations /\ None \notin Checkpoint /\ launches \in Nat
      /\ pc # "down" => launches > 0
  BY DEF ArchiveInv, TypeOK, Generations
<1>1. CASE LaunchFresh
  <2>1. checkpoint' = [checkpoint EXCEPT ![0] = [archive |-> Empty, past |-> << >>]]
    BY <1>1 DEF LaunchFresh
  <2>2. archive = Empty /\ pc = "down"
    BY <1>1 DEF LaunchFresh, FollowsItsCheckpoint
  <2>3. base' = 0 /\ gen' = 1 /\ pc' = "plan" /\ archive' = Empty /\ launches' = 1
        /\ followed' = followed
    BY <1>1, <2>2 DEF LaunchFresh
  <2>4. checkpoint'[0] = [archive |-> Empty, past |-> << >>] /\ checkpoint'[0] # None
    BY <1>0, <2>1, EmptyBelongs
  <2>5. \A g \in Generations : followed[g] = {}
    BY <1>0, <1>1 DEF LaunchFresh, FollowsItsCheckpoint
  <2> QED
    BY <1>0, <2>3, <2>4, <2>5 DEF FollowsItsCheckpoint
<1>2. ASSUME NEW g \in Generations, Resume(g) PROVE FollowsItsCheckpoint'
  <2>1. /\ checkpoint[g] # None /\ UNCHANGED <<checkpoint, followed>>
        /\ launches' = launches + 1 /\ archive' = checkpoint[g].archive
        /\ gen' = g + 1 /\ base' = g /\ pc' = "plan"
    BY <1>2 DEF Resume
  <2> QED
    BY <1>0, <2>1 DEF FollowsItsCheckpoint
<1>3. CASE MakePlan
  <2> DEFINE p == Planned(archive, gen)
  <2>1. /\ pc = "plan" /\ pc' = "replay" /\ base' = None
        /\ UNCHANGED <<checkpoint, launches, gen>>
        /\ followed' = IF base = None THEN followed
                        ELSE [followed EXCEPT ![base] = @ \cup {p.chosen}]
    BY <1>3 DEF MakePlan
  <2>2. p.chosen \in SUBSET Reference
    BY <1>0, PlannedType, ReferencesType
  <2>3. base # None => p = Planned(checkpoint[base].archive, base + 1) /\ checkpoint[base] # None
    BY DEF FollowsItsCheckpoint
  <2> HIDE DEF p
  <2>4. \A g \in Generations : \A chosen \in followed'[g] :
           \/ chosen \in followed[g]
           \/ base # None /\ g = base /\ chosen = p.chosen
    BY <1>0, <2>1 DEF FollowsItsCheckpoint
  <2>5. followed' \in [Generations -> SUBSET SUBSET Reference]
    BY <1>0, <2>1, <2>2 DEF FollowsItsCheckpoint
  <2>6. launches # 0
    BY <1>0, <2>1
  <2>7. \A g \in Generations : \A chosen \in followed'[g] :
           checkpoint[g] # None /\ chosen = Planned(checkpoint[g].archive, g + 1).chosen
    BY <2>3, <2>4 DEF FollowsItsCheckpoint
  <2> QED
    BY <2>1, <2>5, <2>6, <2>7 DEF FollowsItsCheckpoint
<1>4. CASE Save
  <2>1. launches' = launches /\ followed' = followed /\ pc = "boundary" /\ launches # 0
    BY <1>0, <1>4 DEF Save
  <2>2. CASE checkpoint[gen] # None
    BY <1>0, <1>4, <2>1, <2>2 DEF Save, Down, FollowsItsCheckpoint
  <2>3. CASE checkpoint[gen] = None
    <3> DEFINE c == [archive |-> archive, past |-> past]
    <3>1. checkpoint' = [checkpoint EXCEPT ![gen] = c] /\ GoOn(gen) /\ c \in Checkpoint
      BY <1>0, <1>4, <2>3 DEF Save, Checkpoint
    <3>2. checkpoint'[gen] # None /\ checkpoint'[gen].archive = archive
          /\ \A g \in Generations : g # gen => checkpoint'[g] = checkpoint[g]
      BY <1>0, <3>1
    <3>3. \A g \in Generations : \A chosen \in followed'[g] :
             checkpoint'[g] # None /\ chosen = Planned(checkpoint'[g].archive, g + 1).chosen
      BY <2>1, <2>3, <3>2 DEF FollowsItsCheckpoint
    <3>4. CASE gen < MaxGenerations
      BY <1>0, <2>1, <3>1, <3>2, <3>3, <3>4 DEF GoOn, FollowsItsCheckpoint
    <3>5. CASE ~(gen < MaxGenerations)
      BY <1>0, <2>1, <3>1, <3>2, <3>3, <3>5 DEF GoOn, Down, FollowsItsCheckpoint
    <3> QED
      BY <3>4, <3>5
  <2> QED
    BY <2>2, <2>3
<1>5. CASE Crash \/ Pass \/ UNCHANGED vars
  BY <1>0, <1>5 DEF Crash, Down, Pass, GoOn, FollowsItsCheckpoint, vars, memory
<1>6. ASSUME \/ WriteEpisodes \/ Commit
             \/ \E r \in todo : ReplayMatches(r) \/ ReplayMismatch(r)
             \/ \E n \in Successes : WriteShard(n)
      PROVE  FollowsItsCheckpoint'
  <2>1. /\ UNCHANGED <<checkpoint, launches, base, followed>>
        /\ pc \notin {"down", "plan"} /\ pc' # "down"
    BY <1>6 DEF WriteEpisodes, Commit, ReplayMatches, ReplayMismatch, WriteShard, memory
  <2> QED
    BY <2>1 DEF FollowsItsCheckpoint
<1> QED
  BY <1>1, <1>2, <1>3, <1>4, <1>5, <1>6 DEF Next

(* Whether the launch that wrote a checkpoint goes on from it or a later   *)
(* one resumes it, the next plan is the same (bootstrap_ddp.md:310).       *)
THEOREM ResumedPlansAreExact == MCSpec => []ResumeIsExact
<1>1. MCInit => FollowsItsCheckpoint
  BY FollowsFromTheStart DEF MCInit
<1>2. ArchiveInv /\ FollowsItsCheckpoint /\ [MCNext]_allVars => FollowsItsCheckpoint'
  BY FollowsStep, ArchiveMoves
<1>3. FollowsItsCheckpoint => ResumeIsExact
  <2> SUFFICES ASSUME FollowsItsCheckpoint, NEW g \in Generations
               PROVE  Cardinality(followed[g]) <= 1
    BY DEF ResumeIsExact
  <2> DEFINE one == Planned(checkpoint[g].archive, g + 1).chosen
  <2>1. followed[g] = {} \/ followed[g] = {one}
    BY DEF FollowsItsCheckpoint
  <2> HIDE DEF one
  <2>2. Cardinality({}) = 0 /\ Cardinality({one}) = 1
    BY FS_EmptySet, FS_Singleton
  <2> QED
    BY <2>1, <2>2
<1> QED
  BY <1>1, <1>2, <1>3, ArchiveInvariant, PTL DEF MCSpec

(* The turns that the plans of a line take.                                *)

(* The order of references tells any two of them apart, and places follow  *)
(* it.                                                                     *)
LEMMA PlacesFollowTheOrder ==
    ASSUME NEW S, S \subseteq Reference
    PROVE  /\ IsFiniteSet(S)
           /\ IsPlacing([r \in S |-> Place(S, r)], S)
           /\ \A x, y \in S : Before(y, x) <=> Place(S, y) < Place(S, x)
<1> DEFINE Under(x) == {s \in S : Before(s, x)}
<1>1. \A r \in Reference : r.generation \in Nat /\ r.place \in Nat
  BY ArchiveAssumption DEF Reference, Generations
<1>2. /\ \A r \in Reference : ~Before(r, r)
      /\ \A r, s, t \in Reference : Before(r, s) /\ Before(s, t) => Before(r, t)
  BY <1>1 DEF Before
<1>3. \A r, s \in Reference : r = s \/ Before(r, s) \/ Before(s, r)
  <2> SUFFICES ASSUME NEW r \in Reference, NEW s \in Reference, ~Before(r, s), ~Before(s, r)
               PROVE  r = s
    OBVIOUS
  <2>1. r.generation = s.generation /\ r.place = s.place
    BY <1>1 DEF Before
  <2> QED BY <2>1 DEF Reference
<1>4. IsFiniteSet(S)
  BY ReferenceFinite, FS_Subset
<1>5. \A x \in S : IsFiniteSet(Under(x)) /\ Place(S, x) = Cardinality(Under(x)) /\ Place(S, x) \in Nat
  BY <1>4, FS_Subset, FS_CardinalityType DEF Place
<1>5a. \A x \in S : Place(S, x) \in Nat
  BY <1>5
<1>6. ASSUME NEW x \in S PROVE Place(S, x) < Cardinality(S)
  <2>1. Under(x) \in SUBSET S /\ x \notin Under(x)
    BY <1>2
  <2>2. Place(S, x) <= Cardinality(S) /\ Place(S, x) # Cardinality(S)
    <3> HIDE DEF Under
    <3>1. /\ Cardinality(Under(x)) <= Cardinality(S)
          /\ Cardinality(S) = Cardinality(Under(x)) => S = Under(x)
      BY <1>4, <2>1, FS_Subset
    <3> QED BY <1>5, <2>1, <3>1
  <2>3. Cardinality(S) \in Nat /\ Place(S, x) \in Nat
    BY <1>4, <1>5, FS_CardinalityType
  <2> QED BY <2>2, <2>3
<1>7. ASSUME NEW x \in S, NEW y \in S, Before(y, x) PROVE Place(S, y) < Place(S, x)
  <2>1. Under(y) \in SUBSET Under(x) /\ y \in Under(x) /\ y \notin Under(y)
    BY <1>2, <1>7
  <2>2. Place(S, y) <= Place(S, x) /\ Place(S, y) # Place(S, x)
    <3> HIDE DEF Under
    <3>1. /\ Cardinality(Under(y)) <= Cardinality(Under(x))
          /\ Cardinality(Under(x)) = Cardinality(Under(y)) => Under(x) = Under(y)
      BY <1>5, <2>1, FS_Subset
    <3> QED BY <1>5, <2>1, <3>1
  <2>3. Place(S, y) \in Nat /\ Place(S, x) \in Nat
    BY <1>5
  <2> QED BY <2>2, <2>3
<1>8. \A x, y \in S : Before(y, x) <=> Place(S, y) < Place(S, x)
  <2> SUFFICES ASSUME NEW x \in S, NEW y \in S, Place(S, y) < Place(S, x) PROVE Before(y, x)
    BY <1>7
  <2>1. Place(S, y) \in Nat /\ Place(S, x) \in Nat /\ Place(S, x) # Place(S, y)
    BY <1>5a
  <2>2. x # y /\ ~Before(x, y)
    BY <1>7, <2>1
  <2> QED BY <1>3, <2>2
<1>9. IsPlacing([r \in S |-> Place(S, r)], S)
  <2>1. \A x \in S : Place(S, x) \in 0 .. Cardinality(S) - 1
    <3>1. Cardinality(S) \in Nat
      BY <1>4, FS_CardinalityType
    <3> QED BY <1>5a, <1>6, <3>1
  <2>2. ASSUME NEW x \in S, NEW y \in S, Place(S, x) = Place(S, y) PROVE x = y
    <3>1. Place(S, y) \in Nat /\ Place(S, x) \in Nat
      BY <1>5
    <3>2. ~Before(x, y) /\ ~Before(y, x)
      BY <1>7, <2>2, <3>1
    <3> QED BY <1>3, <3>2
  <2> QED BY <2>1, <2>2 DEF IsPlacing
<1> QED BY <1>4, <1>8, <1>9

(* How far a reference is from the cursor, among those of S.               *)
Seen(S, c, r) == Away(Place(S, r), c, Cardinality(S))

(* What p takes of F is nearest to the cursor, and what it leaves is       *)
(* nearest to the cursor that it leaves.                                   *)
TakesTheNearest(F, c, p) ==
    /\ p.cursor \in 0 .. Cardinality(F) - 1
    /\ \A r \in F : /\ Seen(F, c, r) \in 0 .. Cardinality(F) - 1
                    /\ Seen(F, p.cursor, r) \in 0 .. Cardinality(F) - 1
    /\ \E k \in 0 .. Cardinality(F) :
          /\ p.chosen = {r \in F : Seen(F, c, r) < k}
          /\ \A r \in F \ p.chosen : /\ Seen(F, c, r) >= k
                                     /\ Seen(F, p.cursor, r) = Seen(F, c, r) - k
          /\ \A r \in p.chosen : Seen(F, p.cursor, r) >= Cardinality(F) - k

(* A plan does, and brings the cursor to the first that it did not take.   *)
LEMMA PlanTakesTheNearest ==
    ASSUME NEW a \in State, NEW g \in Generations,
           ReplayPerRank # 0, Eligible(a, g) # {}
    PROVE  TakesTheNearest(Eligible(a, g), a.cursor, Planned(a, g))
<1> DEFINE F == Eligible(a, g)
           p == Planned(a, g)
           n == Cardinality(F)
           k == IF ReplayPerRank < n THEN ReplayPerRank ELSE n
           start == a.cursor % n
<1>1. F \subseteq Reference
  BY PlannedType, ReferencesType
<1>2. n \in Nat \ {0}
  BY <1>1, PlacesFollowTheOrder, FS_CardinalityType, FS_EmptySet
<1>3. k \in 0 .. n /\ k \in Nat
  BY <1>2, ArchiveAssumption
<1>4. p = [chosen |-> {r \in F : (Place(F, r) + n - start) % n < k}, cursor |-> (start + k) % n]
  BY <1>2 DEF Planned
<1>5. a.cursor \in Nat
  BY DEF State
<1>6. p.chosen = {r \in F : Seen(F, a.cursor, r) < k}
  BY <1>4 DEF Seen, Away
<1>7. p.cursor = (a.cursor + k) % n /\ p.cursor \in 0 .. n - 1
  <2>1. p.cursor = (start + k) % n
    BY <1>4
  <2> DEFINE c == a.cursor
             h == c + k
  <2>2. c \in Nat /\ h \in Nat
    BY <1>3, <1>5
  <2>3. (start + k) % n = h % n
    <3> HIDE DEF n, k
    <3> QED BY <1>2, <1>3, <1>5, RoundAgain
  <2>4. h % n \in 0 .. n - 1
    <3> HIDE DEF h, n
    <3> QED BY <1>2, <2>2, RemainderSucc
  <2> QED BY <2>1, <2>3, <2>4
<1>8. ASSUME NEW r \in F
      PROVE  /\ Place(F, r) \in 0 .. n - 1
             /\ Seen(F, a.cursor, r) \in 0 .. n - 1
             /\ Seen(F, p.cursor, r) = Away(Place(F, r), a.cursor + k, n)
             /\ Seen(F, p.cursor, r) \in 0 .. n - 1
  <2>1. Place(F, r) \in 0 .. n - 1
    <3>1. IsPlacing([x \in F |-> Place(F, x)], F)
      BY <1>1, PlacesFollowTheOrder
    <3> HIDE DEF F
    <3>2. [x \in F |-> Place(F, x)][r] \in 0 .. n - 1
      BY <3>1 DEF IsPlacing
    <3> QED BY <3>2
  <2>2. p.cursor % n = (a.cursor + k) % n
    <3> HIDE DEF n, k, p
    <3> QED BY <1>2, <1>7, Within
  <2> DEFINE c == p.cursor
  <2>3. Seen(F, a.cursor, r) \in 0 .. n - 1 /\ Seen(F, c, r) \in 0 .. n - 1
    <3>1. c \in Nat
      BY <1>2, <1>7
    <3> HIDE DEF c, F
    <3> QED BY <1>2, <1>5, <2>1, <3>1, AwayFacts DEF Seen
  <2> QED BY <2>1, <2>2, <2>3 DEF Seen, Away
<1>9. ASSUME NEW r \in F \ p.chosen
      PROVE  /\ Seen(F, a.cursor, r) >= k
             /\ Seen(F, p.cursor, r) = Seen(F, a.cursor, r) - k
  <2>1. Seen(F, a.cursor, r) >= k
    BY <1>2, <1>3, <1>6, <1>8
  <2> HIDE DEF k, p, F
  <2>2. Away(Place(F, r), a.cursor + k, n) = Seen(F, a.cursor, r) - k
    BY <1>2, <1>3, <1>5, <1>8, <2>1, GoesOn DEF Seen
  <2> QED BY <1>8, <2>1, <2>2
<1>10. ASSUME NEW r \in p.chosen PROVE Seen(F, p.cursor, r) >= n - k
  <2>1. r \in F /\ Seen(F, a.cursor, r) < k /\ k <= n
    BY <1>3, <1>6
  <2> HIDE DEF k, p, F
  <2>2. Away(Place(F, r), a.cursor + k, n) = Seen(F, a.cursor, r) + n - k
    BY <1>2, <1>3, <1>5, <1>8, <2>1, GoesOn DEF Seen
  <2> QED BY <1>2, <1>3, <1>8, <2>1, <2>2
<1> HIDE DEF k, p, F
<1>11. TakesTheNearest(F, a.cursor, p)
  BY <1>3, <1>6, <1>7, <1>8, <1>9, <1>10 DEF TakesTheNearest
<1> QED BY <1>11 DEF p, F

(* What was dropped by the plans from i on, before plan j.                 *)
Lapsed(line, i, j) == UNION {line[k].dropped : k \in i .. j - 1}

(* Those that were passed over since plan i, and come after r again.       *)
Behind(line, c, i, r) ==
    LET E == line[Len(line)].eligible
    IN  {s \in PassedOver(line, i, Len(line)) : ~(Seen(E, c, s) < Seen(E, c, r))}

(* No two plans of a line are unfair to each other.                        *)
IsFair(line) ==
    \A i, j \in 1 .. Len(line) :
        i < j /\ line[i].chosen \cap line[j].chosen # {} =>
            Cardinality(PassedOver(line, i, j)) <= Cardinality(Lapsed(line, i, j))

(* The plans of a line are those of the generations in order.              *)
IsInOrder(line) ==
    \A k \in 1 .. Len(line) :
        /\ line[k].dropped \subseteq line[k].chosen
        /\ line[k].chosen \subseteq line[k].eligible
        /\ line[k].chosen # {} => ReplayPerRank # 0
        /\ \A r \in line[k].eligible : r.generation < k

(* Who was chosen by plan i, and not again, still waits for those that     *)
(* were passed over since, except for as many as were dropped.             *)
Waits(line, c) ==
    LET m == Len(line)
    IN  \A i \in 1 .. m : \A r \in line[i].chosen \cap line[m].eligible :
           (\A k \in i + 1 .. m : r \notin line[k].chosen) =>
              Cardinality(Behind(line, c, i, r)) <= Cardinality(Lapsed(line, i, m))

(* An archive is where its last plan left it, but for what was dropped.    *)
InTurns(line, a) ==
    /\ IsInOrder(line)
    /\ IsFair(line)
    /\ line # << >> =>
          LET m == Len(line)
              E == line[m].eligible
          IN  /\ Eligible(a, m) = E \ line[m].dropped
              /\ ReplayPerRank # 0 /\ E # {} => a.cursor < Cardinality(E)
              /\ Waits(line, a.cursor)

(* When the next plan is made, at most as many as were dropped since plan  *)
(* i are after r among those it passed over.                               *)
LEMMA FewComeBehind ==
    ASSUME NEW a \in State, NEW line \in Seq(Plan), line # << >>,
           Len(line) + 1 \in Generations,
           InTurns(line, a), NeverAgain(line),
           NEW i \in 1 .. Len(line), NEW r \in line[i].chosen,
           r \in Eligible(a, Len(line) + 1),
           \A k \in i + 1 .. Len(line) : r \notin line[k].chosen
    PROVE  LET F == Eligible(a, Len(line) + 1)
           IN  Cardinality({s \in PassedOver(line, i, Len(line)) \cap F :
                              ~(Seen(F, a.cursor, s) < Seen(F, a.cursor, r))})
               <= Cardinality(Lapsed(line, i, Len(line) + 1))
<1> DEFINE m == Len(line)
           E == line[m].eligible
           D == line[m].dropped
           F == Eligible(a, m + 1)
           c == a.cursor
           X == {s \in PassedOver(line, i, m) \cap F : ~(Seen(F, c, s) < Seen(F, c, r))}
           Overtaken == {s \in E \cap F : /\ Seen(E, c, s) < Seen(E, c, r)
                                        /\ ~(Seen(F, c, s) < Seen(F, c, r))}
<1>1. m \in Nat \ {0} /\ m \in 1 .. m /\ line[m] \in Plan /\ i <= m
  BY EmptySeq, LenProperties
<1>2. /\ E \subseteq Reference /\ F \subseteq Reference /\ D \subseteq E
      /\ Eligible(a, m) = E \ D
  <2>1. F \subseteq Reference
    BY PlannedType, ReferencesType
  <2> QED BY <1>1, <2>1 DEF Plan, InTurns, IsInOrder
<1>3. /\ \A s \in Eligible(a, m) : s \in F
      /\ \A s \in F : s.generation < m => s \in Eligible(a, m)
      /\ \A s \in F : s \notin Eligible(a, m) => ~(s.generation < m)
      /\ \A s \in Eligible(a, m) : s.generation < m
  <2>1. \A s \in F \cup Reference : s.generation \in Nat
    BY <1>2, ArchiveAssumption DEF Reference, Generations
  <2>2. Eligible(a, m) \subseteq Reference
    BY ReferencesType DEF Eligible
  <2> QED BY <1>1, <2>1, <2>2 DEF Eligible
<1>4. r \in E \cap F /\ r \notin D
  <2>1. r.generation < i
    BY DEF InTurns, IsInOrder
  <2>2. r.generation < m
    BY <1>1, <1>2, <2>1, ArchiveAssumption DEF Reference, Generations
  <2> QED BY <1>2, <1>3, <2>2
<1>5. /\ IsFiniteSet(E) /\ IsPlacing([s \in E |-> Place(E, s)], E)
      /\ IsFiniteSet(F) /\ IsPlacing([s \in F |-> Place(F, s)], F)
      /\ \A x, y \in E : Before(y, x) <=> Place(E, y) < Place(E, x)
      /\ \A x, y \in F : Before(y, x) <=> Place(F, y) < Place(F, x)
  BY <1>2, PlacesFollowTheOrder
<1>6. c \in 0 .. Cardinality(E) - 1
  <2>1. ReplayPerRank # 0 /\ E # {} /\ c \in Nat
    BY <1>4 DEF InTurns, IsInOrder, State
  <2>2. c < Cardinality(E)
    BY <2>1 DEF InTurns
  <2> QED BY <1>5, <2>1, <2>2, FS_CardinalityType
<1>7. Cardinality(Overtaken) <= Cardinality(E \ F)
  <2> DEFINE pe == [s \in E |-> Place(E, s)]
             pf == [s \in F |-> Place(F, s)]
  <2>1. ASSUME NEW x \in E \cap F, NEW y \in F, pf[y] < pf[x] PROVE y \in E
    <3>1. Before(y, x)
      BY <1>5, <2>1
    <3>2. x \in Eligible(a, m)
      BY <1>1, <1>2, <1>3 DEF InTurns, IsInOrder
    <3>3. y.generation <= x.generation /\ x.generation < m
      BY <1>2, <1>3, <3>1, <3>2, ArchiveAssumption DEF Before, Reference, Generations
    <3>4. y.generation < m
      BY <1>1, <1>2, <3>3, ArchiveAssumption DEF Reference, Generations
    <3> QED BY <1>2, <1>3, <3>4
  <2>2. \A x, y \in E \cap F : pe[y] < pe[x] <=> pf[y] < pf[x]
    BY <1>5
  <2>3. /\ \A s \in E : pe[s] = Place(E, s)
        /\ \A s \in F : pf[s] = Place(F, s)
        /\ IsPlacing(pe, E) /\ IsPlacing(pf, F)
    BY <1>5
  <2> HIDE DEF pe, pf, E, F, c
  <2>4. Overtaken = Skipped(E, pe, F, pf, c, r)
    BY <1>4, <2>3 DEF Seen, Skipped
  <2>5. Cardinality(Skipped(E, pe, F, pf, c, r)) <= Cardinality(E \ F)
    BY <1>4, <1>5, <1>6, <2>1, <2>2, <2>3, SkipsFew
  <2> QED BY <2>4, <2>5
<1>8. E \ F \subseteq D
  BY <1>2, <1>3
<1>9. X \subseteq Behind(line, c, i, r) \cup Overtaken
  <2>1. PassedOver(line, i, m) \subseteq E
    BY <1>1 DEF PassedOver
  <2> QED BY <2>1 DEF Behind
<1>10. Cardinality(Behind(line, c, i, r)) <= Cardinality(Lapsed(line, i, m))
  BY <1>1, <1>4 DEF InTurns, Waits
<1>11. Lapsed(line, i, m + 1) = Lapsed(line, i, m) \cup D /\ Lapsed(line, i, m) \cap D = {}
  <2>1. \A k : k \in i .. (m + 1) - 1 <=> k \in i .. m - 1 \/ k = m
    BY <1>1
  <2>2. Lapsed(line, i, m + 1) = Lapsed(line, i, m) \cup D
    BY <2>1 DEF Lapsed
  <2>3. ASSUME NEW k \in i .. m - 1 PROVE line[k].dropped \cap D = {}
    <3>1. k \in 1 .. m /\ k < m
      BY <1>1
    <3>2. line[k].dropped \cap line[m].chosen = {}
      BY <1>1, <3>1 DEF NeverAgain
    <3> QED BY <1>1, <3>2 DEF InTurns, IsInOrder
  <2> QED BY <2>2, <2>3 DEF Lapsed
<1>12. /\ IsFiniteSet(Lapsed(line, i, m)) /\ IsFiniteSet(D) /\ IsFiniteSet(Overtaken)
       /\ IsFiniteSet(Behind(line, c, i, r))
  <2>1. Lapsed(line, i, m) \subseteq Reference
    <3>1. \A k \in i .. m - 1 : k \in 1 .. m
      BY <1>1
    <3>2. \A k \in 1 .. m : line[k] \in Plan
      OBVIOUS
    <3> QED BY <3>1, <3>2 DEF Lapsed, Plan
  <2>2. Behind(line, c, i, r) \subseteq E
    BY <1>1 DEF Behind, PassedOver
  <2>3. Lapsed(line, i, m) \in SUBSET Reference /\ D \in SUBSET Reference
        /\ Overtaken \in SUBSET Reference /\ Behind(line, c, i, r) \in SUBSET Reference
    BY <1>2, <2>1, <2>2
  <2> HIDE DEF Overtaken, D
  <2> QED BY <2>3, ReferenceFinite, FS_Subset
<1> HIDE DEF X, Overtaken, E, F, D, c
<1>13. /\ Cardinality(Lapsed(line, i, m + 1)) = Cardinality(Lapsed(line, i, m)) + Cardinality(D)
       /\ Cardinality(Lapsed(line, i, m)) \in Nat /\ Cardinality(D) \in Nat
  <2>1. Cardinality(Lapsed(line, i, m) \cap D) = 0
    BY <1>11, FS_EmptySet
  <2> DEFINE L == Lapsed(line, i, m)
             M == Lapsed(line, i, m + 1)
  <2> HIDE DEF L, M
  <2>2. IsFiniteSet(L) /\ IsFiniteSet(D) /\ M = L \cup D /\ Cardinality(L \cap D) = 0
    BY <1>11, <1>12, <2>1 DEF L, M
  <2>3. Cardinality(L \cup D) = Cardinality(L) + Cardinality(D) - Cardinality(L \cap D)
    BY <2>2, FS_Union
  <2>4. Cardinality(L) \in Nat /\ Cardinality(D) \in Nat
    BY <2>2, FS_CardinalityType
  <2>5. Cardinality(M) = Cardinality(L) + Cardinality(D)
    BY <2>2, <2>3, <2>4
  <2> QED BY <2>4, <2>5 DEF L, M
<1>14. Cardinality(E \ F) <= Cardinality(D)
  BY <1>8, <1>12, FS_Subset
<1>15. Cardinality(X) <= Cardinality(Behind(line, c, i, r)) + Cardinality(Overtaken)
  <2> DEFINE B == Behind(line, c, i, r)
  <2> HIDE DEF B
  <2>1. IsFiniteSet(B) /\ IsFiniteSet(Overtaken) /\ X \subseteq B \cup Overtaken
    BY <1>9, <1>12 DEF B
  <2>2. /\ IsFiniteSet(B \cup Overtaken)
        /\ Cardinality(B \cup Overtaken)
              = Cardinality(B) + Cardinality(Overtaken) - Cardinality(B \cap Overtaken)
    BY <2>1, FS_Union
  <2>3. /\ Cardinality(B \cap Overtaken) \in Nat /\ Cardinality(B) \in Nat
        /\ Cardinality(Overtaken) \in Nat
    BY <2>1, FS_Intersection, FS_CardinalityType
  <2>4. IsFiniteSet(X) /\ Cardinality(X) <= Cardinality(B \cup Overtaken)
    BY <2>1, <2>2, FS_Subset
  <2>5. Cardinality(X) \in Nat
    BY <2>4, FS_CardinalityType
  <2> QED BY <2>2, <2>3, <2>4, <2>5 DEF B
<1>16. /\ Cardinality(X) \in Nat /\ Cardinality(Behind(line, c, i, r)) \in Nat
       /\ Cardinality(Overtaken) \in Nat /\ Cardinality(E \ F) \in Nat
  <2>1. IsFiniteSet(Behind(line, c, i, r) \cup Overtaken)
    BY <1>12, FS_Union
  <2>2. IsFiniteSet(X)
    BY <1>9, <2>1, FS_Subset
  <2>3. IsFiniteSet(E \ F)
    BY <1>5, FS_Difference
  <2> QED BY <1>12, <2>2, <2>3, FS_CardinalityType
<1>17. Cardinality(X) <= Cardinality(Lapsed(line, i, m + 1))
  BY <1>7, <1>10, <1>13, <1>14, <1>15, <1>16
<1> QED BY <1>17 DEF X, F, c
(* What a line dropped is finitely many references. *)
LEMMA LapsedFinite ==
    ASSUME NEW line \in Seq(Plan), NEW i \in 1 .. Len(line), NEW j \in 1 .. Len(line) + 1
    PROVE  /\ Lapsed(line, i, j) \in SUBSET Reference /\ IsFiniteSet(Lapsed(line, i, j))
           /\ Cardinality(Lapsed(line, i, j)) \in Nat
<1>1. \A k \in i .. j - 1 : k \in 1 .. Len(line)
  OBVIOUS
<1>2. \A k \in 1 .. Len(line) : line[k] \in Plan
  OBVIOUS
<1>3. Lapsed(line, i, j) \in SUBSET Reference
  BY <1>1, <1>2 DEF Lapsed, Plan
<1> QED BY <1>3, ReferenceFinite, FS_Subset, FS_CardinalityType

(* What was passed over before plan j, and dropped, is up to the plans     *)
(* before it.                                                              *)
LEMMA SameSoFar ==
    ASSUME NEW line, NEW long, NEW i \in Nat, NEW j \in Nat,
           i <= j, \A k \in i .. j : long[k] = line[k]
    PROVE  /\ PassedOver(long, i, j) = PassedOver(line, i, j)
           /\ Lapsed(long, i, j) = Lapsed(line, i, j)
           /\ Lapsed(long, i, j + 1) = Lapsed(line, i, j + 1)
<1>1. /\ i \in i .. j
      /\ \A k : k \in i .. j - 1 => k \in i .. j
      /\ \A k : k \in i .. (j + 1) - 1 <=> k \in i .. j
  OBVIOUS
<1>2. PassedOver(long, i, j) = PassedOver(line, i, j)
  BY <1>1 DEF PassedOver
<1>3. Lapsed(long, i, j) = Lapsed(line, i, j)
  BY <1>1 DEF Lapsed
<1>4. Lapsed(long, i, j + 1) = Lapsed(line, i, j + 1)
  BY <1>1 DEF Lapsed
<1> QED BY <1>2, <1>3, <1>4

(* A plan keeps turns: those it takes were waited for by those it does     *)
(* not, and all that it does not take are now nearer than those it took.   *)
LEMMA PlanKeepsTurns ==
    ASSUME NEW a \in State, NEW line \in Seq(Plan), NEW g \in Generations, g = Len(line) + 1,
           NeverAgain(line), InTurns(line, a),
           NEW p, p = Planned(a, g),
           NEW plan, plan = [chosen |-> p.chosen, eligible |-> Eligible(a, g), dropped |-> {}],
           NEW long, long = Append(line, plan),
           NEW b \in State, b.shards = a.shards, b.quarantined = a.quarantined,
           b.cursor = p.cursor
    PROVE  InTurns(long, b)
<1> DEFINE m == Len(line)
           F == Eligible(a, g)
           c == a.cursor
           X(i, r) == {s \in PassedOver(line, i, m) \cap F : ~(Seen(F, c, s) < Seen(F, c, r))}
<1>1. /\ m \in Nat /\ g = m + 1 /\ g \in Nat
      /\ Len(long) = g /\ long[g] = plan
      /\ \A k \in 1 .. m : long[k] = line[k] /\ line[k] \in Plan
      /\ \A k \in 1 .. g : k # g => k \in 1 .. m
  <2>1. m \in Nat /\ g = m + 1
    OBVIOUS
  <2>2. Len(long) = m + 1 /\ long[m + 1] = plan /\ \A k \in 1 .. m : long[k] = line[k]
    OBVIOUS
  <2> QED BY <2>1, <2>2
<1>2. /\ plan.chosen = p.chosen /\ plan.eligible = F /\ plan.dropped = {}
      /\ F \subseteq Reference /\ p.chosen \subseteq F
      /\ p.chosen # {} => ReplayPerRank # 0 /\ F # {}
      /\ \A r \in F : r.generation < g
  <2>1. F \subseteq Reference /\ p.chosen \subseteq F
    BY PlannedType, ReferencesType
  <2> QED BY <2>1 DEF Planned, Eligible
<1>3. Eligible(b, g) = F
  BY DEF Eligible, References
<1> HIDE DEF F, X, c
<1>4. IsInOrder(long)
  <2> SUFFICES ASSUME NEW k \in 1 .. Len(long)
               PROVE  /\ long[k].dropped \subseteq long[k].chosen
                      /\ long[k].chosen \subseteq long[k].eligible
                      /\ long[k].chosen # {} => ReplayPerRank # 0
                      /\ \A r \in long[k].eligible : r.generation < k
    BY DEF IsInOrder
  <2>1. CASE k = g
    BY <1>1, <1>2, <2>1
  <2>2. CASE k # g
    <3>1. k \in 1 .. m /\ long[k] = line[k]
      BY <1>1, <2>2
    <3> QED BY <3>1 DEF InTurns, IsInOrder
  <2> QED BY <2>1, <2>2
<1>5. ASSUME NEW i \in 1 .. m, NEW r \in line[i].chosen, r \in F,
             \A k \in i + 1 .. m : r \notin line[k].chosen
      PROVE  /\ IsFiniteSet(X(i, r)) /\ Cardinality(X(i, r)) \in Nat
             /\ Cardinality(X(i, r)) <= Cardinality(Lapsed(line, i, g))
  <2>1. line # << >> /\ m + 1 = g
    BY <1>1
  <2>2. Cardinality(X(i, r)) <= Cardinality(Lapsed(line, i, g))
    BY <1>1, <1>5, <2>1, FewComeBehind DEF X, F, c
  <2>3. X(i, r) \in SUBSET Reference
    BY <1>2 DEF X
  <2> QED BY <2>2, <2>3, ReferenceFinite, FS_Subset, FS_CardinalityType
<1>6. ASSUME ReplayPerRank # 0, F # {}
      PROVE  /\ p.cursor \in 0 .. Cardinality(F) - 1
             /\ Cardinality(F) \in Nat
             /\ \E k \in 0 .. Cardinality(F) :
                   /\ p.chosen = {r \in F : Seen(F, c, r) < k}
                   /\ \A r \in F \ p.chosen :
                         Seen(F, c, r) >= k /\ Seen(F, p.cursor, r) = Seen(F, c, r) - k
                   /\ \A r \in p.chosen : Seen(F, p.cursor, r) >= Cardinality(F) - k
             /\ \A r \in F : /\ Seen(F, p.cursor, r) \in 0 .. Cardinality(F) - 1
                             /\ Seen(F, c, r) \in 0 .. Cardinality(F) - 1
  <2>1. Cardinality(F) \in Nat
    BY <1>2, PlacesFollowTheOrder, FS_CardinalityType
  <2>2. TakesTheNearest(F, c, p)
    BY <1>6, PlanTakesTheNearest DEF F, c
  <2> QED BY <2>1, <2>2 DEF TakesTheNearest
<1>7. Waits(long, p.cursor)
  <2> SUFFICES ASSUME NEW i \in 1 .. Len(long),
                      NEW r \in long[i].chosen \cap long[Len(long)].eligible,
                      \A k \in i + 1 .. Len(long) : r \notin long[k].chosen
               PROVE  Cardinality(Behind(long, p.cursor, i, r))
                      <= Cardinality(Lapsed(long, i, Len(long)))
    BY DEF Waits
  <2>0. /\ i \in 1 .. g /\ Len(long) = g /\ r \in long[i].chosen \cap F
        /\ \A k \in i + 1 .. g : r \notin long[k].chosen
    BY <1>1, <1>2
  <2>1. ASSUME NEW s \in Behind(long, p.cursor, i, r)
        PROVE  /\ s \in F \ p.chosen /\ ~(Seen(F, p.cursor, s) < Seen(F, p.cursor, r))
               /\ s \in PassedOver(long, i, g)
    <3>1. g \in i .. g /\ long[g] = plan /\ Len(long) = g
      BY <1>1
    <3> QED BY <1>2, <3>1 DEF Behind, PassedOver
  <2>2. CASE i = g
    <3>1. r \in p.chosen
      BY <1>1, <1>2, <2>0, <2>2
    <3>2. Behind(long, p.cursor, i, r) = {}
      <4> SUFFICES ASSUME NEW s \in Behind(long, p.cursor, i, r) PROVE FALSE
        OBVIOUS
      <4> DEFINE n == Cardinality(F)
                 u == Seen(F, p.cursor, s)
                 v == Seen(F, p.cursor, r)
                 w == Seen(F, c, s)
      <4>1. r \in F /\ s \in F /\ s \notin p.chosen /\ ~(u < v)
        BY <2>0, <2>1
      <4>2. PICK k \in 0 .. n : /\ w >= k /\ u = w - k /\ v >= n - k
                                /\ n \in Nat /\ u \in 0 .. n - 1 /\ v \in 0 .. n - 1
                                /\ w \in 0 .. n - 1
        BY <1>2, <1>6, <3>1, <4>1
      <4> HIDE DEF n, u, v, w
      <4> QED BY <4>1, <4>2
    <3>3. Lapsed(long, i, g) = {}
      <4>1. ~(\E k : k \in i .. g - 1)
        BY <1>1, <2>2
      <4>2. \A x : x \notin Lapsed(long, i, g)
        BY ONLY <4>1 DEF Lapsed
      <4> QED BY ONLY <4>2
    <3>4. /\ Cardinality(Behind(long, p.cursor, i, r)) = 0
          /\ Cardinality(Lapsed(long, i, g)) = 0
      BY ONLY <3>2, <3>3, FS_EmptySet
    <3> QED BY ONLY <2>0, <3>4
  <2>3. CASE i # g
    <3>1. i \in 1 .. m /\ long[i] = line[i] /\ g \in i + 1 .. g
      BY <1>1, <2>0, <2>3
    <3>2. r \in F /\ r \notin p.chosen /\ r \in line[i].chosen
          /\ \A k \in i + 1 .. m : r \notin line[k].chosen
      <4>1. r \notin p.chosen
        BY <1>1, <1>2, <2>0, <3>1
      <4>2. \A k \in i + 1 .. m : k \in i + 1 .. g /\ k \in 1 .. m
        BY <1>1, <3>1
      <4> QED BY <1>1, <2>0, <3>1, <4>1, <4>2
    <3>3. Behind(long, p.cursor, i, r) \subseteq X(i, r)
      <4> SUFFICES ASSUME NEW s \in Behind(long, p.cursor, i, r) PROVE s \in X(i, r)
        OBVIOUS
      <4>1. s \in PassedOver(line, i, m)
        <5>1. \A k \in i .. m : k \in i .. g /\ k \in 1 .. m
          BY <1>1, <3>1
        <5>2. s \in long[i].eligible
              /\ \A k \in i .. g : s \in long[k].eligible \ long[k].chosen
          <6>1. s \in PassedOver(long, i, g)
            BY <2>1
          <6> QED BY ONLY <6>1 DEF PassedOver
        <5>3. \A k \in i .. m : s \in line[k].eligible \ line[k].chosen
          BY <1>1, <5>1, <5>2
        <5> QED BY <3>1, <5>2, <5>3 DEF PassedOver
      <4>2. ~(Seen(F, c, s) < Seen(F, c, r))
        <5> DEFINE n == Cardinality(F)
                   u == Seen(F, p.cursor, s)
                   v == Seen(F, p.cursor, r)
                   w == Seen(F, c, s)
                   t == Seen(F, c, r)
        <5>1. s \in F /\ s \notin p.chosen /\ ~(u < v)
          BY <2>1
        <5>2. ReplayPerRank # 0
          <6>1. line[i].chosen # {}
            BY <3>2
          <6> QED BY <3>1, <6>1 DEF InTurns, IsInOrder
        <5>3. PICK k \in 0 .. n : /\ u = w - k /\ v = t - k
                                  /\ n \in Nat /\ t \in 0 .. n - 1 /\ w \in 0 .. n - 1
          BY <1>6, <3>2, <5>1, <5>2
        <5>4. ~(w < t)
          <6> HIDE DEF n, u, v, w, t
          <6> QED BY <5>1, <5>3
        <5> QED BY <5>4
      <4> QED BY <2>1, <4>1, <4>2 DEF X
    <3>4. Lapsed(long, i, g) = Lapsed(line, i, g)
      <4>1. i \in Nat /\ m \in Nat /\ i <= m /\ \A k \in i .. m : long[k] = line[k]
        BY <1>1, <3>1
      <4>2. Lapsed(long, i, m + 1) = Lapsed(line, i, m + 1)
        <5> HIDE DEF m
        <5> QED BY ONLY <4>1, SameSoFar
      <4> QED BY <1>1, <4>2
    <3>5. /\ IsFiniteSet(X(i, r)) /\ Cardinality(X(i, r)) \in Nat
          /\ Cardinality(X(i, r)) <= Cardinality(Lapsed(line, i, g))
      BY <1>5, <3>1, <3>2
    <3>6. Cardinality(Lapsed(line, i, g)) \in Nat
      BY <1>1, <3>1, LapsedFinite
    <3>7. Cardinality(Behind(long, p.cursor, i, r)) \in Nat
          /\ Cardinality(Behind(long, p.cursor, i, r)) <= Cardinality(X(i, r))
      BY <3>3, <3>5, FS_Subset, FS_CardinalityType
    <3> QED BY <2>0, <3>4, <3>5, <3>6, <3>7
  <2> QED BY <2>2, <2>3
<1>8. ASSUME NEW i \in 1 .. Len(long), NEW j \in 1 .. Len(long),
             i < j /\ long[i].chosen \cap long[j].chosen # {}
      PROVE  Cardinality(PassedOver(long, i, j)) <= Cardinality(Lapsed(long, i, j))
  <2>0. PICK r : r \in long[i].chosen \cap long[j].chosen
    BY <1>8
  <2>1. i \in 1 .. m /\ long[i] = line[i] /\ i \in 1 .. g /\ j \in 1 .. g /\ i < j
    BY <1>1, <1>8
  <2>2. CASE j # g
    <3>1. j \in 1 .. m /\ long[j] = line[j]
      BY <1>1, <2>2
    <3>2. /\ PassedOver(long, i, j) = PassedOver(line, i, j)
          /\ Lapsed(long, i, j) = Lapsed(line, i, j)
      <4>1. i \in Nat /\ j \in Nat /\ i <= j /\ \A k \in i .. j : long[k] = line[k]
        BY <1>1, <2>1, <3>1
      <4> QED BY ONLY <4>1, SameSoFar
    <3>3. line[i].chosen \cap line[j].chosen # {}
      BY <2>0, <2>1, <3>1
    <3> QED BY <2>1, <3>1, <3>2, <3>3 DEF InTurns, IsFair
  <2>3. CASE j = g
    <3>1. r \in p.chosen /\ r \in F /\ r \in line[i].chosen
      BY <1>1, <1>2, <2>0, <2>1, <2>3
    <3> DEFINE P(x) == x \in i .. m /\ r \in line[x].chosen
    <3>2. PICK h \in i .. m : r \in line[h].chosen /\ \A k \in h + 1 .. m : r \notin line[k].chosen
      <4> DEFINE S == {k \in i .. m : r \in line[k].chosen}
      <4>1. i \in S /\ S \subseteq Nat /\ \A k \in S : k <= m
        BY <1>1, <2>1, <3>1
      <4>2. PICK h \in S : \A k \in S : k <= h
        <5>1. S \subseteq 0 .. m /\ S # {} /\ m \in Nat
          BY <1>1, <2>1, <4>1
        <5> HIDE DEF S, m
        <5> QED BY <5>1, GreatestNatural
      <4>3. \A k \in h + 1 .. m : r \notin line[k].chosen
        <5> SUFFICES ASSUME NEW k \in h + 1 .. m, r \in line[k].chosen PROVE FALSE
          OBVIOUS
        <5>1. k \in i .. m /\ ~(k <= h)
          BY <1>1, <2>1, <4>2
        <5> QED BY <4>2, <5>1
      <4> QED BY <4>2, <4>3
    <3>3. h \in 1 .. m
      BY <1>1, <2>1, <3>2
    <3>4. /\ IsFiniteSet(X(h, r)) /\ Cardinality(X(h, r)) \in Nat
          /\ Cardinality(X(h, r)) <= Cardinality(Lapsed(line, h, g))
      BY <1>5, <3>1, <3>2, <3>3
    <3>5. PassedOver(long, i, g) \subseteq X(h, r)
      <4> SUFFICES ASSUME NEW s \in PassedOver(long, i, g) PROVE s \in X(h, r)
        OBVIOUS
      <4>1. /\ h \in i .. g /\ g \in i .. g
            /\ \A k \in h .. m : k \in i .. g /\ long[k] = line[k]
            /\ h \in h .. m
        BY <1>1, <2>1, <3>2
      <4>2. s \in PassedOver(line, h, m)
        BY <4>1 DEF PassedOver
      <4>3. s \in F /\ s \notin p.chosen
        BY <1>1, <1>2, <4>1 DEF PassedOver
      <4>4. ~(Seen(F, c, s) < Seen(F, c, r))
        <5> DEFINE n == Cardinality(F)
                   w == Seen(F, c, s)
                   t == Seen(F, c, r)
        <5>1. PICK k \in 0 .. n : /\ w >= k /\ t < k
                                  /\ n \in Nat /\ t \in 0 .. n - 1 /\ w \in 0 .. n - 1
          BY <1>2, <1>6, <3>1, <4>3
        <5> HIDE DEF n, w, t
        <5>2. ~(w < t)
          BY <5>1
        <5> QED BY <5>2 DEF w, t
      <4> QED BY <4>2, <4>3, <4>4 DEF X
    <3>6. Lapsed(long, i, g) = Lapsed(line, i, g)
      <4>1. i \in Nat /\ m \in Nat /\ i <= m /\ \A k \in i .. m : long[k] = line[k]
        BY <1>1, <2>1
      <4>2. Lapsed(long, i, m + 1) = Lapsed(line, i, m + 1)
        <5> HIDE DEF m
        <5> QED BY ONLY <4>1, SameSoFar
      <4> QED BY <1>1, <4>2
    <3>7. Lapsed(line, h, g) \subseteq Lapsed(line, i, g)
      <4>1. \A k \in h .. g - 1 : k \in i .. g - 1
        BY <1>1, <2>1, <3>2
      <4> QED BY <4>1 DEF Lapsed
    <3>8. /\ IsFiniteSet(Lapsed(line, i, g)) /\ Cardinality(Lapsed(line, i, g)) \in Nat
          /\ Cardinality(Lapsed(line, h, g)) \in Nat
      BY <1>1, <2>1, <3>3, LapsedFinite
    <3>9. Cardinality(Lapsed(line, h, g)) <= Cardinality(Lapsed(line, i, g))
      BY <3>7, <3>8, FS_Subset
    <3>10. Cardinality(PassedOver(long, i, g)) \in Nat
           /\ Cardinality(PassedOver(long, i, g)) <= Cardinality(X(h, r))
      BY <3>4, <3>5, FS_Subset, FS_CardinalityType
    <3> QED BY <2>3, <3>4, <3>6, <3>8, <3>9, <3>10
  <2> QED BY <2>2, <2>3
<1>9. IsFair(long)
  BY ONLY <1>8 DEF IsFair
<1>10. ReplayPerRank # 0 /\ F # {} => b.cursor < Cardinality(F)
  BY <1>6
<1> QED
  BY <1>1, <1>2, <1>3, <1>4, <1>7, <1>9, <1>10 DEF InTurns
(* Turns are those of the plans, of what is eligible and of the cursor.    *)
LEMMA SameTurns ==
    ASSUME NEW line, NEW a, NEW b, InTurns(line, a), b.cursor = a.cursor,
           line # << >> => Eligible(b, Len(line)) = Eligible(a, Len(line))
    PROVE  InTurns(line, b)
BY DEF InTurns

(* What is dropped of the last plan is no longer eligible, and nothing is  *)
(* expected of it.                                                         *)
LEMMA DropKeepsTurns ==
    ASSUME NEW a \in State, NEW line \in Seq(Plan), line # << >>, InTurns(line, a),
           NEW r \in line[Len(line)].chosen,
           NEW long, long = [line EXCEPT ![Len(line)].dropped = @ \cup {r}],
           NEW b \in State, b.shards = a.shards, b.quarantined = a.quarantined \cup {r},
           b.cursor = a.cursor
    PROVE  InTurns(long, b)
<1> DEFINE m == Len(line)
           q == [line[m] EXCEPT !.dropped = @ \cup {r}]
<1>1. m \in Nat \ {0} /\ m \in 1 .. m /\ line[m] \in Plan
  BY EmptySeq, LenProperties
<1>2. /\ q.chosen = line[m].chosen /\ q.eligible = line[m].eligible
      /\ q.dropped = line[m].dropped \cup {r}
  BY <1>1 DEF Plan
<1>3. long = [line EXCEPT ![m] = q]
  OBVIOUS
<1> HIDE DEF q
<1>4. /\ Len(long) = m
      /\ \A k \in 1 .. m : /\ long[k].chosen = line[k].chosen
                           /\ long[k].eligible = line[k].eligible
                           /\ k # m => long[k].dropped = line[k].dropped
      /\ long[m].dropped = line[m].dropped \cup {r}
      /\ long # << >>
  <2>1. Len(long) = m /\ long[m] = q /\ \A k \in 1 .. m : k # m => long[k] = line[k]
    BY <1>1, <1>3
  <2>2. long # << >>
    BY <1>1, <2>1, EmptySeq
  <2> QED BY <1>2, <2>1, <2>2
<1>5. IsInOrder(long)
  <2> SUFFICES ASSUME NEW k \in 1 .. m
               PROVE  /\ long[k].dropped \subseteq long[k].chosen
                      /\ long[k].chosen \subseteq long[k].eligible
                      /\ long[k].chosen # {} => ReplayPerRank # 0
                      /\ \A s \in long[k].eligible : s.generation < k
    BY <1>4 DEF IsInOrder
  <2> QED BY <1>4 DEF InTurns, IsInOrder
<1>6. ASSUME NEW i \in 1 .. m, NEW j \in 1 .. m
      PROVE  PassedOver(long, i, j) = PassedOver(line, i, j) /\ Lapsed(long, i,
             j) = Lapsed(line, i, j)
  <2>1. \A k \in i .. j : k \in 1 .. m
    BY <1>1
  <2>2. PassedOver(long, i, j) = PassedOver(line, i, j)
    BY <1>4, <2>1 DEF PassedOver
  <2>3. \A k \in i .. j - 1 : k \in 1 .. m /\ k # m
    BY <1>1
  <2>4. \A k \in i .. j - 1 : long[k].dropped = line[k].dropped
    BY <1>4, <2>3
  <2> QED BY <2>2, <2>4 DEF Lapsed
<1>7. IsFair(long)
  <2> SUFFICES ASSUME NEW i \in 1 .. m, NEW j \in 1 .. m, i < j,
                      long[i].chosen \cap long[j].chosen # {}
               PROVE  Cardinality(PassedOver(long, i, j)) <= Cardinality(Lapsed(long, i, j))
    BY <1>4 DEF IsFair
  <2> QED BY <1>4, <1>6 DEF InTurns, IsFair
<1>8. Waits(long, b.cursor)
  <2> SUFFICES ASSUME NEW i \in 1 .. Len(long),
                      NEW s \in long[i].chosen \cap long[Len(long)].eligible,
                      \A k \in i + 1 .. Len(long) : s \notin long[k].chosen
               PROVE  Cardinality(Behind(long, b.cursor, i, s))
                      <= Cardinality(Lapsed(long, i, Len(long)))
    BY DEF Waits
  <2>0. /\ i \in 1 .. m /\ Len(long) = m /\ s \in line[i].chosen \cap line[m].eligible
        /\ \A k \in i + 1 .. m : s \notin long[k].chosen
    BY <1>1, <1>4
  <2>1. \A k \in i + 1 .. m : s \notin line[k].chosen
    <3>1. \A k \in i + 1 .. m : k \in 1 .. m
      BY <1>1
    <3> QED BY <1>4, <2>0, <3>1
  <2>2. Behind(long, a.cursor, i, s) = Behind(line, a.cursor, i, s)
    <3> DEFINE e == line[m].eligible
               o == PassedOver(line, i, m)
    <3>1. long[Len(long)].eligible = e /\ PassedOver(long, i, Len(long)) = o
      <4>1. Len(long) = m /\ m \in 1 .. m /\ i \in 1 .. m
        BY <1>1, <2>0
      <4>2. long[m].eligible = e
        BY <1>4, <4>1
      <4>3. PassedOver(long, i, m) = o
        BY <1>6, <4>1
      <4> QED BY ONLY <4>1, <4>2, <4>3
    <3> HIDE DEF e, o
    <3>2. Behind(long, a.cursor, i, s) = {x \in o : ~(Seen(e, a.cursor, x) < Seen(e, a.cursor, s))}
      BY <3>1 DEF Behind
    <3> QED BY <3>2 DEF Behind, e, o
  <2>3. Cardinality(Behind(line, a.cursor, i, s)) <= Cardinality(Lapsed(line, i, m))
    BY <2>0, <2>1 DEF InTurns, Waits
  <2> QED BY <1>1, <1>6, <2>0, <2>2, <2>3
<1>9. Eligible(b, m) = long[m].eligible \ long[m].dropped
  <2>1. Eligible(b, m) = Eligible(a, m) \ {r}
    BY DEF Eligible, References
  <2> QED BY <1>1, <1>4, <2>1 DEF InTurns
<1>10. ReplayPerRank # 0 /\ long[m].eligible # {} => b.cursor < Cardinality(long[m].eligible)
  BY <1>1, <1>4 DEF InTurns
<1> QED BY <1>4, <1>5, <1>7, <1>8, <1>9, <1>10 DEF InTurns

(* No plans, and an archive to begin with. *)
LEMMA EmptyInTurns == ASSUME NEW a PROVE InTurns(<< >>, a)
BY DEF InTurns, IsInOrder, IsFair

(* The plans behind a launch are those of the generations before it.       *)
Numbered ==
    /\ pc = "down" => past = << >>
    /\ pc = "plan" => gen = Len(past) + 1
    /\ pc \in {"replay", "write", "update", "boundary"} => past # << >> /\ gen = Len(past)
    /\ todo # {} => todo \subseteq past[Len(past)].chosen
    /\ pending # None => pending.generation = gen

(* What makes FairButForQuarantine inductive. *)
TakesTurns ==
    /\ Numbered
    /\ InTurns(past, archive)
    /\ \A g \in Generations : checkpoint[g] # None =>
          Len(checkpoint[g].past) = g /\ InTurns(checkpoint[g].past, checkpoint[g].archive)

(* Every step keeps it. *)
LEMMA TurnsStep == ASSUME ArchiveInv, TakesTurns, [Next]_vars PROVE TakesTurns'
<1> USE ArchiveAssumption
<1>0. /\ checkpoint \in [Generations -> Checkpoint \cup {None}] /\ archive \in State
      /\ gen \in Generations /\ past \in Seq(Plan) /\ NeverAgain(past)
      /\ archive' \in State
      /\ Len(<< >>) = 0
  <2>1. archive' \in State
    BY ArchiveStep DEF ArchiveInv, TypeOK
  <2> QED BY <2>1 DEF ArchiveInv, TypeOK, Belongs
<1>1. ASSUME checkpoint' = checkpoint, Numbered', InTurns(past, archive)' PROVE TakesTurns'
  <2>1. ASSUME NEW g \in Generations, checkpoint'[g] # None
        PROVE  Len(checkpoint'[g].past) = g /\ InTurns(checkpoint'[g].past,
               checkpoint'[g].archive)
    BY <1>1, <2>1 DEF TakesTurns
  <2>2. ASSUME NEW g \in Generations, checkpoint'[g] # None
        PROVE  InTurns(checkpoint[g].past, checkpoint[g].archive)'
    <3>1. InTurns(checkpoint'[g].past, checkpoint'[g].archive)
      BY <2>1, <2>2
    <3> QED BY <3>1
  <2> QED BY <1>1, <2>1, <2>2 DEF TakesTurns
<1>2. ASSUME Down, checkpoint' = checkpoint PROVE TakesTurns'
  <2>1. past' = << >> /\ Numbered'
    BY <1>2 DEF Down, Numbered
  <2>2. InTurns(past, archive)'
    <3>1. InTurns(past', archive')
      BY <2>1, EmptyInTurns
    <3> QED BY <3>1
  <2> QED BY <1>1, <1>2, <2>1, <2>2
<1>3. CASE LaunchFresh
  <2> DEFINE d == [archive |-> Empty, past |-> << >>]
  <2>1. checkpoint' = [checkpoint EXCEPT ![0] = d] /\ past' = past /\ archive' = archive
    BY <1>3 DEF LaunchFresh
  <2>2. d \in Checkpoint /\ 0 \in Generations /\ d.past = << >>
    BY EmptyBelongs DEF Generations
  <2> HIDE DEF d
  <2>3. checkpoint'[0] = d /\ \A g \in Generations : g # 0 => checkpoint'[g] = checkpoint[g]
    BY <1>0, <2>1, <2>2
  <2>4. ASSUME NEW g \in Generations, checkpoint'[g] # None
        PROVE  Len(checkpoint'[g].past) = g /\ InTurns(checkpoint'[g].past,
               checkpoint'[g].archive)
    <3>1. CASE g = 0
      BY <1>0, <2>2, <2>3, <3>1, EmptyInTurns
    <3>2. CASE g # 0
      BY <2>3, <2>4, <3>2 DEF TakesTurns
    <3> QED BY <3>1, <3>2
  <2>5. past = << >>
    BY <1>3, <2>1 DEF LaunchFresh, TakesTurns, Numbered
  <2>6. Numbered'
    BY <1>0, <1>3, <2>1, <2>5 DEF LaunchFresh, ArchiveInv, Underway, Numbered
  <2>7. InTurns(past', archive')
    BY <2>1 DEF TakesTurns
  <2> QED BY <2>4, <2>6, <2>7 DEF TakesTurns
<1>4. ASSUME NEW g \in Generations, Resume(g) PROVE TakesTurns'
  <2>1. /\ checkpoint' = checkpoint /\ checkpoint[g] # None
        /\ past' = checkpoint[g].past /\ archive' = checkpoint[g].archive
        /\ gen' = g + 1 /\ pc' = "plan" /\ todo' = todo /\ pending' = pending /\ pc = "down"
    BY <1>4 DEF Resume
  <2>2. Len(checkpoint[g].past) = g /\ InTurns(checkpoint[g].past, checkpoint[g].archive)
    BY <2>1 DEF TakesTurns
  <2>3. Numbered'
    BY <2>1, <2>2 DEF ArchiveInv, Underway, Numbered
  <2>4. InTurns(past', archive')
    BY <2>1, <2>2
  <2> QED BY <1>1, <2>1, <2>3, <2>4
<1>5. CASE MakePlan
  <2> DEFINE p == Planned(archive, gen)
             plan == [chosen |-> p.chosen, eligible |-> Eligible(archive, gen), dropped |-> {}]
  <2>1. /\ pc = "plan" /\ pc' = "replay" /\ todo' = p.chosen
        /\ archive' = [archive EXCEPT !.cursor = p.cursor] /\ past' = Append(past, plan)
        /\ UNCHANGED <<checkpoint, gen, pending>>
    BY <1>5 DEF MakePlan
  <2>2. gen = Len(past) + 1 /\ pending = None
    BY <2>1 DEF TakesTurns, Numbered, ArchiveInv, Underway
  <2>3. /\ archive'.shards = archive.shards /\ archive'.quarantined = archive.quarantined
        /\ archive'.cursor = p.cursor
    BY <1>0, <2>1 DEF State
  <2>4. InTurns(past', archive')
    <3>1. InTurns(past, archive)
      BY DEF TakesTurns
    <3> HIDE DEF p
    <3>2. p = Planned(archive, gen)
      BY DEF p
    <3> HIDE DEF plan
    <3>3. plan = [chosen |-> p.chosen, eligible |-> Eligible(archive, gen), dropped |-> {}]
      BY DEF plan
    <3> DEFINE b == archive'
               long == past'
    <3>4. /\ b \in State /\ b.shards = archive.shards /\ b.quarantined = archive.quarantined
          /\ b.cursor = p.cursor /\ long = Append(past, plan)
      BY <1>0, <2>1, <2>3
    <3> HIDE DEF b, long
    <3>5. InTurns(long, b)
      BY ONLY <1>0, <2>2, <3>1, <3>2, <3>3, <3>4, PlanKeepsTurns
    <3> QED BY <3>5 DEF b, long
  <2>5. Numbered'
    <3> HIDE DEF p
    <3>1. past' # << >> /\ Len(past') = Len(past) + 1 /\ past'[Len(past')].chosen = p.chosen
      <4>1. /\ Len(Append(past, plan)) = Len(past) + 1
            /\ Append(past, plan)[Len(past) + 1] = plan /\ Len(past) \in Nat
        BY <1>0
      <4> QED BY <1>0, <2>1, <4>1
    <3> QED BY <2>1, <2>2, <3>1 DEF Numbered
  <2> QED BY <1>1, <2>1, <2>4, <2>5
<1>6. ASSUME NEW r \in todo, ReplayMatches(r) PROVE TakesTurns'
  <2>1. /\ todo' \subseteq todo
        /\ UNCHANGED <<checkpoint, pc, gen, archive, pending, past>>
    BY <1>6 DEF ReplayMatches
  <2>2. Numbered' /\ InTurns(past', archive')
    BY <2>1 DEF TakesTurns, Numbered
  <2> QED BY <1>1, <2>1, <2>2
<1>7. ASSUME NEW r \in todo, ReplayMismatch(r) PROVE TakesTurns'
  <2> DEFINE m == Len(past)
  <2>1. /\ todo' \subseteq todo /\ pc = "replay"
        /\ archive' = [archive EXCEPT !.quarantined = @ \cup {r}]
        /\ past' = [past EXCEPT ![m].dropped = @ \cup {r}]
        /\ UNCHANGED <<checkpoint, pc, gen, pending>>
    BY <1>7 DEF ReplayMismatch
  <2>2. past # << >> /\ gen = m /\ r \in past[m].chosen /\ todo \subseteq past[m].chosen
    BY <2>1 DEF TakesTurns, Numbered
  <2>3. /\ archive'.shards = archive.shards /\ archive'.cursor = archive.cursor
        /\ archive'.quarantined = archive.quarantined \cup {r}
    BY <1>0, <2>1 DEF State
  <2>4. InTurns(past', archive')
    <3>1. InTurns(past, archive)
      BY DEF TakesTurns
    <3> QED BY <1>0, <2>1, <2>2, <2>3, <3>1, DropKeepsTurns
  <2>5. Numbered'
    <3>1. m \in 1 .. m /\ past[m] \in Plan
      BY <1>0, <2>2, EmptySeq, LenProperties
    <3>2. Len(past') = m /\ past'[m].chosen = past[m].chosen /\ past' # << >>
      <4> DEFINE q == [past[m] EXCEPT !.dropped = @ \cup {r}]
      <4>1. q.chosen = past[m].chosen
        BY <3>1 DEF Plan
      <4>2. past' = [past EXCEPT ![m] = q]
        BY <2>1
      <4> HIDE DEF q
      <4>3. Len(past') = m /\ past'[m] = q
        BY <1>0, <3>1, <4>2
      <4> QED BY <1>0, <3>1, <4>1, <4>3
    <3> QED BY <2>1, <2>2, <3>2 DEF TakesTurns, Numbered
  <2> QED BY <1>1, <2>1, <2>4, <2>5
<1>8. CASE WriteEpisodes
  <2>1. /\ UNCHANGED <<checkpoint, gen, archive, pending, past, todo>>
        /\ pc = "replay" /\ pc' = "write"
    BY <1>8 DEF WriteEpisodes, memory
  <2>2. Numbered' /\ InTurns(past', archive')
    BY <2>1 DEF TakesTurns, Numbered
  <2> QED BY <1>1, <2>1, <2>2
<1>9. ASSUME NEW n \in Successes, WriteShard(n) PROVE TakesTurns'
  <2>1. /\ UNCHANGED <<checkpoint, gen, archive, past, todo>>
        /\ pc = "write" /\ pc' = "update"
        /\ pending' # None => pending'.generation = gen
    BY <1>9 DEF WriteShard
  <2>2. Numbered' /\ InTurns(past', archive')
    BY <2>1 DEF TakesTurns, Numbered
  <2> QED BY <1>1, <2>1, <2>2
<1>10. CASE Commit
  <2>1. /\ UNCHANGED <<checkpoint, gen, past, todo>>
        /\ pc = "update" /\ pc' = "boundary" /\ pending' = None
        /\ archive' = [archive EXCEPT !.shards = @ \cup ({pending} \ {None})]
    BY <1>10 DEF Commit
  <2>2. /\ archive'.quarantined = archive.quarantined /\ archive'.cursor = archive.cursor
        /\ archive'.shards = archive.shards \cup ({pending} \ {None})
    BY <1>0, <2>1 DEF State
  <2>3. past # << >> /\ gen = Len(past) /\ (pending # None => pending.generation = gen)
    BY <2>1 DEF TakesTurns, Numbered
  <2>4. Eligible(archive', Len(past)) = Eligible(archive, Len(past))
    <3>1. ASSUME NEW r \in References(archive'), r \notin References(archive)
          PROVE  r.generation = gen
      <4>1. PICK s \in archive'.shards : r \in Read(s)
        BY <3>1 DEF References
      <4>2. s = pending /\ pending # None
        BY <2>2, <3>1, <4>1 DEF References
      <4> QED BY <2>3, <4>1, <4>2 DEF Read
    <3>2. References(archive) \subseteq References(archive')
      BY <2>2 DEF References
    <3>3. gen \in Nat
      BY <1>0 DEF Generations
    <3>4. \A r \in References(archive') : r.generation < gen => r \in References(archive)
      BY <3>1, <3>3
    <3> QED BY <2>2, <2>3, <3>2, <3>4 DEF Eligible
  <2>5. InTurns(past', archive')
    <3>1. InTurns(past, archive)
      BY DEF TakesTurns
    <3>2. InTurns(past, archive')
      BY <2>2, <2>4, <3>1, SameTurns
    <3> QED BY <2>1, <3>2
  <2>6. Numbered'
    BY <2>1 DEF TakesTurns, Numbered
  <2> QED BY <1>1, <2>1, <2>5, <2>6
<1>11. ASSUME pc = "boundary", gen < MaxGenerations, NEW from, GoOn(from)
       PROVE  Numbered' /\ InTurns(past', archive')
  <2>1. pc' = "plan" /\ gen' = gen + 1 /\ UNCHANGED <<archive, todo, pending, past>>
    BY <1>11 DEF GoOn
  <2>2. gen = Len(past)
    BY <1>11 DEF TakesTurns, Numbered
  <2> QED BY <1>11, <2>1, <2>2 DEF TakesTurns, Numbered, ArchiveInv, Underway
<1>12. CASE Pass
  BY <1>1, <1>11, <1>12 DEF Pass
<1>13. CASE Save
  <2>1. CASE checkpoint[gen] # None
    BY <1>2, <1>13, <2>1 DEF Save
  <2>2. CASE checkpoint[gen] = None
    <3> DEFINE d == [archive |-> archive, past |-> past]
    <3>1. checkpoint' = [checkpoint EXCEPT ![gen] = d] /\ GoOn(gen) /\ pc = "boundary"
      BY <1>13, <2>2 DEF Save
    <3>2. d.archive = archive /\ d.past = past
      OBVIOUS
    <3> HIDE DEF d
    <3>3. checkpoint'[gen] = d /\ \A g \in Generations : g # gen => checkpoint'[g] = checkpoint[g]
      BY <1>0, <3>1
    <3>4. ASSUME NEW g \in Generations, checkpoint'[g] # None
          PROVE  Len(checkpoint'[g].past) = g /\ InTurns(checkpoint'[g].past,
                 checkpoint'[g].archive)
      <4>1. CASE g = gen
        <5>1. gen = Len(past) /\ InTurns(past, archive)
          BY <3>1 DEF TakesTurns, Numbered
        <5> QED BY <3>2, <3>3, <4>1, <5>1
      <4>2. CASE g # gen
        BY <3>3, <3>4, <4>2 DEF TakesTurns
      <4> QED BY <4>1, <4>2
    <3>5. Numbered' /\ InTurns(past', archive')
      <4>1. CASE gen < MaxGenerations
        BY <1>11, <3>1, <4>1
      <4>2. CASE ~(gen < MaxGenerations)
        <5>1. Down
          BY <3>1, <4>2 DEF GoOn
        <5>2. past' = << >> /\ Numbered'
          BY <5>1 DEF Down, Numbered
        <5> QED BY <5>2, EmptyInTurns
      <4> QED BY <4>1, <4>2
    <3> QED BY <3>4, <3>5 DEF TakesTurns
  <2> QED BY <2>1, <2>2
<1>14. CASE UNCHANGED vars
  <2>1. UNCHANGED <<checkpoint, gen, archive, pending, past, todo, pc>>
    BY <1>14 DEF vars, memory
  <2>2. Numbered' /\ InTurns(past', archive')
    BY <2>1 DEF TakesTurns, Numbered
  <2> QED BY <1>1, <2>1, <2>2
<1>15. CASE Crash
  BY <1>2, <1>15 DEF Crash
<1> QED
  BY <1>3, <1>4, <1>5, <1>6, <1>7, <1>8, <1>9, <1>10, <1>12, <1>13, <1>14, <1>15 DEF Next

(* It holds of an empty run directory. *)
LEMMA TurnsFromTheStart == Init => TakesTurns
BY EmptyInTurns DEF Init, TakesTurns, Numbered

(* And it is what is wanted. *)
LEMMA TurnsAreFair == TakesTurns => FairButForQuarantine
<1> SUFFICES ASSUME TakesTurns, NEW line \in Lines PROVE IsFair(line)
  BY DEF FairButForQuarantine, IsFair, Lapsed
<1>1. \/ line = past
      \/ \E g \in Generations : checkpoint[g] # None /\ line = checkpoint[g].past
  BY DEF Lines
<1> QED BY <1>1 DEF TakesTurns, InTurns

(* The plans go round: whether the launch that wrote a checkpoint goes on  *)
(* from it or a later one resumes it, the next plan is the same, and       *)
(* between two choices of one success every other that may be replayed has *)
(* its turn, except as many as were quarantined in the meantime            *)
(* (SuccessArchive.plan): for any ranks, shards, generations and crashes.  *)
THEOREM PlansAlwaysContinue == MCSpec => []PlansContinue
<1>1. MCInit => TakesTurns
  BY TurnsFromTheStart DEF MCInit
<1>2. ArchiveInv /\ TakesTurns /\ [MCNext]_allVars => TakesTurns'
  BY TurnsStep, ArchiveMoves
<1>3. TakesTurns /\ ResumeIsExact => PlansContinue
  BY TurnsAreFair DEF PlansContinue
<1> QED
  BY <1>1, <1>2, <1>3, ArchiveInvariant, ResumedPlansAreExact, PTL DEF MCSpec

-----------------------------------------------------------------------------
(* The run lock: start-ups of a run directory that do not overlap.         *)

(* A file is never mistaken for the absence of one.                        *)
LEMMA FileIsSomething ==
    ASSUME Lock!LockAssumption
    PROVE  \A p \in Procs, b \in BOOLEAN : [owner |-> p, written |-> b] # None
<1>1. \A p \in Procs, b \in BOOLEAN : [owner |-> p, written |-> b] \in Lock!Files
  BY DEF Lock!Files
<1> QED
  BY <1>1, Lock!LockAssumption DEF Lock!LockAssumption

(* Every step of a run whose launches do not overlap keeps the invariant.  *)
LEMMA LockInductive ==
    ASSUME Lock!LockAssumption PROVE Lock!LockInv /\ [Lock!SerialNext]_lockVars => Lock!LockInv'
<1> SUFFICES ASSUME Lock!LockInv, [Lock!SerialNext]_lockVars PROVE Lock!LockInv'
  OBVIOUS
<1> USE Lock!LockAssumption DEF Lock!LockAssumption
<1> USE DEF Lock!Files, Lock!Acquiring, Lock!Goto, Lock!Alive
<1>1. CASE UNCHANGED lockVars
  BY <1>1 DEF Lock!LockInv, Lock!TypeOK, Lock!Serial, Lock!OwnerHoldsFile, Lock!LooksAtOwner,
              Lock!TakesOverTheDead, Lock!Stale, lockVars
<1>2. ASSUME NEW p \in Procs, Lock!SettledLaunch(p) PROVE Lock!LockInv'
  <2>1. \A q \in Procs : lockPc[q] \notin Lock!Acquiring
    BY <1>2 DEF Lock!SettledLaunch
  <2>2. lockPc[p] = "idle" /\ lockPc' = [lockPc EXCEPT ![p] = "open"]
    BY <1>2 DEF Lock!SettledLaunch, Lock!Launch
  <2>3. lock' = lock /\ attempt' = attempt /\ seen' = seen
    BY <1>2 DEF Lock!SettledLaunch, Lock!Launch
  <2>4. Lock!TypeOK'
    BY <2>2, <2>3 DEF Lock!LockInv, Lock!TypeOK
  <2>5. \A q \in Procs : q # p => lockPc'[q] = lockPc[q] /\ lockPc'[q] \notin Lock!Acquiring
    BY <2>1, <2>2 DEF Lock!LockInv, Lock!TypeOK
  <2>6. lockPc'[p] = "open" /\ attempt[p] # 1
    BY <2>2 DEF Lock!LockInv, Lock!TypeOK, Lock!TakesOverTheDead
  <2>7. Lock!Serial' /\ Lock!OwnerHoldsFile'
    BY <2>3, <2>5, <2>6 DEF Lock!LockInv, Lock!Serial, Lock!OwnerHoldsFile
  <2>8. Lock!LooksAtOwner'
    BY <2>5, <2>6 DEF Lock!LooksAtOwner
  <2>9. Lock!TakesOverTheDead'
    <3>1. \A q \in Procs : lockPc'[q] # "unlink"
      BY <2>5, <2>6
    <3> QED
      BY <3>1, <2>2, <2>3, <2>5, <2>6 DEF Lock!LockInv, Lock!TypeOK, Lock!TakesOverTheDead
  <2> QED
    BY <2>4, <2>7, <2>8, <2>9 DEF Lock!LockInv
<1>3. ASSUME NEW p \in Procs, Lock!Create(p) PROVE Lock!LockInv'
  BY <1>3, FileIsSomething DEF Lock!LockInv, Lock!TypeOK, Lock!Serial, Lock!OwnerHoldsFile,
                               Lock!LooksAtOwner,
              Lock!TakesOverTheDead, Lock!Stale, Lock!Create
<1>4. ASSUME NEW p \in Procs, Lock!Exists(p) PROVE Lock!LockInv'
  BY <1>4 DEF Lock!LockInv, Lock!TypeOK, Lock!Serial, Lock!OwnerHoldsFile, Lock!LooksAtOwner,
              Lock!TakesOverTheDead, Lock!Stale, Lock!Exists
<1>5. ASSUME NEW p \in Procs, Lock!Read(p) PROVE Lock!LockInv'
  BY <1>5 DEF Lock!LockInv, Lock!TypeOK, Lock!Serial, Lock!OwnerHoldsFile, Lock!LooksAtOwner,
              Lock!TakesOverTheDead, Lock!Stale, Lock!Read
<1>6. ASSUME NEW p \in Procs, Lock!Probe(p) PROVE Lock!LockInv'
  BY <1>6 DEF Lock!LockInv, Lock!TypeOK, Lock!Serial, Lock!OwnerHoldsFile, Lock!LooksAtOwner,
              Lock!TakesOverTheDead, Lock!Stale, Lock!Probe
<1>7. ASSUME NEW p \in Procs, Lock!Unlink(p) PROVE Lock!LockInv'
  <2>1. Lock!Stale(p) /\ lockPc[p] = "unlink"
    BY <1>7 DEF Lock!LockInv, Lock!TakesOverTheDead, Lock!Unlink
  <2>2. ASSUME NEW q \in Procs, lockPc[q] = "owner" PROVE FALSE
    <3>1. lock = [owner |-> q, written |-> TRUE] /\ lock # None
      BY <2>2, FileIsSomething DEF Lock!LockInv, Lock!OwnerHoldsFile
    <3>2. seen[p] = q
      BY <2>1, <3>1 DEF Lock!LockInv, Lock!LooksAtOwner
    <3> QED
      BY <2>1, <2>2, <3>2 DEF Lock!Stale
  <2>3. \A q \in Procs : q # p => lockPc[q] \notin Lock!Acquiring
    BY <2>1 DEF Lock!LockInv, Lock!Serial
  <2>4. lockPc' = [lockPc EXCEPT ![p] = "open"] /\ lock' = None
    BY <1>7 DEF Lock!Unlink
  <2>5. attempt' = [attempt EXCEPT ![p] = 1] /\ seen' = seen
    BY <1>7 DEF Lock!Unlink
  <2>6. Lock!TypeOK'
    BY <2>4, <2>5 DEF Lock!LockInv, Lock!TypeOK
  <2>7. /\ lockPc'[p] = "open"
        /\ \A q \in Procs : q # p => lockPc'[q] = lockPc[q] /\ attempt'[q] = attempt[q]
    BY <2>4, <2>5 DEF Lock!LockInv, Lock!TypeOK
  <2>8. Lock!Serial' /\ Lock!OwnerHoldsFile' /\ Lock!LooksAtOwner'
    BY <2>2, <2>3, <2>4, <2>7 DEF Lock!Serial, Lock!OwnerHoldsFile, Lock!LooksAtOwner
  <2>9. Lock!TakesOverTheDead'
    BY <2>3, <2>4, <2>7 DEF Lock!LockInv, Lock!TakesOverTheDead
  <2> QED
    BY <2>6, <2>8, <2>9 DEF Lock!LockInv
<1>8. ASSUME NEW p \in Procs, Lock!Write(p) PROVE Lock!LockInv'
  <2>1. lock = [owner |-> p, written |-> FALSE] /\ lock # None /\ lockPc[p] = "write"
    BY <1>8, FileIsSomething DEF Lock!LockInv, Lock!OwnerHoldsFile, Lock!Write
  <2>2. lock' = [owner |-> p, written |-> TRUE]
    BY <1>8, <2>1 DEF Lock!Write
  <2>3. \A q \in Procs : lockPc[q] # "owner" /\ (q # p => lockPc[q] \notin Lock!Acquiring)
    BY <2>1 DEF Lock!LockInv, Lock!Serial, Lock!OwnerHoldsFile
  <2>4. lockPc' = [lockPc EXCEPT ![p] = "owner"] /\ attempt' = attempt /\ seen' = seen
    BY <1>8 DEF Lock!Write
  <2>5. Lock!TypeOK'
    BY <2>2, <2>4 DEF Lock!LockInv, Lock!TypeOK
  <2>6. /\ lockPc'[p] = "owner"
        /\ \A q \in Procs : q # p => lockPc'[q] = lockPc[q]
    BY <2>4 DEF Lock!LockInv, Lock!TypeOK
  <2>7. Lock!Serial' /\ Lock!OwnerHoldsFile' /\ Lock!LooksAtOwner'
    BY <2>2, <2>3, <2>6 DEF Lock!Serial, Lock!OwnerHoldsFile, Lock!LooksAtOwner
  <2>8. Lock!TakesOverTheDead'
    BY <2>3, <2>4, <2>6 DEF Lock!LockInv, Lock!TakesOverTheDead
  <2> QED
    BY <2>5, <2>7, <2>8 DEF Lock!LockInv
<1>9. ASSUME NEW p \in Procs, Lock!Close(p) PROVE Lock!LockInv'
  BY <1>9 DEF Lock!LockInv, Lock!TypeOK, Lock!Serial, Lock!OwnerHoldsFile, Lock!LooksAtOwner,
              Lock!TakesOverTheDead, Lock!Stale, Lock!Close
<1>10. ASSUME NEW p \in Procs, Lock!Exit(p) PROVE Lock!LockInv'
  BY <1>10 DEF Lock!LockInv, Lock!TypeOK, Lock!Serial, Lock!OwnerHoldsFile, Lock!LooksAtOwner,
               Lock!TakesOverTheDead, Lock!Stale, Lock!Exit
<1> QED
  BY <1>1, <1>2, <1>3, <1>4, <1>5, <1>6, <1>7, <1>8, <1>9, <1>10
     DEF Lock!SerialNext, Lock!Step

(* The invariant holds when nobody has launched yet.                       *)
LEMMA LockBegins == ASSUME Lock!LockAssumption, Lock!Init PROVE Lock!LockInv
BY DEF Lock!LockAssumption, Lock!Init, Lock!LockInv, Lock!TypeOK, Lock!Serial,
       Lock!OwnerHoldsFile, Lock!LooksAtOwner, Lock!TakesOverTheDead, Lock!Files, Lock!Acquiring

(* What a launch that is refused has found.                                *)
LEMMA RefusedForCause ==
    ASSUME Lock!LockAssumption, Lock!LockInv, [Lock!SerialNext]_lockVars, NEW p \in Procs
    PROVE  Lock!Refusal(p)
<1>1. ASSUME lockPc[p] = "probe", lockPc'[p] = "refused", lock # None, lock.written
      PROVE  Lock!Alive(lock.owner) \/ ~Lock!SameHost(p, lock.owner)
  <2>1. Lock!Probe(p)
    BY <1>1 DEF Lock!SerialNext, Lock!Step, Lock!SettledLaunch, Lock!Launch, Lock!Create,
           Lock!Exists, Lock!Read, Lock!Probe, Lock!Unlink, Lock!Write, Lock!Close, Lock!Exit,
           Lock!Goto, lockVars, Lock!LockInv, Lock!TypeOK, Lock!Acquiring
  <2>2. lock.owner = seen[p] /\ seen[p] # None
    BY <1>1 DEF Lock!LockInv, Lock!LooksAtOwner
  <2>3. attempt[p] = 0
    BY <1>1 DEF Lock!LockInv, Lock!TypeOK, Lock!TakesOverTheDead
  <2>4. ~Lock!Stale(p)
    BY <1>1, <2>1, <2>3 DEF Lock!Probe, Lock!Goto, Lock!LockInv, Lock!TypeOK
  <2> QED
    BY <2>2, <2>4 DEF Lock!Stale
<1> QED
  BY <1>1 DEF Lock!Refusal

(* RUNNING.lock is its owner's file, and what a contender has read of it   *)
(* is what is there: for any number of launches that do not overlap.       *)
THEOREM LockInvariant ==
    ASSUME Lock!LockAssumption PROVE MCSpec => [](part = "lock" => Lock!LockInv)
<1>1. MCInit => (part = "lock" => Lock!LockInv)
  BY LockBegins DEF MCInit
<1>2. (part = "lock" => Lock!LockInv) /\ [MCNext]_allVars => (part = "lock" => Lock!LockInv)'
  BY LockInductive DEF MCNext, allVars, lockVars
<1> QED
  BY <1>1, <1>2, PTL DEF MCSpec

(* A run directory never has two owners (operations.py, the test           *)
(* test_run_lock_refuses_a_second_rank_zero_owner), as long as start-ups   *)
(* do not overlap.                                                         *)
THEOREM LockIsExclusive == ASSUME Lock!LockAssumption PROVE MCSpec => []Exclusive
<1>1. (part = "lock" => Lock!LockInv) => Exclusive
  BY DEF Exclusive, Lock!LockInv, Lock!OwnerHoldsFile, Lock!Exclusive
<1> QED
  BY <1>1, LockInvariant, PTL

(* A launch is refused only for an owner that may be alive, or for a file  *)
(* that its creator did not live to write: a stale lock of the same host   *)
(* never turns a restart away.                                             *)
THEOREM LockRefusesForCause ==
    ASSUME Lock!LockAssumption PROVE MCSpec => RefusedOnlyForCause
<1>1. (part = "lock" => Lock!LockInv) /\ [MCNext]_allVars =>
         [part = "lock" => \A p \in Procs : Lock!Refusal(p)]_lockVars
  BY RefusedForCause DEF MCNext, allVars, lockVars
<1> QED
  BY <1>1, LockInvariant, PTL DEF MCSpec, RefusedOnlyForCause

-----------------------------------------------------------------------------
(* The promotion gate: what a run of accepted generations can lose.        *)

(* A set is as large for the gate as it is for anyone.                     *)
LEMMA GateCounts ==
    \A S : Gate!Cardinality(S) = Cardinality(S) /\ (Gate!IsFiniteSet(S) <=> IsFiniteSet(S))
BY DEF Gate!Cardinality, Cardinality, Gate!IsFiniteSet, IsFiniteSet

(* The successes of an evaluation and its distance are numbers. *)
LEMMA EvaluationFields ==
    ASSUME Gate!GateAssumption, NEW m \in Gate!Evaluations
    PROVE  /\ m.successes \in Nat /\ m.median \in Int
<1>1. m.successes \in 0 .. Cardinality(Suite) /\ m.median \in Distances
  BY GateCounts DEF Gate!Evaluations, Gate!Metrics
<1>2. Cardinality(Suite) \in Nat
  BY FS_CardinalityType, GateCounts DEF Gate!GateAssumption
<1>3. \A n \in Nat : \A k \in 0 .. n : k \in Nat
  OBVIOUS
<1>4. Distances \subseteq Int
  BY DEF Gate!GateAssumption
<1> QED BY <1>1, <1>2, <1>3, <1>4

(* One more tolerated loss. *)
LEMMA OneMoreTolerated ==
    \A t \in Nat, n \in Int : t * (n + 1) = t * n + t
OBVIOUS

(* What an accepted candidate may have lost against the last good one. *)
LEMMA AcceptedStep ==
    ASSUME Gate!GateAssumption, Gate!TypeOK, NEW c \in Gate!Evaluations, Gate!Accept(c),
           Gate!LossIsBounded
    PROVE  Gate!LossIsBounded'
<1>1. /\ first.successes \in Nat /\ lastGood.successes \in Nat /\ c.successes \in Nat
      /\ first.median \in Int /\ lastGood.median \in Int /\ c.median \in Int
      /\ accepted \in Nat /\ rises \in Nat
  BY EvaluationFields DEF Gate!TypeOK
<1>2. /\ lastGood' = c /\ first' = first /\ accepted' = accepted + 1
      /\ rises' = IF Gate!SuccessIncreased(c) THEN rises + 1 ELSE rises
      /\ ~Gate!NewSafetyFailures(c) /\ ~Gate!SuccessRegressed(c) /\ ~Gate!DistanceRegressed(c)
  BY DEF Gate!Accept, Gate!Regressed
<1>3. (lastGood.unsafe \subseteq first.unsafe)'
  BY <1>2 DEF Gate!NewSafetyFailures, Gate!LossIsBounded
<1>4. TolerableDrop \in Nat /\ DistanceTolerance \in Nat
  BY DEF Gate!GateAssumption
<1>5. (first.successes - lastGood.successes <= TolerableDrop * (accepted - rises) - rises)'
  <2> DEFINE allowed == TolerableDrop * (accepted - rises)
  <2>1. allowed \in Int /\ first.successes - lastGood.successes <= allowed - rises
    BY <1>1, <1>4 DEF Gate!LossIsBounded
  <2>2. CASE Gate!SuccessIncreased(c)
    <3>1. rises' = rises + 1 /\ accepted' - rises' = accepted - rises
      BY <1>1, <1>2, <2>2
    <3>2. c.successes >= lastGood.successes + 1
      BY <1>1, <2>2 DEF Gate!SuccessIncreased
    <3>3. first.successes - c.successes <= allowed - (rises + 1)
      BY <1>1, <2>1, <3>2
    <3> QED BY <1>2, <3>1, <3>3
  <2>3. CASE ~Gate!SuccessIncreased(c)
    <3>1. rises' = rises /\ accepted' - rises' = (accepted - rises) + 1
      BY <1>1, <1>2, <2>3
    <3>2. TolerableDrop * (accepted' - rises') = allowed + TolerableDrop
      BY <1>1, <1>4, <3>1, OneMoreTolerated
    <3>3. lastGood.successes - c.successes <= TolerableDrop
      BY <1>1, <1>2, <1>4 DEF Gate!SuccessRegressed
    <3>4. first.successes - c.successes <= (allowed + TolerableDrop) - rises
      BY <1>1, <1>4, <2>1, <3>3
    <3> QED BY <1>2, <3>1, <3>2, <3>4
  <2> QED BY <2>2, <2>3
<1>6. (rises = 0 => lastGood.median <= first.median + DistanceTolerance * accepted)'
  <2> SUFFICES ASSUME rises' = 0
               PROVE  c.median <= first.median + DistanceTolerance * (accepted + 1)
    BY <1>2
  <2>1. ~Gate!SuccessIncreased(c) /\ rises = 0
    BY <1>1, <1>2
  <2>2. lastGood.median <= first.median + DistanceTolerance * accepted
    BY <2>1 DEF Gate!LossIsBounded
  <2>3. c.median <= lastGood.median + DistanceTolerance
    BY <1>1, <1>2, <1>4, <2>1 DEF Gate!DistanceRegressed
  <2>4. DistanceTolerance * (accepted + 1) = DistanceTolerance * accepted + DistanceTolerance
    BY <1>1, <1>4, OneMoreTolerated
  <2> DEFINE allowed == DistanceTolerance * accepted
  <2>5. allowed \in Int
    BY <1>1, <1>4
  <2>6. c.median <= first.median + (allowed + DistanceTolerance)
    <3> HIDE DEF allowed
    <3>1. lastGood.median <= first.median + allowed
      BY <2>2 DEF allowed
    <3> QED BY <1>1, <1>4, <2>3, <2>5, <3>1
  <2> QED BY <2>4, <2>6
<1> QED BY <1>3, <1>5, <1>6 DEF Gate!LossIsBounded

(* What a run has lost is what was tolerated, added up: inductively.       *)
LossKnown == Gate!TypeOK /\ Gate!LossIsBounded

(* The first evaluation has lost nothing.                                  *)
LEMMA LossBegins == ASSUME Gate!GateAssumption, Gate!Init PROVE LossKnown
<1>1. first.successes \in Nat /\ first.median \in Int
  BY EvaluationFields DEF Gate!Init
<1>2. TolerableDrop * (0 - 0) - 0 = 0 /\ DistanceTolerance * 0 = 0
  BY DEF Gate!GateAssumption
<1> QED
  BY <1>1, <1>2 DEF LossKnown, Gate!Init, Gate!TypeOK, Gate!LossIsBounded

(* Every verdict of the gate keeps that.                                   *)
LEMMA LossStep ==
    ASSUME Gate!GateAssumption, LossKnown, [Gate!Next]_gateVars PROVE LossKnown'
<1>1. Gate!TypeOK'
  BY DEF LossKnown, Gate!TypeOK, Gate!Next, Gate!NoMetrics, Gate!Accept, Gate!Reject, Gate!Raise,
         gateVars
<1>2. ASSUME NEW c \in Gate!Evaluations, Gate!Accept(c) PROVE Gate!LossIsBounded'
  BY <1>2, AcceptedStep DEF LossKnown
<1>3. ASSUME UNCHANGED <<first, lastGood, accepted, rises>> PROVE Gate!LossIsBounded'
  BY <1>3 DEF LossKnown, Gate!LossIsBounded
<1> QED
  BY <1>1, <1>2, <1>3 DEF LossKnown, Gate!Next, Gate!NoMetrics, Gate!Reject, Gate!Raise, gateVars

(* However many generations are accepted one after the other, no pair of   *)
(* seeds that was safe at first becomes unsafe, and the successes and the  *)
(* distance stay within the tolerances added up (evaluate_non_regression,  *)
(* which compares with the last accepted generation alone).                *)
THEOREM LossBounded == ASSUME Gate!GateAssumption PROVE MCSpec => []LossIsBounded
<1>1. MCInit => (part = "gate" => LossKnown)
  BY LossBegins DEF MCInit
<1>2. (part = "gate" => LossKnown) /\ [MCNext]_allVars => (part = "gate" => LossKnown)'
  BY LossStep DEF MCNext, allVars, gateVars
<1>3. (part = "gate" => LossKnown) => LossIsBounded
  BY DEF LossKnown, LossIsBounded
<1> QED
  BY <1>1, <1>2, <1>3, PTL DEF MCSpec

-----------------------------------------------------------------------------
(* The memory of latents.                                                  *)

(* The place of the k-th entry from the cursor on.                         *)
Spot(k) ==
    IF rotation + k <= Len(entries) THEN rotation + k ELSE rotation + k - Len(entries)

(* How many entries from the cursor on place i is.                         *)
TurnOf(i) == IF i > rotation THEN i - rotation ELSE i + Len(entries) - rotation

MemoryTypes ==
    /\ entries \in Seq([id : Successful, latent : Latents])
    /\ Len(entries) <= Capacity
    /\ \A i, j \in 1 .. Len(entries) : entries[i].id = entries[j].id => i = j
    /\ IF entries = << >> THEN rotation = 0 ELSE rotation \in 0 .. Len(entries) - 1
    /\ vetted \subseteq Memory!Ids
    /\ turn \in [Successful -> [there : SUBSET Memory!Ids, since : SUBSET Successful]]

(* Whoever still waits for a turn since an entry was drawn is before it.   *)
WaitersComeFirst ==
    \A i, j \in 1 .. Len(entries) :
        /\ i # j
        /\ entries[i].id \in turn[entries[j].id].there
        /\ entries[i].id \notin turn[entries[j].id].since
        => TurnOf(i) < TurnOf(j)

MemoryKnown == MemoryTypes /\ Memory!Apart /\ WaitersComeFirst

(* Below twice the divisor a remainder takes one subtraction.              *)
LEMMA SmallRemainder ==
    ASSUME NEW n \in Nat \ {0}, NEW x \in Nat, x < n + n
    PROVE  x % n = IF x < n THEN x ELSE x - n
<1>1. x = n * 0 + x /\ x = n * 1 + (x - n)
  OBVIOUS
<1>2. CASE x < n
  BY <1>1, <1>2, Remainder, x \in Nat, x \in 0 .. n - 1
<1>3. CASE ~ (x < n)
  BY <1>1, <1>3, Remainder, x \in Nat, x - n \in 0 .. n - 1
<1> QED BY <1>2, <1>3

(* A batch goes round from the cursor, and has nobody twice.               *)
LEMMA BatchPlaces ==
    ASSUME Memory!MemoryAssumption, MemoryTypes, entries # << >>,
           NEW count \in 1 .. MaxDraw
    PROVE  LET batch_ == Memory!Batch(count)
               m == Len(batch_)
           IN  /\ m \in 1 .. Len(entries) /\ DOMAIN batch_ = 1 .. m
               /\ \A k \in 1 .. m : /\ Spot(k) \in 1 .. Len(entries)
                                    /\ batch_[k] = entries[Spot(k)].id
               /\ \A k, l \in 1 .. m : batch_[k] = batch_[l] => k = l
               /\ (rotation + m) % Len(entries) =
                     IF rotation + m < Len(entries) THEN rotation + m
                     ELSE rotation + m - Len(entries)
<1> DEFINE n == Len(entries)
           m == IF count < n THEN count ELSE n
<1>1. n \in Nat \ {0} /\ rotation \in 0 .. n - 1 /\ m \in 1 .. n
  BY DEF MemoryTypes, Memory!MemoryAssumption
<1>2. Memory!Batch(count) = [i \in 1 .. m |-> entries[((rotation + i - 1) % n) + 1].id]
  BY DEF Memory!Batch
<1> HIDE DEF m, n
<1>3. \A k \in 1 .. m : /\ Spot(k) \in 1 .. n
                        /\ ((rotation + k - 1) % n) + 1 = Spot(k)
  <2> TAKE k \in 1 .. m
  <2> DEFINE x == rotation + k - 1
  <2>1. x \in Nat /\ x < n + n /\ x + 1 = rotation + k
    BY <1>1
  <2>2. x % n = IF x < n THEN x ELSE x - n
    <3> HIDE DEF x
    <3> QED BY <1>1, <2>1, SmallRemainder
  <2>3. (x % n) + 1 = Spot(k) /\ Spot(k) \in 1 .. n
    <3> HIDE DEF x
    <3> QED BY <1>1, <2>1, <2>2 DEF Spot, n
  <2> QED BY <2>3
<1>4. \A k \in 1 .. m : Memory!Batch(count)[k] = entries[Spot(k)].id
  BY <1>2, <1>3
<1>5. Len(Memory!Batch(count)) = m /\ DOMAIN Memory!Batch(count) = 1 .. m
  BY <1>1, <1>2
<1>6. \A k, l \in 1 .. m : Spot(k) = Spot(l) => k = l
  BY <1>1 DEF Spot, n
<1>7. \A k, l \in 1 .. m : Memory!Batch(count)[k] = Memory!Batch(count)[l] => k = l
  <2>1. \A i, j \in 1 .. n : entries[i].id = entries[j].id => i = j
    BY DEF MemoryTypes, n
  <2>2. \A k, l \in 1 .. m : entries[Spot(k)].id = entries[Spot(l)].id => k = l
    BY <1>3, <1>6, <2>1
  <2> QED BY <1>4, <2>2
<1>8. (rotation + m) % n = IF rotation + m < n THEN rotation + m ELSE rotation + m - n
  <2> DEFINE x == rotation + m
  <2>1. x \in Nat /\ x < n + n
    BY <1>1
  <2> HIDE DEF x
  <2>2. x % n = IF x < n THEN x ELSE x - n
    BY <1>1, <2>1, SmallRemainder
  <2> QED BY <1>1, <2>1, <2>2 DEF x
<1> QED BY <1>1, <1>3, <1>4, <1>5, <1>7, <1>8 DEF n

(* No success has a turn twice before another that is there has one.       *)
LEMMA TurnsGoRound ==
    ASSUME Memory!MemoryAssumption, MemoryKnown PROVE Memory!GoesRound
<1> SUFFICES ASSUME NEW count \in 1 .. MaxDraw, Memory!Sample(count),
                    NEW k \in DOMAIN Memory!Batch(count),
                    NEW t \in Memory!Ids, t \in turn[Memory!Batch(count)[k]].there,
                    t # Memory!Batch(count)[k],
                    t \notin turn[Memory!Batch(count)[k]].since
             PROVE  \E l \in 1 .. k - 1 : t = Memory!Batch(count)[l]
  BY DEF Memory!GoesRound
<1> DEFINE n == Len(entries)
           m == Len(Memory!Batch(count))
<1>1. entries # << >>
  BY DEF Memory!Sample
<1>2. /\ m \in 1 .. n /\ k \in 1 .. m
      /\ \A l \in 1 .. m : Spot(l) \in 1 .. n /\ Memory!Batch(count)[l] = entries[Spot(l)].id
  BY <1>1, BatchPlaces DEF MemoryKnown
<1>3. n \in Nat \ {0} /\ rotation \in 0 .. n - 1 /\ DOMAIN entries = 1 .. n
  BY <1>1 DEF MemoryKnown, MemoryTypes
<1>4. PICK i \in 1 .. n : t = entries[i].id
  BY <1>3 DEF Memory!Ids
<1>5. TurnOf(i) < TurnOf(Spot(k))
  BY <1>2, <1>4 DEF MemoryKnown, WaitersComeFirst
<1> DEFINE l == TurnOf(i)
<1> HIDE DEF m, n
<1>6. l \in 1 .. k - 1 /\ Spot(l) = i
  BY <1>2, <1>3, <1>4, <1>5 DEF TurnOf, Spot, n
<1> HIDE DEF l
<1>7. l \in 1 .. m
  BY <1>2, <1>6
<1> QED BY <1>2, <1>4, <1>6, <1>7

(* Everything an operation of the memory needs of the one before.          *)
LEMMA MemoryAdds ==
    ASSUME Memory!MemoryAssumption, MemoryKnown,
           NEW s \in Successful, NEW x \in Latents, Memory!Add(s, x)
    PROVE  MemoryKnown'
<1> DEFINE n == Len(entries)
           full == ~ (n < Capacity)
           gone == IF full THEN {entries[1].id} ELSE {}
           d == IF full THEN 1 ELSE 0
<1>1. n \in Nat /\ n <= Capacity /\ Capacity \in Nat \ {0} /\ DOMAIN entries = 1 .. n
  BY DEF MemoryKnown, MemoryTypes, Memory!MemoryAssumption
<1>2. /\ Len(entries') = n - d + 1
      /\ entries' \in Seq([id : Successful, latent : Latents])
      /\ \A i \in 1 .. n - d : entries'[i] = entries[i + d]
      /\ entries'[n - d + 1] = [id |-> s, latent |-> x]
  <2>1. CASE full
    <3>1. entries' = Append(Tail(entries), [id |-> s, latent |-> x])
      BY <2>1 DEF Memory!Add, Memory!Evict
    <3>2. entries # << >>
      BY <2>1, <1>1
    <3>3. /\ Tail(entries) \in Seq([id : Successful, latent : Latents])
          /\ Len(Tail(entries)) = n - 1
          /\ \A i \in 1 .. n - 1 : Tail(entries)[i] = entries[i + 1]
      BY <3>2 DEF MemoryKnown, MemoryTypes
    <3> QED BY <1>1, <2>1, <3>1, <3>3
  <2>2. CASE ~ full
    <3>1. entries' = Append(entries, [id |-> s, latent |-> x])
      BY <2>2 DEF Memory!Add, Memory!Evict
    <3> QED BY <1>1, <2>2, <3>1 DEF MemoryKnown, MemoryTypes
  <2> QED BY <2>1, <2>2
<1>3. rotation' = IF full /\ rotation > 0 THEN rotation - 1 ELSE rotation
  <2>1. n - d + 1 \in Nat \ {0}
    BY <1>1
  <2>2. rotation \in Nat /\ (n = 0 => rotation = 0) /\ (n # 0 => rotation <= n - 1)
    BY DEF MemoryKnown, MemoryTypes
  <2> DEFINE r == IF full /\ rotation > 0 THEN rotation - 1 ELSE rotation
  <2>3. r \in 0 .. (n - d + 1) - 1
    BY <1>1, <2>2
  <2>4. r % (n - d + 1) = r
    <3> HIDE DEF r, d, n, full
    <3> QED BY <2>1, <2>3, SmallRemainder
  <2>5. rotation' = Memory!Evict.cursor % Len(entries')
    BY DEF Memory!Add
  <2>6. Memory!Evict.cursor = r
    <3>1. CASE full
      BY <2>2, <3>1 DEF Memory!Evict
    <3>2. CASE ~ full
      BY <3>2 DEF Memory!Evict
    <3> QED BY <3>1, <3>2
  <2> QED BY <1>2, <2>4, <2>5, <2>6
<1>4. /\ s \notin Memory!Ids /\ Memory!Novel(x)
      /\ vetted' = (vetted \ gone) \cup {s}
      /\ turn' = [t \in Successful |->
             IF t \in gone \cup {s} THEN Memory!Undrawn
             ELSE [turn[t] EXCEPT !.there = @ \ gone]]
  BY DEF Memory!Add, Memory!Evict
<1>5. rotation \in Nat /\ (n = 0 => rotation = 0) /\ (n # 0 => rotation <= n - 1)
  BY DEF MemoryKnown, MemoryTypes
<1>6. /\ d \in 0 .. 1 /\ d <= n
      /\ \A i \in 1 .. n : entries[i] \in [id : Successful, latent : Latents]
      /\ \A i, j \in 1 .. n : entries[i].id = entries[j].id => i = j
      /\ \A i \in 1 .. n : entries[i].id \in gone <=> i <= d
  <2>1. \A i, j \in 1 .. n : entries[i].id = entries[j].id => i = j
    BY DEF MemoryKnown, MemoryTypes
  <2>2. \A i \in 1 .. n : entries[i] \in [id : Successful, latent : Latents]
    <3> DEFINE E == [id : Successful, latent : Latents]
    <3>1. entries \in Seq(E)
      BY DEF MemoryKnown, MemoryTypes
    <3> HIDE DEF E
    <3>2. \A i \in 1 .. Len(entries) : entries[i] \in E
      BY <3>1
    <3> QED BY <3>2 DEF E
  <2>3. \A i \in 1 .. n : entries[i].id \in gone <=> i <= d
    BY <1>1, <2>1
  <2> QED BY <1>1, <2>1, <2>2, <2>3
<1>7. gone \subseteq Memory!Ids
  BY <1>1 DEF Memory!Ids
<1>8. DOMAIN entries' = 1 .. Len(entries')
  BY <1>2
<1>9. d = 1 <=> full
  OBVIOUS
<1> HIDE DEF n, full, gone, d
<1>10. Memory!Ids' = (Memory!Ids \ gone) \cup {s}
  <2>1. \A t \in Memory!Ids \ gone : t \in Memory!Ids'
    <3> TAKE t \in Memory!Ids \ gone
    <3>1. PICK i \in 1 .. n : t = entries[i].id
      BY <1>1 DEF Memory!Ids
    <3>2. i - d \in 1 .. n - d
      BY <1>6, <3>1, <1>1
    <3>3. entries'[i - d] = entries[i]
      BY <1>2, <1>6, <3>2, (i - d) + d = i
    <3>4. i - d \in DOMAIN entries'
      BY <1>1, <1>2, <1>6, <1>8, <3>2
    <3> QED BY <3>1, <3>3, <3>4 DEF Memory!Ids
  <2>2. s \in Memory!Ids'
    BY <1>1, <1>2, <1>6, <1>8 DEF Memory!Ids
  <2>3. \A t \in Memory!Ids' : t \in (Memory!Ids \ gone) \cup {s}
    <3> TAKE t \in Memory!Ids'
    <3>1. PICK i \in 1 .. n - d + 1 : t = entries'[i].id
      BY <1>2, <1>8 DEF Memory!Ids
    <3>2. CASE i = n - d + 1
      BY <1>2, <3>1, <3>2
    <3>3. CASE i # n - d + 1
      <4>1. i \in 1 .. n - d /\ i + d \in 1 .. n /\ ~ (i + d <= d)
        BY <1>1, <1>6, <3>3
      <4>2. t = entries[i + d].id
        BY <1>2, <3>1, <4>1
      <4> QED BY <1>1, <1>6, <4>1, <4>2 DEF Memory!Ids
    <3> QED BY <3>2, <3>3
  <2> QED BY <2>1, <2>2, <2>3
<1>11. \A t \in Successful :
          /\ turn'[t].there = IF t \in gone \cup {s} THEN {} ELSE turn[t].there \ gone
          /\ turn'[t].since = IF t \in gone \cup {s} THEN {} ELSE turn[t].since
  BY <1>4 DEF Memory!Undrawn, MemoryKnown, MemoryTypes
<1>12. \A i \in 1 .. n - d + 1 : i # n - d + 1 =>
          /\ i \in 1 .. n - d /\ i + d \in 1 .. n /\ entries'[i] = entries[i + d]
          /\ entries[i + d].id \notin gone \cup {s}
  <2> SUFFICES ASSUME NEW i \in 1 .. n - d + 1, i # n - d + 1
               PROVE  /\ i \in 1 .. n - d /\ i + d \in 1 .. n /\ entries'[i] = entries[i + d]
                      /\ entries[i + d].id \notin gone \cup {s}
    OBVIOUS
  <2>1. i \in 1 .. n - d /\ i + d \in 1 .. n /\ ~ (i + d <= d)
    BY <1>1, <1>6
  <2>2. entries[i + d].id \in Memory!Ids
    BY <1>1, <2>1 DEF Memory!Ids
  <2> QED BY <1>2, <1>4, <1>6, <2>1, <2>2
<1>13. \A i, j \in 1 .. n - d + 1 : entries'[i].id = entries'[j].id => i = j
  <2> SUFFICES ASSUME NEW i \in 1 .. n - d + 1, NEW j \in 1 .. n - d + 1,
                      entries'[i].id = entries'[j].id
               PROVE  i = j
    OBVIOUS
  <2>1. CASE i # n - d + 1 /\ j # n - d + 1
    <3>1. i + d = j + d
      BY <1>6, <1>12, <2>1
    <3> QED BY <1>6, <3>1
  <2>2. CASE i = n - d + 1 \/ j = n - d + 1
    BY <1>2, <1>12, <2>2
  <2> QED BY <2>1, <2>2
<1>14. MemoryTypes'
  <2>1. turn' \in [Successful -> [there : SUBSET Memory!Ids', since : SUBSET Successful]]
    <3>1. \A t \in Successful : turn[t] \in [there : SUBSET Memory!Ids, since : SUBSET Successful]
      BY DEF MemoryKnown, MemoryTypes
    <3>2. \A t \in Successful :
             (IF t \in gone \cup {s} THEN Memory!Undrawn ELSE [turn[t] EXCEPT !.there = @ \ gone])
                \in [there : SUBSET Memory!Ids', since : SUBSET Successful]
      BY <1>10, <3>1 DEF Memory!Undrawn
    <3> QED BY <1>4, <3>2
  <2>2. vetted' \subseteq Memory!Ids'
    BY <1>4, <1>10 DEF MemoryKnown, MemoryTypes
  <2>3. entries' # << >>
    BY <1>1, <1>2, <1>6
  <2>4. Len(entries') <= Capacity
    BY <1>1, <1>2, <1>6, <1>9 DEF full
  <2>5. rotation' \in 0 .. Len(entries') - 1
    BY <1>1, <1>2, <1>3, <1>5, <1>6, <1>9 DEF full
  <2> QED BY <1>2, <1>13, <2>1, <2>2, <2>3, <2>4, <2>5 DEF MemoryTypes
<1>15. Memory!Apart'
  <2> SUFFICES ASSUME NEW i \in 1 .. n - d + 1, NEW j \in 1 .. n - d + 1, i < j,
                      entries'[j].id \in vetted'
               PROVE  Memory!Distance(entries'[i].latent, entries'[j].latent) >= Novelty
    BY <1>2, <1>8 DEF Memory!Apart, Memory!Distance
  <2>1. i # n - d + 1
    BY <1>1, <1>6
  <2>2. CASE j = n - d + 1
    <3>1. Memory!Distance(x, entries[i + d].latent) >= Novelty
      BY <1>1, <1>4, <1>12, <2>1 DEF Memory!Novel
    <3>2. x \in Int /\ entries[i + d].latent \in Int
      BY <1>6, <1>12, <2>1 DEF Memory!MemoryAssumption
    <3> QED BY <1>2, <1>12, <2>1, <2>2, <3>1, <3>2 DEF Memory!Distance
  <2>3. CASE j # n - d + 1
    <3>1. entries[j + d].id \in vetted
      BY <1>4, <1>12, <2>3
    <3>2. i + d < j + d
      BY <1>6
    <3> QED BY <1>1, <1>12, <2>1, <2>3, <3>1, <3>2 DEF MemoryKnown, Memory!Apart
  <2> QED BY <2>2, <2>3
<1>16. WaitersComeFirst'
  <2> SUFFICES ASSUME NEW i \in 1 .. n - d + 1, NEW j \in 1 .. n - d + 1, i # j,
                      entries'[i].id \in turn'[entries'[j].id].there,
                      entries'[i].id \notin turn'[entries'[j].id].since
               PROVE  (TurnOf(i) < TurnOf(j))'
    BY <1>2 DEF WaitersComeFirst
  <2>1. j # n - d + 1
    <3>1. turn'[s].there = {}
      BY <1>11
    <3>2. j = n - d + 1 => entries'[j].id = s
      BY <1>2
    <3> QED BY <3>1, <3>2
  <2>2. entries[j + d].id \in Successful /\ entries[j + d].id \notin gone \cup {s}
    BY <1>6, <1>12, <2>1
  <2>3. entries'[i].id \in turn[entries[j + d].id].there
        /\ entries'[i].id \notin turn[entries[j + d].id].since
    BY <1>11, <1>12, <2>1, <2>2
  <2>4. i # n - d + 1
    <3>1. turn[entries[j + d].id].there \subseteq Memory!Ids
      BY <2>2 DEF MemoryKnown, MemoryTypes
    <3> QED BY <1>2, <1>4, <2>3, <3>1
  <2>5. TurnOf(i + d) < TurnOf(j + d)
    <3>1. i + d \in 1 .. n /\ j + d \in 1 .. n /\ i + d # j + d
      BY <1>6, <1>12, <2>1, <2>4
    <3>2. /\ entries[i + d].id \in turn[entries[j + d].id].there
          /\ entries[i + d].id \notin turn[entries[j + d].id].since
      BY <1>12, <2>3, <2>4
    <3> QED BY <3>1, <3>2 DEF MemoryKnown, WaitersComeFirst, n
  <2>6. i \in 1 .. n - d /\ j \in 1 .. n - d
    BY <1>12, <2>1, <2>4
  <2>7. n \in Nat /\ Len(entries') = n - d + 1 /\ n = Len(entries)
    BY <1>1, <1>2 DEF n
  <2>8. rotation' = IF d = 1 /\ rotation > 0 THEN rotation - 1 ELSE rotation
    BY <1>3, <1>9
  <2>9. d \in 0 .. 1 /\ rotation \in Nat /\ (n # 0 => rotation <= n - 1)
    BY <1>5, <1>6
  <2>10. /\ (TurnOf(i))' = IF i > rotation' THEN i - rotation' ELSE i + (n - d + 1) - rotation'
         /\ (TurnOf(j))' = IF j > rotation' THEN j - rotation' ELSE j + (n - d + 1) - rotation'
    BY ONLY <2>7 DEF TurnOf
  <2>11. \A k : TurnOf(k) = IF k > rotation THEN k - rotation ELSE k + n - rotation
    BY ONLY <2>7 DEF TurnOf
  <2>12. CASE d = 0
    BY ONLY <2>5, <2>6, <2>7, <2>8, <2>9, <2>10, <2>11, <2>12
  <2>13. CASE d = 1
    BY ONLY <2>5, <2>6, <2>7, <2>8, <2>9, <2>10, <2>11, <2>13
  <2> QED BY <2>9, <2>12, <2>13
<1> QED BY <1>14, <1>15, <1>16 DEF MemoryKnown

(* Who is drawn, and who was not, after a batch.                           *)
LEMMA BatchTurns ==
    ASSUME Memory!MemoryAssumption, MemoryTypes,
           NEW count \in 1 .. MaxDraw, Memory!Sample(count)
    PROVE  LET batch_ == Memory!Batch(count)
               m == Len(batch_)
           IN  /\ \A k \in 1 .. m :
                     turn'[batch_[k]] = [there |-> Memory!Ids, since |-> Memory!From(batch_, k)]
               /\ \A s \in Successful :
                     (\A k \in 1 .. m : batch_[k] # s) =>
                        /\ turn'[s] \in [there : SUBSET Memory!Ids, since : SUBSET Successful]
                        /\ turn'[s].there = turn[s].there
                        /\ turn[s].there # {} =>
                              turn'[s].since = turn[s].since \cup Memory!From(batch_, 1)
<1> DEFINE drawn == Memory!Batch(count)
           m == Len(drawn)
<1>1. /\ DOMAIN drawn = 1 .. m /\ m \in 1 .. Len(entries)
      /\ \A k, l \in 1 .. m : drawn[k] = drawn[l] => k = l
      /\ \A k \in 1 .. m : Spot(k) \in 1 .. Len(entries) /\ drawn[k] = entries[Spot(k)].id
  BY BatchPlaces DEF Memory!Sample
<1>2. turn' = [s \in Successful |->
                 IF \E i \in DOMAIN drawn : drawn[i] = s
                 THEN LET i == CHOOSE k \in DOMAIN drawn :
                                   drawn[k] = s /\ s \notin Memory!From(drawn, k + 1)
                      IN  [there |-> Memory!Ids, since |-> Memory!From(drawn, i)]
                 ELSE IF turn[s] = Memory!Undrawn THEN Memory!Undrawn
                 ELSE [turn[s] EXCEPT !.since = @ \cup Memory!From(drawn, 1)]]
  BY DEF Memory!Sample
<1>3. \A k \in 1 .. m : drawn[k] \in Successful
  <2> DEFINE E == [id : Successful, latent : Latents]
  <2>1. entries \in Seq(E)
    BY DEF MemoryTypes
  <2> HIDE DEF E
  <2>2. \A i \in 1 .. Len(entries) : entries[i] \in E
    BY <2>1
  <2>3. \A i \in 1 .. Len(entries) : entries[i].id \in Successful
    BY <2>2 DEF E
  <2> QED BY <1>1, <2>3
<1> HIDE DEF drawn, m
<1>4. ASSUME NEW k \in 1 .. m
      PROVE  turn'[drawn[k]] = [there |-> Memory!Ids, since |-> Memory!From(drawn, k)]
  <2> DEFINE P(l) == drawn[l] = drawn[k] /\ drawn[k] \notin Memory!From(drawn, l + 1)
             i == CHOOSE l \in DOMAIN drawn : P(l)
  <2>1. P(k)
    <3>1. \A l \in (k + 1) .. m : drawn[l] # drawn[k]
      BY <1>1
    <3> QED BY <3>1 DEF Memory!From, m
  <2>2. i \in DOMAIN drawn /\ P(i)
    BY <1>1, <2>1
  <2>3. i = k
    BY <1>1, <2>2
  <2> HIDE DEF i
  <2>4. turn'[drawn[k]] = [there |-> Memory!Ids, since |-> Memory!From(drawn, i)]
    BY <1>1, <1>2, <1>3 DEF i
  <2> QED BY <2>3, <2>4
<1>5. ASSUME NEW s \in Successful, \A k \in 1 .. m : drawn[k] # s
      PROVE  /\ turn'[s] \in [there : SUBSET Memory!Ids, since : SUBSET Successful]
             /\ turn'[s].there = turn[s].there
             /\ turn[s].there # {} =>
                   turn'[s].since = turn[s].since \cup Memory!From(drawn, 1)
  <2>1. turn'[s] = IF turn[s] = Memory!Undrawn THEN Memory!Undrawn
                   ELSE [turn[s] EXCEPT !.since = @ \cup Memory!From(drawn, 1)]
    BY <1>1, <1>2, <1>5
  <2>2. turn[s] \in [there : SUBSET Memory!Ids, since : SUBSET Successful]
    BY DEF MemoryTypes
  <2>3. Memory!From(drawn, 1) \subseteq Successful
    BY <1>3 DEF Memory!From, m
  <2> HIDE DEF drawn
  <2> QED BY <2>1, <2>2, <2>3 DEF Memory!Undrawn
<1> QED BY <1>4, <1>5 DEF drawn, m

(* A batch keeps what is known of the memory.                              *)
LEMMA MemorySamples ==
    ASSUME Memory!MemoryAssumption, MemoryKnown,
           NEW count \in 1 .. MaxDraw, Memory!Sample(count)
    PROVE  MemoryKnown'
<1> DEFINE drawn == Memory!Batch(count)
           m == Len(drawn)
           n == Len(entries)
<1>1. /\ DOMAIN drawn = 1 .. m /\ m \in 1 .. n
      /\ \A k \in 1 .. m : Spot(k) \in 1 .. n /\ drawn[k] = entries[Spot(k)].id
      /\ (rotation + m) % n = IF rotation + m < n THEN rotation + m ELSE rotation + m - n
  BY BatchPlaces DEF Memory!Sample, MemoryKnown
<1>2. entries' = entries /\ vetted' = vetted /\ entries # << >> /\ rotation' = (rotation + m) % n
  BY DEF Memory!Sample
<1>3. n \in Nat \ {0} /\ rotation \in 0 .. n - 1
  BY <1>2 DEF MemoryKnown, MemoryTypes
<1>4. \A i, j \in 1 .. n : entries[i].id = entries[j].id => i = j
  BY DEF MemoryKnown, MemoryTypes
<1>5. Memory!Ids' = Memory!Ids
  BY <1>2 DEF Memory!Ids
<1>6. /\ \A k \in 1 .. m :
            turn'[drawn[k]] = [there |-> Memory!Ids, since |-> Memory!From(drawn, k)]
      /\ \A s \in Successful :
            (\A k \in 1 .. m : drawn[k] # s) =>
               /\ turn'[s] \in [there : SUBSET Memory!Ids, since : SUBSET Successful]
               /\ turn'[s].there = turn[s].there
               /\ turn[s].there # {} =>
                     turn'[s].since = turn[s].since \cup Memory!From(drawn, 1)
  BY BatchTurns DEF MemoryKnown
<1>7. \A i \in 1 .. n : entries[i].id \in Successful
  <2> DEFINE E == [id : Successful, latent : Latents]
  <2>1. entries \in Seq(E)
    BY DEF MemoryKnown, MemoryTypes
  <2> HIDE DEF E
  <2>2. \A i \in 1 .. Len(entries) : entries[i] \in E
    BY <2>1
  <2> QED BY <2>2 DEF E
<1>8. \A i \in 1 .. n : Spot(TurnOf(i)) = i /\ TurnOf(i) \in 1 .. n
  BY <1>3 DEF Spot, TurnOf
<1>9. \A k \in 1 .. m : TurnOf(Spot(k)) = k
  BY <1>1, <1>3 DEF Spot, TurnOf
<1> HIDE DEF drawn, m
<1>10. \A i \in 1 .. n, k \in 1 .. m :
          entries[i].id \notin Memory!From(drawn, k) => ~ (TurnOf(i) \in k .. m)
  <2> SUFFICES ASSUME NEW i \in 1 .. n, NEW k \in 1 .. m, TurnOf(i) \in k .. m
               PROVE  entries[i].id \in Memory!From(drawn, k)
    OBVIOUS
  <2>1. TurnOf(i) \in 1 .. m
    BY <1>1
  <2>2. drawn[TurnOf(i)] = entries[i].id
    BY <1>1, <1>8, <2>1
  <2> QED BY <2>2 DEF Memory!From, m
<1>11. rotation' = IF rotation + m < n THEN rotation + m ELSE rotation + m - n
  BY <1>1, <1>2
<1>12. turn' \in [Successful -> [there : SUBSET Memory!Ids, since : SUBSET Successful]]
  <2>1. \A s \in Successful :
           turn'[s] \in [there : SUBSET Memory!Ids, since : SUBSET Successful]
    <3> TAKE s \in Successful
    <3>1. CASE \A k \in 1 .. m : drawn[k] # s
      BY <1>6, <3>1
    <3>2. CASE \E k \in 1 .. m : drawn[k] = s
      <4>1. PICK k \in 1 .. m : drawn[k] = s
        BY <3>2
      <4>2. turn'[s] = [there |-> Memory!Ids, since |-> Memory!From(drawn, k)]
        BY <1>6, <4>1
      <4>3. Memory!From(drawn, k) \subseteq Successful
        BY <1>1, <1>7 DEF Memory!From, m
      <4> QED BY <4>2, <4>3
    <3> QED BY <3>1, <3>2
  <2>2. turn' = [s \in Successful |-> turn'[s]]
    BY DEF Memory!Sample
  <2> QED BY <2>1, <2>2
<1>13. MemoryTypes'
  <2>1. entries' \in Seq([id : Successful, latent : Latents]) /\ Len(entries') <= Capacity
    BY <1>2 DEF MemoryKnown, MemoryTypes
  <2>2. rotation' \in 0 .. Len(entries') - 1 /\ entries' # << >>
    BY <1>1, <1>2, <1>3, <1>11
  <2>3. vetted' \subseteq Memory!Ids'
    BY <1>2, <1>5 DEF MemoryKnown, MemoryTypes
  <2> QED BY <1>2, <1>4, <1>5, <1>12, <2>1, <2>2, <2>3 DEF MemoryTypes
<1>14. Memory!Apart'
  BY <1>2 DEF MemoryKnown, Memory!Apart, Memory!Distance
<1>15. \A i \in 1 .. n :
          (TurnOf(i))' = IF TurnOf(i) > m THEN TurnOf(i) - m ELSE TurnOf(i) - m + n
  <2> TAKE i \in 1 .. n
  <2>1. (TurnOf(i))' = IF i > rotation' THEN i - rotation' ELSE i + n - rotation'
    BY <1>2 DEF TurnOf
  <2>2. TurnOf(i) = IF i > rotation THEN i - rotation ELSE i + n - rotation
    BY DEF TurnOf
  <2>3. m \in 1 .. n
    BY <1>1
  <2> HIDE DEF n
  <2> QED BY ONLY <1>3, <1>11, <2>1, <2>2, <2>3, i \in 1 .. n
<1>16. WaitersComeFirst'
  <2> SUFFICES ASSUME NEW i \in 1 .. n, NEW j \in 1 .. n, i # j,
                      entries[i].id \in turn'[entries[j].id].there,
                      entries[i].id \notin turn'[entries[j].id].since
               PROVE  (TurnOf(i) < TurnOf(j))'
    BY <1>2 DEF WaitersComeFirst
  <2>1. CASE \E k \in 1 .. m : drawn[k] = entries[j].id
    <3>1. PICK k \in 1 .. m : drawn[k] = entries[j].id
      BY <2>1
    <3>2. j = Spot(k) /\ TurnOf(j) = k
      BY <1>1, <1>4, <1>9, <3>1
    <3>3. entries[i].id \notin Memory!From(drawn, k)
      <4>1. turn'[entries[j].id] = [there |-> Memory!Ids, since |-> Memory!From(drawn, k)]
        BY <1>6, <3>1
      <4> QED BY <4>1
    <3>4. ~ (TurnOf(i) \in k .. m)
      BY <1>10, <3>3
    <3>5. ~ (TurnOf(i) > m) => TurnOf(i) < k
      <4>1. TurnOf(i) \in 1 .. n /\ m \in 1 .. n
        BY <1>1, <1>8
      <4> HIDE DEF n
      <4> QED BY ONLY <1>3, <3>4, <4>1, k \in 1 .. m
    <3>6. TurnOf(i) # k
      BY <1>8, <3>2
    <3>7. TurnOf(i) \in 1 .. n /\ TurnOf(j) \in 1 .. n /\ m \in 1 .. n
      BY <1>1, <1>8
    <3>8. /\ (TurnOf(i))' = IF TurnOf(i) > m THEN TurnOf(i) - m ELSE TurnOf(i) - m + n
          /\ (TurnOf(j))' = IF TurnOf(j) > m THEN TurnOf(j) - m ELSE TurnOf(j) - m + n
      BY <1>15
    <3> HIDE DEF n
    <3> QED BY ONLY <1>3, <3>2, <3>5, <3>6, <3>7, <3>8, k \in 1 .. m
  <2>2. CASE \A k \in 1 .. m : drawn[k] # entries[j].id
    <3>1. /\ entries[i].id \in turn[entries[j].id].there
          /\ entries[i].id \notin turn[entries[j].id].since
          /\ entries[i].id \notin Memory!From(drawn, 1)
      BY <1>6, <1>7, <2>2
    <3>2. TurnOf(i) < TurnOf(j)
      BY <3>1 DEF MemoryKnown, WaitersComeFirst
    <3>3. 1 \in 1 .. m /\ ~ (TurnOf(i) \in 1 .. m)
      BY <1>1, <1>10, <3>1
    <3>4. ~ (TurnOf(j) \in 1 .. m)
      <4>1. entries[j].id \notin Memory!From(drawn, 1)
        BY <2>2 DEF Memory!From, m
      <4> QED BY <1>10, <3>3, <4>1
    <3>5. TurnOf(i) \in 1 .. n /\ TurnOf(j) \in 1 .. n /\ m \in 1 .. n
      BY <1>1, <1>8
    <3>6. /\ (TurnOf(i))' = IF TurnOf(i) > m THEN TurnOf(i) - m ELSE TurnOf(i) - m + n
          /\ (TurnOf(j))' = IF TurnOf(j) > m THEN TurnOf(j) - m ELSE TurnOf(j) - m + n
      BY <1>15
    <3> HIDE DEF n
    <3> QED BY ONLY <1>3, <3>2, <3>3, <3>4, <3>5, <3>6
  <2> QED BY <2>1, <2>2
<1> QED BY <1>13, <1>14, <1>16 DEF MemoryKnown

(* New latents leave the places, and begin the vetting again.              *)
LEMMA MemoryRebases ==
    ASSUME Memory!MemoryAssumption, MemoryKnown,
           NEW latent \in [Memory!Ids -> Latents], Memory!Rebase(latent)
    PROVE  MemoryKnown'
<1> DEFINE E == [id : Successful, latent : Latents]
           n == Len(entries)
<1>1. entries \in Seq(E) /\ DOMAIN entries = 1 .. n /\ n \in Nat
  BY DEF MemoryKnown, MemoryTypes
<1>2. \A i \in 1 .. n : entries[i] \in E
  <2> HIDE DEF E
  <2> QED BY <1>1
<1>3. entries' = [i \in 1 .. n |-> [id |-> entries[i].id, latent |-> latent[entries[i].id]]]
  BY <1>1 DEF Memory!Rebase
<1>4. \A i \in 1 .. n : entries[i].id \in Memory!Ids /\ entries[i].id \in Successful
  BY <1>1, <1>2 DEF Memory!Ids
<1>5. entries' \in Seq(E) /\ Len(entries') = n /\ DOMAIN entries' = 1 .. n
  <2>1. \A i \in 1 .. n : [id |-> entries[i].id, latent |-> latent[entries[i].id]] \in E
    BY <1>4
  <2> HIDE DEF E
  <2> QED BY <1>1, <1>3, <2>1
<1>6. \A i \in 1 .. n : entries'[i].id = entries[i].id
  BY <1>3
<1>7. Memory!Ids' = Memory!Ids
  BY <1>1, <1>5, <1>6 DEF Memory!Ids
<1>8. rotation' = rotation /\ vetted' = {} /\ turn' = turn
  BY DEF Memory!Rebase
<1>9. MemoryTypes'
  <2>1. entries = << >> <=> entries' = << >>
    BY <1>1, <1>5
  <2> QED BY <1>5, <1>6, <1>7, <1>8, <2>1 DEF MemoryKnown, MemoryTypes
<1>10. Memory!Apart'
  BY <1>8 DEF Memory!Apart
<1>11. WaitersComeFirst'
  BY <1>5, <1>6, <1>8 DEF MemoryKnown, WaitersComeFirst, TurnOf
<1> QED BY <1>9, <1>10, <1>11 DEF MemoryKnown

(* What is known of the memory holds at first and is kept.                 *)
LEMMA MemoryBegins == ASSUME Memory!MemoryAssumption, Memory!Init PROVE MemoryKnown
<1>1. entries = << >> /\ Len(entries) = 0 /\ DOMAIN entries = {}
  BY DEF Memory!Init
<1> QED BY <1>1 DEF Memory!Init, Memory!MemoryAssumption, MemoryKnown, MemoryTypes,
                    Memory!Undrawn,
                    Memory!Apart, WaitersComeFirst

(* Every step of the memory keeps what is known of it. *)
LEMMA MemoryStep ==
    ASSUME Memory!MemoryAssumption, MemoryKnown, [Memory!Next]_memoryVars PROVE MemoryKnown'
<1>1. CASE UNCHANGED memoryVars
  BY <1>1 DEF memoryVars, MemoryKnown, MemoryTypes, Memory!Apart, WaitersComeFirst, TurnOf,
              Memory!Ids, Memory!Distance
<1>2. CASE Memory!Next
  BY <1>2, MemoryAdds, MemorySamples, MemoryRebases DEF Memory!Next
<1> QED BY <1>1, <1>2

(* There are as many sample ids as entries.                                *)
LEMMA MemoryLoads == ASSUME Memory!MemoryAssumption, MemoryKnown PROVE Memory!Loads
<1> DEFINE n == Len(entries)
           f == [i \in 1 .. n |-> entries[i].id]
<1>1. DOMAIN entries = 1 .. n /\ n \in Nat
  BY DEF MemoryKnown, MemoryTypes
<1>2. f \in Bijection(1 .. n, Memory!Ids)
  <2>1. \A i, j \in 1 .. n : f[i] = f[j] => i = j
    BY DEF MemoryKnown, MemoryTypes
  <2>2. f \in [1 .. n -> Memory!Ids] /\ \A t \in Memory!Ids : \E i \in 1 .. n : f[i] = t
    BY <1>1 DEF Memory!Ids
  <2> HIDE DEF f
  <2> QED BY <2>1, <2>2 DEF Bijection, Injection, Surjection, IsInjective
<1> HIDE DEF f, n
<1>3. Cardinality(1 .. n) = n /\ IsFiniteSet(1 .. n)
  BY <1>1, FS_Interval, 1 \in Int
<1>4. Cardinality(Memory!Ids) = n
  BY <1>2, <1>3, FS_Bijection DEF ExistsBijection
<1>5. Memory!Cardinality(Memory!Ids) = Cardinality(Memory!Ids)
  BY DEF Memory!Cardinality, Cardinality, Memory!IsFiniteSet, IsFiniteSet
<1> QED BY <1>4, <1>5 DEF Memory!Loads, MemoryKnown, MemoryTypes, n

(* The memory of latents loads from any checkpoint, its latents stay apart,*)
(* and it goes round (LatentMemory of src/rexpolicy/manifold/memory.py),   *)
(* for every capacity and every order of additions, evictions, batches and *)
(* rebases.                                                                *)
THEOREM MemorySound == ASSUME Memory!MemoryAssumption PROVE MCSpec => MemoryIsSound
<1>1. MCInit => (part = "memory" => MemoryKnown)
  BY MemoryBegins DEF MCInit
<1>2. (part = "memory" => MemoryKnown) /\ [MCNext]_allVars => (part = "memory" => MemoryKnown)'
  BY MemoryStep DEF MCNext, allVars, memoryVars
<1>3. (part = "memory" => MemoryKnown) => (part = "memory" => Memory!Loads /\ Memory!Apart)
  BY MemoryLoads DEF MemoryKnown
<1>4. (part = "memory" => MemoryKnown) => [part = "memory" => Memory!GoesRound]_memoryVars
  BY TurnsGoRound
<1> QED
  BY <1>1, <1>2, <1>3, <1>4, PTL DEF MCSpec, MemoryIsSound

-----------------------------------------------------------------------------
(* The update of the trainer.                                              *)

Calls == {"count", "max", "steps", "weight", "finite", "gradient", "compare"}
Causes == {"none", "no samples", "not finite", "samples", "killed"}

(* What the largest rank has: what the "max" collective tells all of them. *)
Peak == CHOOSE v \in {items[r] : r \in Ranks} : \A r \in Ranks : v >= items[r]

UpdateTypes ==
    /\ items \in [Ranks -> 0 .. MaxItems] /\ broken \subseteq Ranks
    /\ rankPc \in [Ranks -> {"run", "wait", "done", "failed"}]
    /\ call \in [Ranks -> [name : Calls, window : Nat]]
    /\ value \in [Ranks -> Nat] /\ cause \in [Ranks -> Causes]
    /\ synced \in [Ranks -> Nat] /\ steps \in [Ranks -> Nat]
    /\ micro \in [Ranks -> Nat] /\ applied \in [Ranks -> Nat]
    /\ DOMAIN exposed = Ranks /\ \A r \in Ranks : exposed[r] \in [Trainer!Samples(r) -> Nat]

(* Where a rank is in its update follows from the collective it is at.     *)
AtCall(r) ==
    /\ call[r].name \in {"count", "max", "steps"} =>
          call[r].window = 0 /\ micro[r] = 0 /\ applied[r] = 0
    /\ call[r].name \in {"count", "max"} => value[r] = items[r]
    /\ call[r].name = "steps" => value[r] = steps[r]
    /\ call[r].name \in {"weight", "finite", "gradient"} =>
          /\ call[r].window \in 1 .. steps[r]
          /\ \/ applied[r] = call[r].window - 1
             \/ applied[r] = call[r].window /\ call[r].name = "gradient" /\ rankPc[r] # "wait"
    /\ call[r].name = "weight" => micro[r] = 0 /\ (items[r] = Peak => value[r] > 0)
    /\ call[r].name = "finite" => micro[r] \in 1 .. Accumulation
    /\ call[r].name = "gradient" => micro[r] = Accumulation
    /\ call[r].name = "compare" =>
          /\ call[r].window = steps[r] /\ applied[r] = steps[r]
          /\ micro[r] = IF steps[r] = 0 THEN 0 ELSE Accumulation
    /\ rankPc[r] = "done" => call[r].name = "compare"

(* What the ranks have agreed on by then. *)
Agreed(r) ==
    /\ call[r].name \notin {"count", "max"} => synced[r] = Peak /\ steps[r] = Trainer!OptimizerSteps(r)
    /\ call[r].name = "max" /\ rankPc[r] = "run" => synced[r] = Peak
    /\ call[r].name # "count" \/ rankPc[r] = "run" => Peak > 0

(* The collective a rank that runs waits in next, and its microbatches.    *)
After(r) ==
    CASE call[r].name = "count" -> <<Trainer!Label("max", 0), 0>>
      [] call[r].name = "max" -> <<Trainer!Label("steps", 0), 0>>
      [] call[r].name = "steps" ->
            IF steps[r] = 0 THEN <<Trainer!Label("compare", 0), 0>>
            ELSE <<Trainer!Label("weight", 1), 0>>
      [] call[r].name = "weight" -> <<Trainer!Label("finite", call[r].window), 1>>
      [] call[r].name = "finite" ->
            IF micro[r] < Accumulation
            THEN <<Trainer!Label("finite", call[r].window), micro[r] + 1>>
            ELSE <<Trainer!Label("gradient", call[r].window), Accumulation>>
      [] call[r].name = "gradient" ->
            IF call[r].window < steps[r] THEN <<Trainer!Label("weight", call[r].window + 1), 0>>
            ELSE <<Trainer!Label("compare", steps[r]), Accumulation>>
      [] OTHER -> <<Trainer!Label("none", 0), 0>>

(* Two ranks are at the same collective, or one of them is there next.     *)
InStep(r, q) ==
    /\ rankPc[r] = rankPc[q] /\ rankPc[r] \in {"run", "wait"} =>
          call[r] = call[q] /\ micro[r] = micro[q]
    /\ rankPc[r] = "run" /\ rankPc[q] = "wait" => <<call[q], micro[q]>> = After(r)
    /\ rankPc[r] = "run" /\ rankPc[q] = "done" => call[r].name = "compare"
    /\ ~ (rankPc[r] = "wait" /\ rankPc[q] = "done")

(* Who fails alone has samples that cannot be used.                        *)
FailsAs(r) ==
    /\ cause[r] = "none" <=> rankPc[r] # "failed"
    /\ cause[r] \in {"no samples", "not finite"} =>
          \A q \in Ranks : cause[q] = cause[r] /\ applied[q] = applied[r]
    /\ cause[r] = "no samples" => \A q \in Ranks : items[q] = 0
    /\ cause[r] \in {"samples", "killed"} => broken # {}

UpdateKnown ==
    /\ UpdateTypes
    /\ \A r \in Ranks : AtCall(r) /\ Agreed(r) /\ FailsAs(r)
    /\ \A r, q \in Ranks : InStep(r, q)
    /\ Trainer!CoversOnce

(* The largest rank exists. *)
LEMMA PeakFacts ==
    ASSUME Trainer!UpdateAssumption, items \in [Ranks -> 0 .. MaxItems]
    PROVE  /\ Peak \in Nat /\ \A r \in Ranks : items[r] <= Peak
           /\ \E r \in Ranks : items[r] = Peak
<1> DEFINE V == {items[r] : r \in Ranks}
<1>1. V \subseteq 0 .. MaxItems /\ V # {} /\ MaxItems \in Nat
  BY DEF Trainer!UpdateAssumption
<1>2. \E v \in V : \A u \in V : u <= v
  <2> HIDE DEF V
  <2> QED BY <1>1, GreatestNatural
<1>3. \E v \in V : \A r \in Ranks : v >= items[r]
  <2>1. PICK v \in V : \A u \in V : u <= v
    BY <1>2
  <2>2. \A r \in Ranks : v >= items[r]
    <3>1. \A r \in Ranks : items[r] \in V /\ items[r] \in Int
      OBVIOUS
    <3>2. v \in Int
      BY <1>1
    <3> HIDE DEF V
    <3> QED BY <2>1, <3>1, <3>2
  <2> QED BY <2>2
<1>4. Peak \in V /\ \A r \in Ranks : Peak >= items[r]
  BY <1>3 DEF Peak
<1> QED BY <1>1, <1>4

(* A step of the schedule has slots, one at least. *)
LEMMA SlotsFacts ==
    ASSUME Trainer!UpdateAssumption PROVE Trainer!SlotsPerStep \in Nat \ {0}
BY DEF Trainer!UpdateAssumption, Trainer!SlotsPerStep

(* The steps of the coverage: each of them has samples to cover. *)
LEMMA CoverageFacts ==
    ASSUME Trainer!UpdateAssumption, NEW n \in Nat
    PROVE  /\ Trainer!CoverageSteps(n) \in Nat
           /\ \A k \in 1 .. Trainer!CoverageSteps(n) : (k - 1) * Trainer!SlotsPerStep < n
<1> DEFINE s == Trainer!SlotsPerStep
           m == n + s - 1
<1>1. s \in Nat \ {0} /\ m \in Nat
  BY SlotsFacts
<1> HIDE DEF s
<1>2. PICK q \in Nat, r \in 0 .. s - 1 : m = s * q + r
  <2> HIDE DEF m
  <2> QED BY <1>1, Quotient
<1>3. m \div s = q
  <2> HIDE DEF m
  <2> QED BY <1>1, <1>2, SMTT(60)
<1>4. ASSUME NEW k \in 1 .. q PROVE (k - 1) * s < n
  <2>1. s * q = s * (q - k) + s * (k - 1) + s
    BY <1>1
  <2>2. s * (q - k) \in Nat /\ s * (k - 1) \in Nat
    BY <1>1
  <2>3. s * (k - 1) = (k - 1) * s
    BY <1>1
  <2> DEFINE a == s * (q - k)
             b == s * (k - 1)
             c == s * q
  <2>4. a \in Nat /\ b \in Nat /\ c = a + b + s /\ n + s - 1 = c + r
    BY <1>2, <2>1, <2>2
  <2>5. b < n
    <3> HIDE DEF a, b, c, m
    <3> QED BY <1>1, <2>4
  <2> QED BY <2>3, <2>5
<1> QED BY <1>3, <1>4 DEF Trainer!CoverageSteps, s

(* What a rank contributes is nothing only if it has nothing. *)
LEMMA WeightFacts ==
    ASSUME NEW n \in Nat, NEW w \in [1 .. n -> Nat]
    PROVE  Trainer!Weight(w) \in Nat /\ (Trainer!Weight(w) = 0 <=> \A i \in 1 .. n : w[i] = 0)
<1>1. Trainer!Weight(w) = (CHOOSE g : SumOf(g, 1 .. n, w))[1 .. n]
  BY DEF Trainer!Weight, Trainer!MapThenSumSet, Trainer!MapThenFoldSet, SumOf
<1>2. IsFiniteSet(1 .. n)
  BY FS_Interval
<1> QED BY <1>1, <1>2, SumFacts

(* What all ranks report adds up to zero only if each of them reports zero. *)
LEMMA TotalFacts ==
    ASSUME Trainer!UpdateAssumption, value \in [Ranks -> Nat]
    PROVE  Trainer!Total \in Nat /\ (Trainer!Total = 0 <=> \A r \in Ranks : value[r] = 0)
<1>1. Trainer!Total = (CHOOSE g : SumOf(g, Ranks, value))[Ranks]
  BY DEF Trainer!Total, Trainer!MapThenSumSet, Trainer!MapThenFoldSet, SumOf
<1>2. IsFiniteSet(Ranks)
  <2>1. Trainer!IsFiniteSet(Ranks) <=> IsFiniteSet(Ranks)
    BY DEF Trainer!IsFiniteSet, IsFiniteSet
  <2> QED BY <2>1 DEF Trainer!UpdateAssumption
<1> QED BY <1>1, <1>2, SumFacts

(* A window of the largest rank has weight, be it of the coverage or not.  *)
LEMMA WindowFacts ==
    ASSUME Trainer!UpdateAssumption, UpdateTypes, NEW r \in Ranks, NEW k \in Nat \ {0},
           NEW w \in Trainer!Windows(r, k)
    PROVE  /\ w \in [Trainer!Samples(r) -> Nat] /\ Trainer!Weight(w) \in Nat
           /\ k <= Trainer!CoverageSteps(synced[r]) => w = Trainer!CoverageWindow(r, k)
           /\ items[r] = synced[r] /\ items[r] > 0 => Trainer!Weight(w) > 0
<1> DEFINE n == items[r]
           s == Trainer!SlotsPerStep
<1>1. n \in Nat /\ s \in Nat \ {0} /\ Trainer!Samples(r) = 1 .. n
  BY SlotsFacts DEF UpdateTypes, Trainer!Samples
<1>2. CASE k <= Trainer!CoverageSteps(synced[r]) \/ n = 0
  <2>1. w = Trainer!CoverageWindow(r, k)
    BY <1>2 DEF Trainer!Windows
  <2>2. w \in [1 .. n -> Nat] /\ \A i \in 1 .. n : w[i] = IF i \in Trainer!Slots(k) THEN 1 ELSE 0
    BY <1>1, <2>1 DEF Trainer!CoverageWindow
  <2>3. ASSUME n = synced[r], n > 0 PROVE Trainer!Weight(w) # 0
    <3> DEFINE a == (k - 1) * s
               b == k * s
    <3>1. a \in Nat /\ a + 1 \in 1 .. n
      <4>1. a \in Nat
        BY <1>1
      <4>2. k \in 1 .. Trainer!CoverageSteps(n) /\ (k - 1) * s < n
        <5>1. k <= Trainer!CoverageSteps(n)
          BY <1>2, <2>3
        <5> HIDE DEF n
        <5>2. /\ Trainer!CoverageSteps(n) \in Nat
              /\ \A l \in 1 .. Trainer!CoverageSteps(n) : (l - 1) * Trainer!SlotsPerStep < n
          BY <1>1, CoverageFacts
        <5>3. k \in 1 .. Trainer!CoverageSteps(n)
          BY <5>1, <5>2
        <5> QED BY <5>2, <5>3
      <4> HIDE DEF a
      <4> QED BY <1>1, <4>1, <4>2 DEF a
    <3>2. b = a + s
      BY <1>1
    <3>3. a + 1 \in Trainer!Slots(k)
      <4>1. b \in Int
        BY <1>1
      <4>2. a + 1 \in a + 1 .. b
        <5> HIDE DEF a, b
        <5> QED BY <1>1, <3>1, <3>2, <4>1
      <4> QED BY <4>2 DEF Trainer!Slots
    <3> HIDE DEF a
    <3> QED BY <1>1, <2>2, <3>1, <3>3, WeightFacts
  <2> QED BY <1>1, <2>1, <2>2, <2>3, WeightFacts
<1>3. CASE ~ (k <= Trainer!CoverageSteps(synced[r]) \/ n = 0)
  <2>1. w \in [1 .. n -> 0 .. s] /\ Trainer!Weight(w) = s
    BY <1>1, <1>3 DEF Trainer!Windows
  <2> QED BY <1>1, <1>3, <2>1
<1> QED BY <1>2, <1>3

(* Every rank is at its first collective. *)
LEMMA UpdateBegins ==
    ASSUME Trainer!UpdateAssumption, Trainer!Init PROVE UpdateKnown
<1>1. UpdateTypes
  BY DEF Trainer!Init, Trainer!UpdateAssumption, UpdateTypes, Calls, Causes, Trainer!Label
<1>2. \A r \in Ranks : call[r] = Trainer!Label("count", 0) /\ rankPc[r] = "wait"
  BY DEF Trainer!Init
<1>3. \A r \in Ranks : AtCall(r)
  BY <1>2 DEF Trainer!Init, AtCall, Trainer!Label
<1>4. \A r \in Ranks : Agreed(r)
  BY <1>2 DEF Agreed, Trainer!Label
<1>5. \A r \in Ranks : FailsAs(r)
  BY <1>2 DEF Trainer!Init, FailsAs
<1>6. \A r, q \in Ranks : InStep(r, q)
  BY <1>2 DEF Trainer!Init, InStep
<1>7. Trainer!CoversOnce
  <2> SUFFICES ASSUME NEW r \in Ranks, NEW i \in Trainer!Samples(r)
               PROVE  exposed[r][i] = 0 /\ ~ (i <= call[r].window * Trainer!SlotsPerStep)
    BY DEF Trainer!CoversOnce
  <2>1. call[r].window * Trainer!SlotsPerStep = 0
    BY <1>2, SlotsFacts DEF Trainer!Label
  <2>2. i \in Nat \ {0}
    BY <1>1 DEF UpdateTypes, Trainer!Samples
  <2> QED BY <2>1, <2>2 DEF Trainer!Init
<1> QED BY <1>1, <1>3, <1>4, <1>5, <1>6, <1>7 DEF UpdateKnown

(* A rank that goes to its next collective meets the others there.         *)
LEMMA GoesToNext ==
    ASSUME UpdateTypes, NEW r \in Ranks, rankPc[r] = "run", call[r].name # "compare",
           \A p, q \in Ranks : InStep(p, q),
           \A q \in Ranks : Agreed(q),
           \A q \in Ranks \ {r} : steps'[q] = steps[q],
           synced' = synced, items' = items,
           rankPc' = [rankPc EXCEPT ![r] = "wait"],
           call' = [call EXCEPT ![r] = After(r)[1]],
           micro' = [micro EXCEPT ![r] = After(r)[2]]
    PROVE  \A p, q \in Ranks : InStep(p, q)'
<1>1. \A q \in Ranks \ {r} :
         /\ rankPc'[q] = rankPc[q] /\ call'[q] = call[q] /\ micro'[q] = micro[q]
         /\ After(q)' = After(q)
  BY DEF UpdateTypes, After, Trainer!Label
<1>2. /\ rankPc'[r] = "wait" /\ call'[r] = After(r)[1] /\ micro'[r] = After(r)[2]
  BY DEF UpdateTypes
<1>3. ASSUME NEW q \in Ranks, rankPc[q] = "run" PROVE After(q) = After(r)
  <2>1. call[q] = call[r] /\ micro[q] = micro[r]
    BY <1>3 DEF InStep
  <2>2. call[q].name \notin {"count", "max"} => steps[q] = steps[r]
    BY <2>1 DEF Agreed, Trainer!OptimizerSteps
  <2> QED BY <2>1, <2>2 DEF After
<1>4. After(r) = <<After(r)[1], After(r)[2]>>
  BY DEF After
<1>5. ASSUME NEW q \in Ranks \ {r} PROVE InStep(r, q)' /\ InStep(q, r)'
  <2>1. rankPc[q] # "done"
    BY DEF InStep
  <2>2. rankPc[q] = "wait" => call[q] = After(r)[1] /\ micro[q] = After(r)[2]
    <3>1. rankPc[q] = "wait" => <<call[q], micro[q]>> = After(r)
      BY DEF InStep
    <3> QED BY <3>1
  <2>3. rankPc[q] = "run" => After(q) = After(r)
    BY <1>3
  <2> HIDE DEF After
  <2> QED BY <1>1, <1>2, <1>4, <2>1, <2>2, <2>3 DEF InStep
<1>6. InStep(r, r)'
  BY <1>2 DEF InStep
<1>7. ASSUME NEW p \in Ranks \ {r}, NEW q \in Ranks \ {r} PROVE InStep(p, q)'
  <2>1. InStep(p, q)
    OBVIOUS
  <2> QED BY <1>1, <2>1 DEF InStep
<1> QED BY <1>5, <1>6, <1>7

(* What a step of a rank leaves of the others.                             *)
LEMMA OthersStay ==
    ASSUME UpdateKnown, NEW r \in Ranks, items' = items, synced' = synced,
           rankPc[r] = "run", cause' = cause, broken' = broken,
           NEW q \in Ranks, q # r,
           rankPc'[q] = rankPc[q], call'[q] = call[q], micro'[q] = micro[q],
           value'[q] = value[q], steps'[q] = steps[q], applied'[q] = applied[q]
    PROVE  AtCall(q)' /\ Agreed(q)' /\ Peak' = Peak
<1>1. Peak' = Peak
  BY DEF Peak
<1>2. AtCall(q) /\ Agreed(q)
  BY DEF UpdateKnown
<1> QED BY <1>1, <1>2 DEF AtCall, Agreed, Trainer!OptimizerSteps, Trainer!CoverageSteps,
                          Trainer!SlotsPerStep

(* Nothing but a next window or the synchronized count moves the coverage. *)
LEMMA CoversStays ==
    ASSUME Trainer!CoversOnce, exposed' = exposed, items' = items, synced' = synced,
           \A q \in Ranks : /\ call'[q].window = call[q].window
                            /\ rankPc[q] = "failed" => rankPc'[q] = "failed"
    PROVE  Trainer!CoversOnce'
BY DEF Trainer!CoversOnce, Trainer!CoverageSteps, Trainer!SlotsPerStep, Trainer!Samples

(* As long as a rank runs, nobody has failed but for its samples. *)
LEMMA FailsStay ==
    ASSUME UpdateKnown, NEW r \in Ranks, rankPc[r] = "run",
           cause' = cause, broken' = broken, items' = items,
           \A q \in Ranks : rankPc'[q] = "failed" <=> rankPc[q] = "failed"
    PROVE  \A q \in Ranks : FailsAs(q)'
<1>1. \A q \in Ranks : cause[q] \notin {"no samples", "not finite"}
  BY DEF UpdateKnown, FailsAs
<1> QED BY <1>1 DEF UpdateKnown, FailsAs

(* A rank that goes to its next collective keeps what is known, if it      *)
(* comes there as it should.                                               *)
LEMMA NextKeeps ==
    ASSUME UpdateKnown, NEW r \in Ranks, rankPc[r] = "run", call[r].name # "compare",
           items' = items, broken' = broken, synced' = synced, cause' = cause,
           rankPc' = [rankPc EXCEPT ![r] = "wait"],
           call' = [call EXCEPT ![r] = After(r)[1]],
           micro' = [micro EXCEPT ![r] = After(r)[2]],
           \A q \in Ranks \ {r} :
              value'[q] = value[q] /\ steps'[q] = steps[q] /\ applied'[q] = applied[q],
           UpdateTypes', AtCall(r)', Agreed(r)', Trainer!CoversOnce'
    PROVE  UpdateKnown'
<1>1. UpdateTypes /\ \A q \in Ranks : Agreed(q)
  BY DEF UpdateKnown
<1>2. \A p, q \in Ranks : InStep(p, q)'
  <2>1. \A p, q \in Ranks : InStep(p, q)
    BY DEF UpdateKnown
  <2> QED BY <1>1, <2>1, GoesToNext
<1>3. \A q \in Ranks \ {r} :
         rankPc'[q] = rankPc[q] /\ call'[q] = call[q] /\ micro'[q] = micro[q]
  BY <1>1 DEF UpdateTypes
<1>4. \A q \in Ranks \ {r} : AtCall(q)' /\ Agreed(q)'
  BY <1>3, OthersStay
<1>5. \A q \in Ranks : FailsAs(q)'
  <2>1. rankPc'[r] = "wait"
    BY <1>1 DEF UpdateTypes
  <2>2. \A q \in Ranks : rankPc'[q] = "failed" <=> rankPc[q] = "failed"
    BY <1>3, <2>1
  <2> QED BY <2>2, FailsStay
<1> QED BY <1>2, <1>4, <1>5 DEF UpdateKnown

(* The largest number of samples depends on the samples alone. *)
LEMMA PeakStays == ASSUME items' = items PROVE Peak' = Peak
BY DEF Peak

(* A rank that has counted its samples waits for the largest count. *)
LEMMA MaxKeeps ==
    ASSUME Trainer!UpdateAssumption, UpdateKnown, NEW r \in Ranks, Trainer!ReduceMax(r)
    PROVE  UpdateKnown'
<1>1. /\ rankPc[r] = "run" /\ call[r].name = "count"
      /\ rankPc' = [rankPc EXCEPT ![r] = "wait"]
      /\ call' = [call EXCEPT ![r] = Trainer!Label("max", 0)]
      /\ value' = [value EXCEPT ![r] = items[r]]
      /\ UNCHANGED <<items, broken, synced, steps, micro, exposed, applied, cause>>
  BY DEF Trainer!ReduceMax, Trainer!Running, Trainer!Await
<1>2. UpdateTypes /\ AtCall(r) /\ Agreed(r)
  BY DEF UpdateKnown
<1>3. After(r) = <<Trainer!Label("max", 0), 0>>
  BY <1>1 DEF After
<1>4. micro' = [micro EXCEPT ![r] = 0]
  BY <1>1, <1>2 DEF AtCall, UpdateTypes
<1>5. /\ rankPc'[r] = "wait" /\ call'[r] = Trainer!Label("max", 0) /\ value'[r] = items[r]
      /\ \A q \in Ranks \ {r} : value'[q] = value[q]
  BY <1>1, <1>2 DEF UpdateTypes
<1>6. UpdateTypes'
  BY <1>1, <1>2, <1>4 DEF UpdateTypes, Trainer!Label, Calls, Trainer!Samples
<1>7. AtCall(r)' /\ Agreed(r)'
  BY <1>1, <1>2, <1>5, PeakStays DEF AtCall, Agreed, Trainer!Label
<1>8. Trainer!CoversOnce'
  <2>1. \A q \in Ranks : /\ call'[q].window = call[q].window
                         /\ rankPc[q] = "failed" => rankPc'[q] = "failed"
    BY <1>1, <1>2 DEF UpdateTypes, AtCall, Trainer!Label
  <2> QED BY <1>1, <2>1, CoversStays DEF UpdateKnown
<1>9. /\ call' = [call EXCEPT ![r] = After(r)[1]] /\ micro' = [micro EXCEPT ![r] = After(r)[2]]
      /\ \A q \in Ranks \ {r} :
            value'[q] = value[q] /\ steps'[q] = steps[q] /\ applied'[q] = applied[q]
  <2>1. After(r)[1] = Trainer!Label("max", 0) /\ After(r)[2] = 0
    BY <1>3
  <2>2. call' = [call EXCEPT ![r] = After(r)[1]] /\ micro' = [micro EXCEPT ![r] = After(r)[2]]
    BY ONLY <1>1, <1>4, <2>1
  <2> QED BY <1>1, <1>5, <2>2
<1> QED BY <1>1, <1>6, <1>7, <1>8, <1>9, NextKeeps

(* A rank that knows the largest count plans its steps by it, or fails over its samples. *)
LEMMA BuildKeeps ==
    ASSUME Trainer!UpdateAssumption, UpdateKnown, NEW r \in Ranks, Trainer!BuildSchedule(r)
    PROVE  UpdateKnown'
<1>1. /\ rankPc[r] = "run" /\ call[r].name = "max"
      /\ UNCHANGED <<items, broken, synced, micro, exposed, applied>>
  BY DEF Trainer!BuildSchedule, Trainer!Running
<1>2. UpdateTypes /\ AtCall(r) /\ Agreed(r)
  BY DEF UpdateKnown
<1>3. CASE r \in broken
  <2>1. /\ rankPc' = [rankPc EXCEPT ![r] = "failed"]
        /\ cause' = [cause EXCEPT ![r] = "samples"]
        /\ UNCHANGED <<call, value, steps>>
    BY <1>3 DEF Trainer!BuildSchedule, Trainer!Fail
  <2>2. UpdateTypes'
    BY <1>1, <1>2, <2>1 DEF UpdateTypes, Causes, Trainer!Samples
  <2>3. /\ rankPc'[r] = "failed" /\ cause'[r] = "samples"
        /\ \A q \in Ranks \ {r} : rankPc'[q] = rankPc[q] /\ cause'[q] = cause[q]
    BY <1>2, <2>1 DEF UpdateTypes
  <2>4. \A q \in Ranks : AtCall(q)' /\ Agreed(q)'
    <3> TAKE q \in Ranks
    <3>1. AtCall(q) /\ Agreed(q)
      BY DEF UpdateKnown
    <3>2. rankPc'[q] = rankPc[q] \/ (rankPc[q] = "run" /\ rankPc'[q] = "failed")
      BY <1>1, <2>3
    <3> QED BY <1>1, <2>1, <3>1, <3>2, PeakStays
            DEF AtCall, Agreed, Trainer!OptimizerSteps, Trainer!CoverageSteps,
                Trainer!SlotsPerStep
  <2>5. \A q \in Ranks : FailsAs(q)'
    <3>1. \A q \in Ranks : cause[q] \notin {"no samples", "not finite"}
      BY <1>1 DEF UpdateKnown, FailsAs
    <3>2. \A q \in Ranks : /\ cause[q] = "none" <=> rankPc[q] # "failed"
                           /\ cause[q] \in {"samples", "killed"} => broken # {}
      BY DEF UpdateKnown, FailsAs
    <3>3. broken' # {}
      BY <1>1, <1>3
    <3> QED BY <2>3, <3>1, <3>2, <3>3 DEF FailsAs
  <2>6. \A p, q \in Ranks : InStep(p, q)'
    <3> SUFFICES ASSUME NEW p \in Ranks, NEW q \in Ranks PROVE InStep(p, q)'
      OBVIOUS
    <3>1. InStep(p, q)
      BY DEF UpdateKnown
    <3>2. After(p)' = After(p)
      BY <1>1, <2>1 DEF After, Trainer!Label
    <3> QED BY <1>1, <2>1, <2>3, <3>1, <3>2 DEF InStep
  <2>7. Trainer!CoversOnce'
    BY <1>1, <2>1, <2>3, CoversStays DEF UpdateKnown
  <2> QED BY <2>2, <2>4, <2>5, <2>6, <2>7 DEF UpdateKnown
<1>4. CASE r \notin broken
  <2> DEFINE n == Trainer!OptimizerSteps(r)
  <2>1. /\ steps' = [steps EXCEPT ![r] = n]
        /\ rankPc' = [rankPc EXCEPT ![r] = "wait"]
        /\ call' = [call EXCEPT ![r] = Trainer!Label("steps", 0)]
        /\ value' = [value EXCEPT ![r] = n]
        /\ cause' = cause
    BY <1>4 DEF Trainer!BuildSchedule, Trainer!Await
  <2>2. n \in Nat
    BY <1>2, CoverageFacts DEF UpdateTypes, Trainer!OptimizerSteps, Trainer!UpdateAssumption
  <2>3. (Trainer!OptimizerSteps(r))' = n
    BY <1>1 DEF Trainer!OptimizerSteps, Trainer!CoverageSteps, Trainer!SlotsPerStep
  <2> HIDE DEF n
  <2>4. After(r) = <<Trainer!Label("steps", 0), 0>>
    BY <1>1 DEF After
  <2>5. micro' = [micro EXCEPT ![r] = 0]
    BY <1>1, <1>2 DEF AtCall, UpdateTypes
  <2>6. /\ rankPc'[r] = "wait" /\ call'[r] = Trainer!Label("steps", 0)
        /\ value'[r] = n /\ steps'[r] = n
        /\ \A q \in Ranks \ {r} : value'[q] = value[q] /\ steps'[q] = steps[q]
    BY <1>2, <2>1 DEF UpdateTypes
  <2>7. UpdateTypes'
    BY <1>1, <1>2, <2>1, <2>2 DEF UpdateTypes, Trainer!Label, Calls, Trainer!Samples
  <2>8. AtCall(r)' /\ Agreed(r)'
    BY <1>1, <1>2, <2>3, <2>6, PeakStays DEF AtCall, Agreed, Trainer!Label
  <2>9. Trainer!CoversOnce'
    <3>1. \A q \in Ranks : /\ call'[q].window = call[q].window
                           /\ rankPc[q] = "failed" => rankPc'[q] = "failed"
      BY <1>1, <1>2, <2>1 DEF UpdateTypes, AtCall, Trainer!Label
    <3> QED BY <1>1, <3>1, CoversStays DEF UpdateKnown
  <2>10. /\ call' = [call EXCEPT ![r] = After(r)[1]] /\ micro' = [micro EXCEPT ![r] = After(r)[2]]
         /\ \A q \in Ranks \ {r} :
               value'[q] = value[q] /\ steps'[q] = steps[q] /\ applied'[q] = applied[q]
    <3>1. After(r)[1] = Trainer!Label("steps", 0) /\ After(r)[2] = 0
      BY <2>4
    <3>2. call' = [call EXCEPT ![r] = After(r)[1]] /\ micro' = [micro EXCEPT ![r] = After(r)[2]]
      BY ONLY <2>1, <2>5, <3>1
    <3> QED BY <1>1, <2>6, <3>2
  <2> QED BY <1>1, <2>1, <2>7, <2>8, <2>9, <2>10, NextKeeps
<1> QED BY <1>3, <1>4

(* A rank that begins a window has made no microbatch of it. *)
LEMMA WindowKeeps ==
    ASSUME Trainer!UpdateAssumption, UpdateKnown, NEW r \in Ranks, Trainer!BeginWindow(r)
    PROVE  UpdateKnown'
<1> DEFINE k == call[r].window + 1
           s == Trainer!SlotsPerStep
<1>1. /\ Trainer!Between(r) /\ k <= steps[r] /\ micro' = [micro EXCEPT ![r] = 0]
      /\ UNCHANGED <<items, broken, synced, steps, applied, cause>>
  BY DEF Trainer!BeginWindow
<1>2. PICK w \in Trainer!Windows(r, k) :
         /\ exposed' = [exposed EXCEPT ![r] = [i \in Trainer!Samples(r) |-> exposed[r][i] + w[i]]]
         /\ rankPc' = [rankPc EXCEPT ![r] = "wait"]
         /\ call' = [call EXCEPT ![r] = Trainer!Label("weight", k)]
         /\ value' = [value EXCEPT ![r] = Trainer!Weight(w)]
  BY DEF Trainer!BeginWindow, Trainer!Await
<1>3. UpdateTypes /\ AtCall(r) /\ Agreed(r)
  BY DEF UpdateKnown
<1>4. /\ rankPc[r] = "run" /\ call[r].name \in {"steps", "gradient"}
      /\ call[r].name = "gradient" => applied[r] = call[r].window
      /\ k \in Nat \ {0} /\ k \in 1 .. steps[r] /\ applied[r] = k - 1
  BY <1>1, <1>3 DEF Trainer!Between, Trainer!Running, AtCall, UpdateTypes
<1>5. synced[r] = Peak /\ Peak > 0
  BY <1>3, <1>4 DEF Agreed
<1>6. /\ w \in [Trainer!Samples(r) -> Nat] /\ Trainer!Weight(w) \in Nat
      /\ k <= Trainer!CoverageSteps(synced[r]) => w = Trainer!CoverageWindow(r, k)
      /\ items[r] = Peak => Trainer!Weight(w) > 0
  <2> HIDE DEF k
  <2> QED BY <1>3, <1>4, <1>5, WindowFacts
<1>7. After(r) = <<Trainer!Label("weight", k), 0>>
  <2>1. CASE call[r].name = "steps"
    BY <1>3, <1>4, <2>1 DEF After, AtCall
  <2>2. CASE call[r].name = "gradient"
    <3>1. call[r].window < steps[r]
      BY <1>3, <1>4 DEF UpdateTypes
    <3> QED BY <2>2, <3>1 DEF After
  <2> QED BY <1>4, <2>1, <2>2
<1> HIDE DEF k
<1>8. /\ rankPc'[r] = "wait" /\ call'[r] = Trainer!Label("weight", k)
      /\ value'[r] = Trainer!Weight(w) /\ micro'[r] = 0
      /\ \A q \in Ranks \ {r} : /\ value'[q] = value[q] /\ call'[q] = call[q]
                                /\ rankPc'[q] = rankPc[q] /\ exposed'[q] = exposed[q]
  BY <1>1, <1>2, <1>3 DEF UpdateTypes
<1>9. exposed'[r] = [i \in Trainer!Samples(r) |-> exposed[r][i] + w[i]]
  BY <1>2, <1>3 DEF UpdateTypes
<1>10. UpdateTypes'
  <2>1. \A q \in Ranks : exposed'[q] \in [Trainer!Samples(q) -> Nat]
    <3>1. exposed[r] \in [Trainer!Samples(r) -> Nat]
      BY <1>3 DEF UpdateTypes
    <3>2. exposed'[r] \in [Trainer!Samples(r) -> Nat]
      BY <1>6, <1>9, <3>1
    <3> QED BY <1>3, <1>8, <3>2 DEF UpdateTypes
  <2>2. DOMAIN exposed' = Ranks
    BY <1>2, <1>3 DEF UpdateTypes
  <2>3. \A q \in Ranks : Trainer!Samples(q)' = Trainer!Samples(q)
    BY <1>1 DEF Trainer!Samples
  <2>4. \A q \in Ranks : exposed'[q] \in [Trainer!Samples(q)' -> Nat]
    BY <2>1, <2>3
  <2>5. Trainer!Label("weight", k) \in [name : Calls, window : Nat]
    BY <1>4 DEF Trainer!Label, Calls
  <2> QED BY <1>1, <1>2, <1>3, <1>6, <2>2, <2>4, <2>5 DEF UpdateTypes
<1>11. AtCall(r)' /\ Agreed(r)'
  <2>1. call'[r].name = "weight" /\ call'[r].window = k
    BY <1>8 DEF Trainer!Label
  <2>2. /\ steps'[r] = steps[r] /\ applied'[r] = applied[r] /\ items'[r] = items[r]
        /\ synced'[r] = synced[r]
    BY <1>1
  <2>3. (Trainer!OptimizerSteps(r))' = Trainer!OptimizerSteps(r)
    BY <1>1 DEF Trainer!OptimizerSteps, Trainer!CoverageSteps, Trainer!SlotsPerStep
  <2>4. steps[r] = Trainer!OptimizerSteps(r)
    BY <1>3, <1>4 DEF Agreed
  <2> QED BY <1>1, <1>4, <1>5, <1>6, <1>8, <2>1, <2>2, <2>3, <2>4, PeakStays DEF AtCall, Agreed
<1>12. Trainer!CoversOnce'
  <2> SUFFICES ASSUME NEW q \in Ranks, NEW i \in Trainer!Samples(q),
                      call'[q].window <= Trainer!CoverageSteps(synced[q]), rankPc'[q] # "failed"
               PROVE  exposed'[q][i] = IF i <= call'[q].window * s THEN 1 ELSE 0
    BY <1>1 DEF Trainer!CoversOnce, Trainer!CoverageSteps, Trainer!SlotsPerStep, Trainer!Samples
  <2>1. CASE q # r
    BY <1>8, <2>1 DEF UpdateKnown, Trainer!CoversOnce
  <2>2. CASE q = r
    <3>1. call'[q].window = k /\ k <= Trainer!CoverageSteps(synced[r])
      BY <1>8, <2>2 DEF Trainer!Label
    <3>2. call[r].window = k - 1
      BY <1>3 DEF k, UpdateTypes
    <3>3. Trainer!CoverageSteps(synced[r]) \in Nat
      BY <1>3, CoverageFacts DEF UpdateTypes
    <3>4. exposed[r][i] = IF i <= (k - 1) * s THEN 1 ELSE 0
      <4>1. call[r].window <= Trainer!CoverageSteps(synced[r])
        BY <1>4, <3>1, <3>2, <3>3
      <4> QED BY <1>4, <2>2, <3>2, <4>1 DEF UpdateKnown, Trainer!CoversOnce
    <3>5. w[i] = IF i \in Trainer!Slots(k) THEN 1 ELSE 0
      BY <1>6, <2>2, <3>1 DEF Trainer!CoverageWindow
    <3>6. exposed'[r][i] = exposed[r][i] + w[i]
      BY <1>9, <2>2
    <3> DEFINE a == (k - 1) * s
               b == k * s
    <3>7. s \in Nat \ {0}
      BY SlotsFacts
    <3> HIDE DEF s
    <3>8. a \in Nat /\ b \in Nat /\ b = a + s /\ i \in Nat
      BY <1>3, <1>4, <3>7 DEF Trainer!Samples, UpdateTypes
    <3>9. w[i] = IF i \in a + 1 .. b THEN 1 ELSE 0
      BY <3>5 DEF Trainer!Slots, s
    <3> HIDE DEF a, b
    <3>10. exposed'[r][i] = IF i <= b THEN 1 ELSE 0
      BY <3>4, <3>6, <3>7, <3>8, <3>9 DEF a
    <3> QED BY <2>2, <3>1, <3>10 DEF b
  <2> QED BY <2>1, <2>2
<1>13. /\ call' = [call EXCEPT ![r] = After(r)[1]] /\ micro' = [micro EXCEPT ![r] = After(r)[2]]
       /\ call[r].name # "compare"
  <2>1. After(r)[1] = Trainer!Label("weight", k) /\ After(r)[2] = 0
    BY <1>7
  <2> QED BY <1>1, <1>2, <1>4, <2>1
<1> QED BY <1>1, <1>2, <1>4, <1>8, <1>10, <1>11, <1>12, <1>13, NextKeeps

(* A forward pass counts one microbatch, and waits to hear whether all are finite. *)
LEMMA ForwardKeeps ==
    ASSUME Trainer!UpdateAssumption, UpdateKnown, NEW r \in Ranks, Trainer!Forward(r)
    PROVE  UpdateKnown'
<1> DEFINE k == call[r].window
<1>1. /\ rankPc[r] = "run" /\ call[r].name \in {"weight", "finite"} /\ micro[r] < Accumulation
      /\ micro' = [micro EXCEPT ![r] = micro[r] + 1]
      /\ UNCHANGED <<items, broken, synced, steps, exposed, applied, cause>>
  BY DEF Trainer!Forward, Trainer!Running
<1>2. PICK v \in {0, 1} :
         /\ rankPc' = [rankPc EXCEPT ![r] = "wait"]
         /\ call' = [call EXCEPT ![r] = Trainer!Label("finite", k)]
         /\ value' = [value EXCEPT ![r] = v]
  BY DEF Trainer!Forward, Trainer!Await
<1>3. UpdateTypes /\ AtCall(r) /\ Agreed(r)
  BY DEF UpdateKnown
<1>4. After(r) = <<Trainer!Label("finite", k), micro[r] + 1>>
  <2>1. call[r].name = "weight" => micro[r] + 1 = 1
    BY <1>3 DEF AtCall
  <2> QED BY <1>1, <2>1 DEF After
<1>5. /\ rankPc'[r] = "wait" /\ call'[r] = Trainer!Label("finite", k) /\ micro'[r] = micro[r] + 1
      /\ \A q \in Ranks \ {r} : value'[q] = value[q] /\ call'[q] = call[q]
                                /\ rankPc'[q] = rankPc[q]
  BY <1>1, <1>2, <1>3 DEF UpdateTypes
<1>6. UpdateTypes'
  BY <1>1, <1>2, <1>3 DEF UpdateTypes, Trainer!Label, Calls, Trainer!Samples
<1>7. AtCall(r)' /\ Agreed(r)'
  <2>1. micro'[r] \in 1 .. Accumulation
    BY <1>1, <1>3, <1>5 DEF UpdateTypes, Trainer!UpdateAssumption
  <2>2. (Trainer!OptimizerSteps(r))' = Trainer!OptimizerSteps(r)
    BY <1>1 DEF Trainer!OptimizerSteps, Trainer!CoverageSteps, Trainer!SlotsPerStep
  <2> QED BY <1>1, <1>3, <1>5, <2>1, <2>2, PeakStays DEF AtCall, Agreed, Trainer!Label
<1>8. Trainer!CoversOnce'
  <2>1. \A q \in Ranks : /\ call'[q].window = call[q].window
                         /\ rankPc[q] = "failed" => rankPc'[q] = "failed"
    BY <1>1, <1>5 DEF Trainer!Label
  <2> QED BY <1>1, <2>1, CoversStays DEF UpdateKnown
<1>9. /\ call' = [call EXCEPT ![r] = After(r)[1]] /\ micro' = [micro EXCEPT ![r] = After(r)[2]]
      /\ \A q \in Ranks \ {r} :
            value'[q] = value[q] /\ steps'[q] = steps[q] /\ applied'[q] = applied[q]
  <2>1. After(r)[1] = Trainer!Label("finite", k) /\ After(r)[2] = micro[r] + 1
    BY <1>4
  <2>2. call' = [call EXCEPT ![r] = After(r)[1]] /\ micro' = [micro EXCEPT ![r] = After(r)[2]]
    BY ONLY <1>1, <1>2, <2>1
  <2> QED BY <1>1, <1>5, <2>2
<1> QED BY <1>1, <1>2, <1>6, <1>7, <1>8, <1>9, NextKeeps

(* After its last microbatch a rank waits for the gradient of the window. *)
LEMMA BackwardKeeps ==
    ASSUME Trainer!UpdateAssumption, UpdateKnown, NEW r \in Ranks, Trainer!Backward(r)
    PROVE  UpdateKnown'
<1> DEFINE k == call[r].window
<1>1. /\ rankPc[r] = "run" /\ call[r].name = "finite" /\ micro[r] = Accumulation
      /\ rankPc' = [rankPc EXCEPT ![r] = "wait"]
      /\ call' = [call EXCEPT ![r] = Trainer!Label("gradient", k)]
      /\ value' = [value EXCEPT ![r] = 1]
      /\ UNCHANGED <<items, broken, synced, steps, micro, exposed, applied, cause>>
  BY DEF Trainer!Backward, Trainer!Running, Trainer!Await
<1>2. UpdateTypes /\ AtCall(r) /\ Agreed(r) /\ Accumulation \in Nat \ {0}
  BY DEF UpdateKnown, Trainer!UpdateAssumption
<1>3. After(r) = <<Trainer!Label("gradient", k), Accumulation>>
  BY <1>1, <1>2 DEF After
<1>4. /\ rankPc'[r] = "wait" /\ call'[r] = Trainer!Label("gradient", k)
      /\ \A q \in Ranks \ {r} : value'[q] = value[q] /\ call'[q] = call[q]
                                /\ rankPc'[q] = rankPc[q]
  BY <1>1, <1>2 DEF UpdateTypes
<1>5. UpdateTypes'
  BY <1>1, <1>2 DEF UpdateTypes, Trainer!Label, Calls, Trainer!Samples
<1>6. AtCall(r)' /\ Agreed(r)'
  <2>1. (Trainer!OptimizerSteps(r))' = Trainer!OptimizerSteps(r)
    BY <1>1 DEF Trainer!OptimizerSteps, Trainer!CoverageSteps, Trainer!SlotsPerStep
  <2> QED BY <1>1, <1>2, <1>4, <2>1, PeakStays DEF AtCall, Agreed, Trainer!Label
<1>7. Trainer!CoversOnce'
  <2>1. \A q \in Ranks : /\ call'[q].window = call[q].window
                         /\ rankPc[q] = "failed" => rankPc'[q] = "failed"
    BY <1>1, <1>4 DEF Trainer!Label
  <2> QED BY <1>1, <2>1, CoversStays DEF UpdateKnown
<1>8. micro' = [micro EXCEPT ![r] = Accumulation]
  BY <1>1, <1>2 DEF UpdateTypes
<1>9. /\ call' = [call EXCEPT ![r] = After(r)[1]] /\ micro' = [micro EXCEPT ![r] = After(r)[2]]
      /\ \A q \in Ranks \ {r} :
            value'[q] = value[q] /\ steps'[q] = steps[q] /\ applied'[q] = applied[q]
  <2>1. After(r)[1] = Trainer!Label("gradient", k) /\ After(r)[2] = Accumulation
    BY <1>3
  <2>2. call' = [call EXCEPT ![r] = After(r)[1]] /\ micro' = [micro EXCEPT ![r] = After(r)[2]]
    BY ONLY <1>1, <1>8, <2>1
  <2> QED BY <1>1, <1>4, <2>2
<1> QED BY <1>1, <1>5, <1>6, <1>7, <1>9, NextKeeps

(* After its last window a rank waits for the comparison of the steps. *)
LEMMA CompareKeeps ==
    ASSUME Trainer!UpdateAssumption, UpdateKnown, NEW r \in Ranks, Trainer!Compare(r)
    PROVE  UpdateKnown'
<1> DEFINE k == steps[r]
           m == IF k = 0 THEN 0 ELSE Accumulation
<1>1. /\ Trainer!Between(r) /\ call[r].window = k
      /\ rankPc' = [rankPc EXCEPT ![r] = "wait"]
      /\ call' = [call EXCEPT ![r] = Trainer!Label("compare", k)]
      /\ value' = [value EXCEPT ![r] = applied[r]]
      /\ UNCHANGED <<items, broken, synced, steps, micro, exposed, applied, cause>>
  BY DEF Trainer!Compare, Trainer!Await
<1>2. UpdateTypes /\ AtCall(r) /\ Agreed(r) /\ Accumulation \in Nat \ {0}
  BY DEF UpdateKnown, Trainer!UpdateAssumption
<1>3. /\ rankPc[r] = "run" /\ call[r].name \in {"steps", "gradient"}
      /\ call[r].name = "steps" => k = 0
      /\ call[r].name = "gradient" => k # 0
      /\ micro[r] = m /\ applied[r] = k
  BY <1>1, <1>2 DEF Trainer!Between, Trainer!Running, AtCall
<1>4. After(r) = <<Trainer!Label("compare", k), m>>
  BY <1>1, <1>2, <1>3 DEF After, UpdateTypes
<1>5. /\ rankPc'[r] = "wait" /\ call'[r] = Trainer!Label("compare", k)
      /\ \A q \in Ranks \ {r} : value'[q] = value[q] /\ call'[q] = call[q]
                                /\ rankPc'[q] = rankPc[q]
  BY <1>1, <1>2 DEF UpdateTypes
<1>6. UpdateTypes'
  BY <1>1, <1>2 DEF UpdateTypes, Trainer!Label, Calls, Trainer!Samples
<1>7. AtCall(r)' /\ Agreed(r)'
  <2>1. (Trainer!OptimizerSteps(r))' = Trainer!OptimizerSteps(r)
    BY <1>1 DEF Trainer!OptimizerSteps, Trainer!CoverageSteps, Trainer!SlotsPerStep
  <2> QED BY <1>1, <1>2, <1>3, <1>5, <2>1, PeakStays DEF AtCall, Agreed, Trainer!Label
<1>8. Trainer!CoversOnce'
  <2>1. \A q \in Ranks : /\ call'[q].window = call[q].window
                         /\ rankPc[q] = "failed" => rankPc'[q] = "failed"
    BY <1>1, <1>3, <1>5 DEF Trainer!Label
  <2> QED BY <1>1, <2>1, CoversStays DEF UpdateKnown
<1>9. micro' = [micro EXCEPT ![r] = m]
  BY <1>1, <1>2, <1>3 DEF UpdateTypes
<1>10. /\ call' = [call EXCEPT ![r] = After(r)[1]] /\ micro' = [micro EXCEPT ![r] = After(r)[2]]
       /\ \A q \in Ranks \ {r} :
             value'[q] = value[q] /\ steps'[q] = steps[q] /\ applied'[q] = applied[q]
  <2>1. After(r)[1] = Trainer!Label("compare", k) /\ After(r)[2] = m
    BY <1>4
  <2>2. call' = [call EXCEPT ![r] = After(r)[1]] /\ micro' = [micro EXCEPT ![r] = After(r)[2]]
    BY ONLY <1>1, <1>9, <2>1
  <2> QED BY <1>1, <1>5, <2>2
<1> QED BY <1>1, <1>3, <1>6, <1>7, <1>8, <1>10, NextKeeps

(* The step that the gradient of a window gives is applied. *)
LEMMA StepKeeps ==
    ASSUME Trainer!UpdateAssumption, UpdateKnown, NEW r \in Ranks, Trainer!OptimizerStep(r)
    PROVE  UpdateKnown'
<1>1. /\ rankPc[r] = "run" /\ call[r].name = "gradient" /\ applied[r] < call[r].window
      /\ applied' = [applied EXCEPT ![r] = applied[r] + 1]
      /\ UNCHANGED <<items, broken, rankPc, call, value, synced, steps, micro, exposed, cause>>
  BY DEF Trainer!OptimizerStep, Trainer!Running
<1>2. UpdateTypes /\ AtCall(r) /\ Agreed(r)
  BY DEF UpdateKnown
<1>3. applied'[r] = applied[r] + 1 /\ \A q \in Ranks \ {r} : applied'[q] = applied[q]
  BY <1>1, <1>2 DEF UpdateTypes
<1>4. UpdateTypes'
  BY <1>1, <1>2 DEF UpdateTypes, Trainer!Samples
<1>5. \A q \in Ranks : AtCall(q)' /\ Agreed(q)'
  <2>1. AtCall(r)'
    BY <1>1, <1>2, <1>3 DEF AtCall, UpdateTypes
  <2>2. Agreed(r)'
    BY <1>1, <1>2, PeakStays
       DEF Agreed, Trainer!OptimizerSteps, Trainer!CoverageSteps, Trainer!SlotsPerStep
  <2>3. \A q \in Ranks \ {r} : AtCall(q)' /\ Agreed(q)'
    BY <1>1, <1>3, OthersStay
  <2> QED BY <2>1, <2>2, <2>3
<1>6. \A q \in Ranks : FailsAs(q)'
  <2>1. \A q \in Ranks : rankPc'[q] = "failed" <=> rankPc[q] = "failed"
    BY <1>1
  <2> QED BY <1>1, <2>1, FailsStay
<1>7. \A p, q \in Ranks : InStep(p, q)'
  <2> SUFFICES ASSUME NEW p \in Ranks, NEW q \in Ranks PROVE InStep(p, q)'
    OBVIOUS
  <2>1. InStep(p, q)
    BY DEF UpdateKnown
  <2>2. After(p)' = After(p)
    BY <1>1 DEF After, Trainer!Label
  <2> QED BY <1>1, <2>1, <2>2 DEF InStep
<1>8. Trainer!CoversOnce'
  BY <1>1, CoversStays DEF UpdateKnown
<1> QED BY <1>4, <1>5, <1>6, <1>7, <1>8 DEF UpdateKnown

(* A rank whose comparison is over returns. *)
LEMMA ReturnKeeps ==
    ASSUME Trainer!UpdateAssumption, UpdateKnown, NEW r \in Ranks, Trainer!Return(r)
    PROVE  UpdateKnown'
<1>1. /\ rankPc[r] = "run" /\ call[r].name = "compare"
      /\ rankPc' = [rankPc EXCEPT ![r] = "done"]
      /\ UNCHANGED <<items, broken, call, value, synced, steps, micro, exposed, applied, cause>>
  BY DEF Trainer!Return, Trainer!Running
<1>2. UpdateTypes /\ AtCall(r) /\ Agreed(r)
  BY DEF UpdateKnown
<1>3. rankPc'[r] = "done" /\ \A q \in Ranks \ {r} : rankPc'[q] = rankPc[q]
  BY <1>1, <1>2 DEF UpdateTypes
<1>4. UpdateTypes'
  BY <1>1, <1>2 DEF UpdateTypes, Trainer!Samples
<1>5. \A q \in Ranks : AtCall(q)' /\ Agreed(q)'
  <2>1. AtCall(r)'
    BY <1>1, <1>2, <1>3 DEF AtCall
  <2>2. Agreed(r)'
    BY <1>1, <1>2, <1>3, PeakStays
       DEF Agreed, Trainer!OptimizerSteps, Trainer!CoverageSteps, Trainer!SlotsPerStep
  <2>3. \A q \in Ranks \ {r} : AtCall(q)' /\ Agreed(q)'
    BY <1>1, <1>3, OthersStay
  <2> QED BY <2>1, <2>2, <2>3
<1>6. \A q \in Ranks : FailsAs(q)'
  BY <1>1, <1>3, FailsStay
<1>7. \A p, q \in Ranks : InStep(p, q)'
  <2> SUFFICES ASSUME NEW p \in Ranks, NEW q \in Ranks PROVE InStep(p, q)'
    OBVIOUS
  <2>1. InStep(p, q) /\ InStep(q, p) /\ InStep(r, q) /\ InStep(p, r) /\ InStep(r, p)
    BY DEF UpdateKnown
  <2>2. After(p)' = After(p)
    BY <1>1 DEF After, Trainer!Label
  <2>3. \A t \in Ranks : rankPc[t] = "wait" => <<call[t], micro[t]>> # After(r)
    <3>1. After(r) = <<Trainer!Label("none", 0), 0>>
      BY <1>1 DEF After
    <3>2. \A t \in Ranks : call[t].name # "none"
      BY <1>2 DEF UpdateTypes, Calls
    <3> QED BY <3>1, <3>2 DEF Trainer!Label
  <2> QED BY <1>1, <1>3, <2>1, <2>2, <2>3 DEF InStep
<1>8. Trainer!CoversOnce'
  BY <1>1, <1>3, CoversStays DEF UpdateKnown
<1> QED BY <1>4, <1>5, <1>6, <1>7, <1>8 DEF UpdateKnown

(* When every rank waits, they wait in one collective. *)
LEMMA AllAtOne ==
    ASSUME UpdateKnown, \A r \in Ranks : rankPc[r] = "wait"
    PROVE  \A r, q \in Ranks : call[r] = call[q] /\ micro[r] = micro[q] /\ applied[r] = applied[q]
<1> SUFFICES ASSUME NEW r \in Ranks, NEW q \in Ranks
             PROVE  call[r] = call[q] /\ micro[r] = micro[q] /\ applied[r] = applied[q]
  OBVIOUS
<1>1. call[r] = call[q] /\ micro[r] = micro[q]
  BY DEF UpdateKnown, InStep
<1>2. AtCall(r) /\ AtCall(q) /\ UpdateTypes
  BY DEF UpdateKnown
<1>3. call[r].name \in Calls
  BY <1>2 DEF UpdateTypes
<1> QED BY <1>1, <1>2, <1>3 DEF AtCall, Calls

(* What a collective says, it says to all of them. *)
LEMMA Verdicts ==
    ASSUME Trainer!UpdateAssumption, UpdateKnown, \A r \in Ranks : rankPc[r] = "wait"
    PROVE  /\ \A r, q \in Ranks : Trainer!Verdict(r) = Trainer!Verdict(q)
           /\ \A r \in Ranks :
                 /\ Trainer!Verdict(r) \in {"none", "no samples", "not finite"}
                 /\ Trainer!Verdict(r) = "no samples" => \A q \in Ranks : items[q] = 0
                 /\ call[r].name = "count" /\ Trainer!Verdict(r) = "none" => Peak > 0
                 /\ call[r].name = "max" => Trainer!Greatest = Peak
<1>1. UpdateTypes /\ \A r \in Ranks : AtCall(r) /\ Agreed(r)
  BY DEF UpdateKnown
<1>2. \A r, q \in Ranks : call[r] = call[q]
  BY AllAtOne
<1>3. \A r, q \in Ranks : Trainer!Verdict(r) = Trainer!Verdict(q)
  BY <1>2 DEF Trainer!Verdict
<1>4. Peak \in Nat /\ (\A q \in Ranks : items[q] <= Peak) /\ \E q \in Ranks : items[q] = Peak
  BY <1>1, PeakFacts DEF UpdateTypes
<1>5. Trainer!Total \in Nat /\ (Trainer!Total = 0 <=> \A q \in Ranks : value[q] = 0)
  BY <1>1, TotalFacts DEF UpdateTypes
<1>6. \A r \in Ranks : value[r] \in Nat /\ items[r] \in Nat
  BY <1>1 DEF UpdateTypes
<1> SUFFICES ASSUME NEW r \in Ranks
             PROVE  /\ Trainer!Verdict(r) \in {"none", "no samples", "not finite"}
                    /\ Trainer!Verdict(r) = "no samples" => \A q \in Ranks : items[q] = 0
                    /\ call[r].name = "count" /\ Trainer!Verdict(r) = "none" => Peak > 0
                    /\ call[r].name = "max" => Trainer!Greatest = Peak
  BY <1>3
<1>7. call[r].name \in Calls
  BY <1>1 DEF UpdateTypes
<1>8. CASE call[r].name = "count"
  <2>1. \A q \in Ranks : value[q] = items[q]
    BY <1>1, <1>2, <1>8 DEF AtCall
  <2>2. Trainer!Verdict(r) = IF Trainer!Total = 0 THEN "no samples" ELSE "none"
    BY <1>8 DEF Trainer!Verdict
  <2>3. Trainer!Total # 0 => Peak > 0
    <3>1. SUFFICES ASSUME Trainer!Total # 0, Peak = 0 PROVE FALSE
      BY <1>4
    <3>2. \A q \in Ranks : items[q] = 0
      BY <1>4, <1>6, <3>1
    <3> QED BY <1>5, <2>1, <3>1, <3>2
  <2> QED BY <1>5, <1>8, <2>1, <2>2, <2>3
<1>9. CASE call[r].name = "max"
  <2>1. \A q \in Ranks : value[q] = items[q]
    BY <1>1, <1>2, <1>9 DEF AtCall
  <2>2. Trainer!Greatest = Peak
    <3>1. {value[q] : q \in Ranks} = {items[q] : q \in Ranks}
      BY <2>1
    <3>2. \A v : (\A q \in Ranks : v >= value[q]) <=> (\A q \in Ranks : v >= items[q])
      BY <2>1
    <3> QED BY <3>1, <3>2 DEF Trainer!Greatest, Peak
  <2> QED BY <1>9, <2>2 DEF Trainer!Verdict
<1>10. CASE call[r].name = "steps"
  <2>1. \A q \in Ranks : value[q] = value[r]
    BY <1>1, <1>2, <1>10 DEF AtCall, Agreed, Trainer!OptimizerSteps
  <2>2. {value[q] : q \in Ranks} = {value[r]}
    BY <2>1
  <2>3. Trainer!Least = value[r] /\ Trainer!Greatest = value[r]
    <3>1. \A q \in Ranks : value[r] <= value[q] /\ value[r] >= value[q]
      BY <1>6, <2>1
    <3> QED BY <2>2, <3>1 DEF Trainer!Least, Trainer!Greatest
  <2>4. Trainer!Verdict(r) = "none"
    BY <1>10, <2>3 DEF Trainer!Verdict
  <2> QED BY <1>10, <2>4
<1>11. CASE call[r].name = "weight"
  <2>1. PICK q \in Ranks : items[q] = Peak
    BY <1>4
  <2>2. value[q] > 0
    BY <1>1, <1>2, <1>11, <2>1 DEF AtCall
  <2>3. Trainer!Total # 0
    BY <1>5, <1>6, <2>2
  <2>4. Trainer!Verdict(r) = "none"
    BY <1>5, <1>11, <2>3 DEF Trainer!Verdict
  <2> QED BY <1>11, <2>4
<1>12. CASE call[r].name \in {"finite", "gradient", "compare"}
  BY <1>12 DEF Trainer!Verdict
<1> QED BY <1>7, <1>8, <1>9, <1>10, <1>11, <1>12 DEF Calls

(* A collective ends for all of the ranks, and they go on or fail together.*)
LEMMA ReduceKeeps ==
    ASSUME Trainer!UpdateAssumption, UpdateKnown, Trainer!AllReduce PROVE UpdateKnown'
<1>1. /\ \A r \in Ranks : rankPc[r] = "wait"
      /\ rankPc' = [r \in Ranks |-> IF Trainer!Verdict(r) = "none" THEN "run" ELSE "failed"]
      /\ cause' = [r \in Ranks |-> Trainer!Verdict(r)]
      /\ synced' = [r \in Ranks |->
                      IF call[r].name = "max" THEN Trainer!Greatest ELSE synced[r]]
      /\ UNCHANGED <<items, broken, call, value, steps, micro, exposed, applied>>
  BY DEF Trainer!AllReduce
<1>2. UpdateTypes /\ \A r \in Ranks : AtCall(r) /\ Agreed(r)
  BY DEF UpdateKnown
<1>3. /\ \A r, q \in Ranks : Trainer!Verdict(r) = Trainer!Verdict(q)
      /\ \A r \in Ranks :
            /\ Trainer!Verdict(r) \in {"none", "no samples", "not finite"}
            /\ Trainer!Verdict(r) = "no samples" => \A q \in Ranks : items[q] = 0
            /\ call[r].name = "count" /\ Trainer!Verdict(r) = "none" => Peak > 0
            /\ call[r].name = "max" => Trainer!Greatest = Peak
  BY <1>1, Verdicts
<1>4. \A r, q \in Ranks : call[r] = call[q] /\ micro[r] = micro[q] /\ applied[r] = applied[q]
  BY <1>1, AllAtOne
<1>5. Peak \in Nat
  BY <1>2, PeakFacts DEF UpdateTypes
<1>6. \A r \in Ranks : synced'[r] = IF call[r].name = "max" THEN Peak ELSE synced[r]
  BY <1>1, <1>3
<1>7. UpdateTypes'
  <2>1. synced' \in [Ranks -> Nat]
    <3>1. \A r \in Ranks : synced'[r] \in Nat
      BY <1>2, <1>5, <1>6 DEF UpdateTypes
    <3>2. synced' = [r \in Ranks |-> synced'[r]]
      BY <1>1
    <3> QED BY <3>1, <3>2
  <2>2. cause' \in [Ranks -> Causes] /\ rankPc' \in [Ranks -> {"run", "wait", "done", "failed"}]
    BY <1>1, <1>3 DEF Causes
  <2> QED BY <1>1, <1>2, <2>1, <2>2 DEF UpdateTypes, Trainer!Samples
<1>8. \A r \in Ranks : rankPc'[r] = IF Trainer!Verdict(r) = "none" THEN "run" ELSE "failed"
  BY <1>1
<1>9. \A r \in Ranks : AtCall(r)' /\ Agreed(r)'
  <2> TAKE r \in Ranks
  <2>1. AtCall(r) /\ Agreed(r)
    BY <1>2
  <2>2. AtCall(r)'
    BY <1>1, <1>8, <2>1, PeakStays DEF AtCall
  <2>3. call[r].name # "max" => (Trainer!OptimizerSteps(r))' = Trainer!OptimizerSteps(r)
    BY <1>1, <1>6 DEF Trainer!OptimizerSteps, Trainer!CoverageSteps, Trainer!SlotsPerStep
  <2>4. Agreed(r)'
    BY <1>1, <1>3, <1>6, <1>8, <2>1, <2>3, PeakStays DEF Agreed
  <2> QED BY <2>2, <2>4
<1>10. \A r \in Ranks : FailsAs(r)'
  BY <1>1, <1>3, <1>4, <1>8 DEF FailsAs
<1>11. \A p, q \in Ranks : InStep(p, q)'
  BY <1>1, <1>3, <1>4, <1>8 DEF InStep
<1>12. Trainer!CoversOnce'
  <2> SUFFICES ASSUME NEW q \in Ranks, NEW i \in Trainer!Samples(q),
                      call[q].window <= (Trainer!CoverageSteps(synced[q]))'
               PROVE  exposed[q][i] =
                         IF i <= call[q].window * Trainer!SlotsPerStep THEN 1 ELSE 0
    BY <1>1 DEF Trainer!CoversOnce, Trainer!SlotsPerStep, Trainer!Samples
  <2>1. call[q].window <= Trainer!CoverageSteps(synced[q])
    <3>1. CASE call[q].name = "max"
      <4>1. call[q].window = 0
        BY <1>2, <3>1 DEF AtCall
      <4>2. Trainer!CoverageSteps(synced[q]) \in Nat
        BY <1>2, CoverageFacts DEF UpdateTypes
      <4> QED BY <4>1, <4>2
    <3>2. CASE call[q].name # "max"
      BY <1>6, <3>2 DEF Trainer!CoverageSteps, Trainer!SlotsPerStep
    <3> QED BY <3>1, <3>2
  <2> QED BY <1>1, <2>1 DEF UpdateKnown, Trainer!CoversOnce
<1> QED BY <1>7, <1>9, <1>10, <1>11, <1>12 DEF UpdateKnown

(* torchrun kills the others only of a rank whose samples cannot be used.  *)
LEMMA KilledKeeps ==
    ASSUME Trainer!UpdateAssumption, UpdateKnown, Trainer!Killed PROVE UpdateKnown'
<1>1. /\ \E r \in Ranks : rankPc[r] = "failed"
      /\ rankPc' = [r \in Ranks |-> IF rankPc[r] \in {"done", "failed"} THEN rankPc[r] ELSE "failed"]
      /\ cause' = [r \in Ranks |-> IF rankPc[r] \in {"done", "failed"} THEN cause[r] ELSE "killed"]
      /\ rankPc' # rankPc
      /\ UNCHANGED <<items, broken, call, value, synced, steps, micro, exposed, applied>>
  BY DEF Trainer!Killed
<1>2. UpdateTypes /\ \A r \in Ranks : AtCall(r) /\ Agreed(r) /\ FailsAs(r)
  BY DEF UpdateKnown
<1>3. PICK q \in Ranks : rankPc[q] \in {"run", "wait"}
  <2>1. rankPc = [r \in Ranks |-> rankPc[r]]
    BY <1>2 DEF UpdateTypes
  <2>2. \E q \in Ranks : ~ (rankPc[q] \in {"done", "failed"})
    BY <1>1, <2>1
  <2> QED BY <1>2, <2>2 DEF UpdateTypes
<1>4. \A r \in Ranks : cause[r] \notin {"no samples", "not finite"}
  BY <1>2, <1>3 DEF FailsAs
<1>5. broken # {}
  <2>1. PICK r \in Ranks : rankPc[r] = "failed"
    BY <1>1
  <2>2. cause[r] \in {"samples", "killed"}
    BY <1>2, <1>4, <2>1 DEF FailsAs, UpdateTypes, Causes
  <2> QED BY <1>2, <2>2 DEF FailsAs
<1>6. UpdateTypes'
  BY <1>1, <1>2 DEF UpdateTypes, Causes, Trainer!Samples
<1>7. \A r \in Ranks : /\ rankPc'[r] \in {"done", "failed"}
                       /\ rankPc'[r] = "done" => rankPc[r] = "done"
                       /\ cause'[r] = IF rankPc[r] \in {"done", "failed"} THEN cause[r] ELSE "killed"
                       /\ rankPc[r] = "failed" => rankPc'[r] = "failed"
                       /\ rankPc[r] = "done" => rankPc'[r] = "done"
  BY <1>1
<1>8. \A r \in Ranks : AtCall(r)' /\ Agreed(r)'
  BY <1>1, <1>2, <1>7, PeakStays
     DEF AtCall, Agreed, Trainer!OptimizerSteps, Trainer!CoverageSteps, Trainer!SlotsPerStep
<1>9. \A r \in Ranks : FailsAs(r)'
  BY <1>1, <1>2, <1>4, <1>5, <1>7 DEF FailsAs
<1>10. \A x, y \in Ranks : InStep(x, y)'
  BY <1>7 DEF InStep
<1>11. Trainer!CoversOnce'
  BY <1>1, <1>7, CoversStays DEF UpdateKnown
<1> QED BY <1>6, <1>8, <1>9, <1>10, <1>11 DEF UpdateKnown

(* Every step of the update keeps what is known of it. *)
LEMMA UpdateStep ==
    ASSUME Trainer!UpdateAssumption, UpdateKnown, [Trainer!Next]_trainerVars PROVE UpdateKnown'
<1>1. CASE UNCHANGED trainerVars
  <2>1. UNCHANGED <<items, broken, rankPc, call, value, synced, steps, micro, exposed, applied, cause>>
    BY <1>1 DEF trainerVars
  <2>2. Peak' = Peak /\ \A r \in Ranks : After(r)' = After(r)
    BY <2>1 DEF Peak, After, Trainer!Label
  <2>3. Trainer!CoversOnce'
    BY <2>1, CoversStays DEF UpdateKnown
  <2>4. UpdateTypes'
    BY <2>1 DEF UpdateKnown, UpdateTypes, Trainer!Samples
  <2>5. \A r \in Ranks : AtCall(r)' /\ Agreed(r)' /\ FailsAs(r)'
    <3> TAKE r \in Ranks
    <3>1. AtCall(r) /\ Agreed(r) /\ FailsAs(r)
      BY DEF UpdateKnown
    <3>2. (Trainer!OptimizerSteps(r))' = Trainer!OptimizerSteps(r)
      BY <2>1 DEF Trainer!OptimizerSteps, Trainer!CoverageSteps, Trainer!SlotsPerStep
    <3>3. AtCall(r)'
      BY <2>1, <2>2, <3>1 DEF AtCall
    <3>4. Agreed(r)'
      BY <2>1, <2>2, <3>1, <3>2 DEF Agreed
    <3>5. FailsAs(r)'
      BY <2>1, <3>1 DEF FailsAs
    <3> QED BY <3>3, <3>4, <3>5
  <2>6. \A p, q \in Ranks : InStep(p, q)'
    BY <2>1, <2>2 DEF UpdateKnown, InStep
  <2> QED BY <2>3, <2>4, <2>5, <2>6 DEF UpdateKnown
<1>2. CASE Trainer!Next
  BY <1>2, ReduceKeeps, KilledKeeps, MaxKeeps, BuildKeeps, WindowKeeps, ForwardKeeps,
     BackwardKeeps, CompareKeeps, StepKeeps, ReturnKeeps DEF Trainer!Next, Trainer!Local
<1> QED BY <1>1, <1>2

(* What is known of an update says that the ranks stay together. *)
LEMMA UpdateIsInStep ==
    ASSUME Trainer!UpdateAssumption, UpdateKnown
    PROVE  /\ Trainer!CollectivesMatch /\ Trainer!FailsTogether /\ Trainer!FailsOnlyForCause
           /\ Trainer!CoversOnce
<1>1. Trainer!CollectivesMatch
  BY AllAtOne DEF Trainer!CollectivesMatch
<1>2. Trainer!FailsTogether
  <2> SUFFICES ASSUME NEW r \in Ranks, NEW q \in Ranks
               PROVE  /\ cause[r] = "not finite" => cause[q] = "not finite" /\ applied[r] = applied[q]
                      /\ rankPc[r] = "wait" /\ rankPc[q] = "wait" => applied[r] = applied[q]
    BY DEF Trainer!FailsTogether
  <2>1. FailsAs(r) /\ AtCall(r) /\ AtCall(q) /\ InStep(r, q) /\ UpdateTypes
    BY DEF UpdateKnown
  <2>2. call[r].name \in Calls
    BY <2>1 DEF UpdateTypes
  <2>3. rankPc[r] = "wait" /\ rankPc[q] = "wait" => applied[r] = applied[q]
    <3>1. rankPc[r] = "wait" /\ rankPc[q] = "wait" => call[r] = call[q]
      BY <2>1 DEF InStep
    <3> QED BY <2>1, <2>2, <3>1 DEF AtCall, Calls
  <2> QED BY <2>1, <2>3 DEF FailsAs
<1>3. Trainer!FailsOnlyForCause
  BY DEF UpdateKnown, FailsAs, Trainer!FailsOnlyForCause, UpdateTypes, Causes
<1> QED BY <1>1, <1>2, <1>3 DEF UpdateKnown

(* The ranks of an update never wait in different collectives, fail        *)
(* together and only for a cause, and cover every sample once              *)
(* (DistributedPolicyTrainer.update), for any number of ranks and samples, *)
(* however few of them a rank has.                                         *)
THEOREM UpdateInStep == ASSUME Trainer!UpdateAssumption PROVE MCSpec => []RanksInStep
<1>1. MCInit => (part = "trainer" => UpdateKnown)
  BY UpdateBegins DEF MCInit
<1>2. (part = "trainer" => UpdateKnown) /\ [MCNext]_allVars => (part = "trainer" => UpdateKnown)'
  BY UpdateStep DEF MCNext, allVars, trainerVars
<1>3. (part = "trainer" => UpdateKnown) => RanksInStep
  BY UpdateIsInStep DEF RanksInStep
<1> QED
  BY <1>1, <1>2, <1>3, PTL DEF MCSpec

-----------------------------------------------------------------------------
(* The curriculum: the search for cycles, the passes and the lanes.        *)

(* What the search knows: its calls are a path through the prerequisites,  *)
(* what a call has gone past is visited or under way above it, and what is *)
(* visited rests on visited units only, without a cycle.                   *)
CurriculumTypes ==
    /\ requires \in [Units!Units -> SUBSET Units!Units]
    /\ status \in [Units!Units -> Units!Statuses]
    /\ curriculumPc \in {"graph", "refused", "qualify", "schedule", "unsatisfied", "done"}
    /\ visiting \in Seq([unit : Units!Units, rest : SUBSET Units!Units])
    /\ visited \subseteq Units!Units /\ qualified \subseteq Units!Units
    /\ at \in 1 .. MaxUnit + 1 /\ changed \in BOOLEAN

SearchPath ==
    /\ \A k \in 1 .. Len(visiting) - 1 : visiting[k + 1].unit \in requires[visiting[k].unit]
    /\ \A k \in 1 .. Len(visiting) :
          /\ visiting[k].rest \subseteq requires[visiting[k].unit]
          /\ requires[visiting[k].unit] \ visiting[k].rest
                \subseteq visited \cup (IF k < Len(visiting) THEN {visiting[k + 1].unit} ELSE {})
          /\ visiting[k].unit \notin visited
          /\ \A j \in 1 .. Len(visiting) : j # k => visiting[j].unit # visiting[k].unit

Grounded ==
    /\ \A u \in visited : requires[u] \subseteq visited
    /\ \A S \in (SUBSET visited) \ {{}} : \E u \in S : requires[u] \cap S = {}

(* What the passes know: the qualified are mastered, on qualified units,   *)
(* and a pass that has changed nothing has left none of those out that it  *)
(* has gone past.                                                          *)
Qualifies(u) == status[u] = "mastered" /\ requires[u] \subseteq qualified

PassKnown ==
    /\ \A u \in qualified : Qualifies(u)
    /\ curriculumPc = "graph" => at = 1
    /\ curriculumPc = "qualify" /\ ~changed =>
          \A u \in 1 .. at - 1 : Qualifies(u) => u \in qualified
    /\ curriculumPc \in {"schedule", "unsatisfied", "done"} =>
          \A u \in Units!Units : Qualifies(u) => u \in qualified

CurriculumKnown ==
    /\ CurriculumTypes /\ SearchPath /\ Grounded /\ PassKnown
    /\ curriculumPc = "refused" => Units!Cyclic
    /\ curriculumPc \in {"qualify", "schedule", "unsatisfied", "done"} => visited = Units!Units
    /\ curriculumPc = "done" =>
          /\ ~Units!Refuses
          /\ slots = [i \in 1 .. TotalSlots |-> Units!Choice(i)]

(* Nothing is visited and nothing is qualified at first. *)
LEMMA CurriculumBegins ==
    ASSUME Units!CurriculumAssumption, Units!Init PROVE CurriculumKnown
<1>1. CurriculumTypes
  <2>1. 1 \in 1 .. MaxUnit + 1
    BY DEF Units!CurriculumAssumption
  <2>2. <<>> \in Seq([unit : Units!Units, rest : SUBSET Units!Units])
    OBVIOUS
  <2> QED
    BY <2>1, <2>2 DEF Units!Init, CurriculumTypes
<1>2. visiting = <<>> /\ Len(visiting) = 0 /\ visited = {} /\ qualified = {}
      /\ curriculumPc = "graph"
  BY DEF Units!Init
<1>3. SearchPath
  <2>1. 1 .. 0 - 1 = {} /\ 1 .. 0 = {}
    OBVIOUS
  <2> QED
    BY <1>2, <2>1 DEF SearchPath
<1>4. Grounded /\ PassKnown
  BY <1>2 DEF Grounded, PassKnown, Units!Init
<1> QED
  BY <1>1, <1>2, <1>3, <1>4 DEF CurriculumKnown

(* The least unit of a set. *)
LEMMA FirstIsIn == ASSUME NEW S \in SUBSET Units!Units, S # {} PROVE Units!First(S) \in S
<1>1. S \subseteq Nat
  BY DEF Units!Units
<1>2. \E u \in S : \A v \in S : u <= v
  BY <1>1, LeastNatural
<1> QED
  BY <1>2 DEF Units!First

(* The search starts at the first unit it has not visited, or ends. *)
LEMMA RootStep ==
    ASSUME Units!CurriculumAssumption, CurriculumKnown, Units!VisitRoot
    PROVE  CurriculumKnown'
<1>1. CurriculumTypes /\ SearchPath /\ Grounded /\ PassKnown
  BY DEF CurriculumKnown
<1>2. /\ UNCHANGED <<requires, status, visited, qualified, at, changed, slots>>
      /\ curriculumPc = "graph" /\ visiting = <<>>
  BY DEF Units!VisitRoot, Units!vars
<1>3. CASE visited = Units!Units /\ curriculumPc' = "qualify" /\ UNCHANGED visiting
  <2>1. CurriculumTypes'
    BY <1>1, <1>2, <1>3 DEF CurriculumTypes
  <2>3. SearchPath'
    BY <1>1, <1>2, <1>3 DEF SearchPath
  <2>4. Grounded'
    BY <1>1, <1>2, <1>3 DEF Grounded
  <2>2. PassKnown'
    BY <1>1, <1>2, <1>3 DEF PassKnown, Qualifies
  <2> QED
    BY <1>2, <1>3, <2>1, <2>2, <2>3, <2>4 DEF CurriculumKnown
<1>4. CASE /\ visited # Units!Units /\ curriculumPc' = curriculumPc
           /\ visiting' = <<Units!Call(Units!First(Units!Units \ visited))>>
  <2> DEFINE u == Units!First(Units!Units \ visited)
  <2>1. u \in Units!Units /\ u \notin visited
    <3>1. Units!Units \ visited \in SUBSET Units!Units /\ Units!Units \ visited # {}
      BY <1>1, <1>4 DEF CurriculumTypes
    <3> QED
      BY <3>1, FirstIsIn
  <2>2. Units!Call(u) = [unit |-> u, rest |-> requires[u]]
    BY DEF Units!Call
  <2> HIDE DEF u
  <2>3. visiting' = <<[unit |-> u, rest |-> requires[u]]>>
    BY <1>4, <2>2 DEF u
  <2>4. Len(visiting') = 1 /\ visiting'[1].unit = u /\ visiting'[1].rest = requires[u]
    BY <2>3
  <2>5. CurriculumTypes'
    <3>1. requires[u] \in SUBSET Units!Units
      BY <1>1, <2>1 DEF CurriculumTypes
    <3>2. [unit |-> u, rest |-> requires[u]] \in [unit : Units!Units, rest : SUBSET Units!Units]
      BY <2>1, <3>1
    <3>3. visiting' \in Seq([unit : Units!Units, rest : SUBSET Units!Units])
      BY <2>3, <3>2
    <3> QED
      BY <1>1, <1>2, <1>4, <3>3 DEF CurriculumTypes
  <2>6. SearchPath'
    BY <1>2, <2>1, <2>4 DEF SearchPath
  <2>7. Grounded' /\ PassKnown'
    BY <1>1, <1>2, <1>4 DEF Grounded, PassKnown, Qualifies
  <2> QED
    BY <1>2, <1>4, <2>5, <2>6, <2>7 DEF CurriculumKnown
<1> QED
  BY <1>3, <1>4 DEF Units!VisitRoot

(* A prerequisite under way closes a cycle; another one not visited is called. *)
LEMMA PrerequisiteStep ==
    ASSUME Units!CurriculumAssumption, CurriculumKnown, Units!VisitPrerequisite
    PROVE  CurriculumKnown'
<1> DEFINE n == Len(visiting)
           Visits == [unit : Units!Units, rest : SUBSET Units!Units]
           p == Units!First(visiting[n].rest)
           w == [visiting EXCEPT ![n].rest = @ \ {p}]
<1>1. CurriculumTypes /\ SearchPath /\ Grounded /\ PassKnown
  BY DEF CurriculumKnown
<1>2. /\ UNCHANGED <<requires, status, visited, qualified, at, changed, slots>>
      /\ curriculumPc = "graph" /\ visiting # <<>>
      /\ visiting[n].rest # {}
      /\ IF \E i \in DOMAIN visiting : visiting[i].unit = p
         THEN curriculumPc' = "refused" /\ UNCHANGED visiting
         ELSE /\ visiting' = IF p \in visited THEN w ELSE Append(w, Units!Call(p))
              /\ UNCHANGED curriculumPc
  BY DEF Units!VisitPrerequisite, Units!Last
<1>3. /\ n \in Nat /\ n >= 1 /\ visiting \in Seq(Visits) /\ DOMAIN visiting = 1 .. n
      /\ \A k \in 1 .. n : visiting[k] \in Visits
  <2>1. visiting \in Seq(Visits) /\ visiting # <<>>
    BY <1>1, <1>2 DEF CurriculumTypes
  <2> HIDE DEF Visits
  <2>2. n \in Nat /\ DOMAIN visiting = 1 .. n /\ \A k \in 1 .. n : visiting[k] \in Visits
    BY <2>1
  <2>3. n # 0
    BY <2>1
  <2> QED
    BY <2>1, <2>2, <2>3
<1>4. \A k \in 1 .. n : visiting[k].unit \in Units!Units /\ visiting[k].rest \in SUBSET Units!Units
  BY <1>3
<1>5. p \in visiting[n].rest /\ p \in Units!Units
  BY <1>2, <1>3, <1>4, FirstIsIn
<1>6. p \in requires[visiting[n].unit]
  BY <1>1, <1>3, <1>5 DEF SearchPath
<1>7. requires[p] \in SUBSET Units!Units
  BY <1>1, <1>5 DEF CurriculumTypes
<1>8. /\ w \in Seq(Visits) /\ Len(w) = n
      /\ \A k \in 1 .. n : w[k].unit = visiting[k].unit
      /\ \A k \in 1 .. n : w[k].rest = IF k = n THEN visiting[k].rest \ {p} ELSE visiting[k].rest
  <2>1. visiting[n].rest \ {p} \in SUBSET Units!Units
    BY <1>3, <1>4
  <2>2. [visiting[n] EXCEPT !.rest = @ \ {p}] \in Visits
    BY <1>3, <2>1
  <2>3. w = [visiting EXCEPT ![n] = [visiting[n] EXCEPT !.rest = @ \ {p}]]
    BY <1>3
  <2> HIDE DEF Visits, p
  <2>4. w \in Seq(Visits) /\ Len(w) = n
    BY <1>3, <2>2, <2>3
  <2>5. \A k \in 1 .. n : w[k] = IF k = n THEN [visiting[n] EXCEPT !.rest = @ \ {p}] ELSE visiting[k]
    BY <1>3, <2>3
  <2> QED
    BY <1>3, <2>4, <2>5 DEF Visits
<1> HIDE DEF n, Visits, w, p
<1>9. CASE \E i \in DOMAIN visiting : visiting[i].unit = p
  <2>1. PICK i \in 1 .. n : visiting[i].unit = p
    BY <1>3, <1>9
  <2> DEFINE S == {visiting[k].unit : k \in i .. n}
  <2>2. S \in (SUBSET Units!Units) \ {{}}
    <3>1. n \in i .. n
      BY <1>3, <2>1
    <3>2. \A k \in i .. n : k \in 1 .. n
      BY <1>3, <2>1
    <3> QED
      BY <1>4, <3>1, <3>2
  <2>3. ASSUME NEW k \in i .. n PROVE requires[visiting[k].unit] \cap S # {}
    <3>1. CASE k = n
      <4>1. i \in i .. n
        BY <1>3, <2>1
      <4>2. p \in S
        BY <2>1, <4>1
      <4> QED
        BY <1>6, <3>1, <4>2
    <3>2. CASE k # n
      <4>1. k \in 1 .. n - 1 /\ k + 1 \in i .. n
        BY <1>3, <2>1, <3>2
      <4>2. visiting[k + 1].unit \in requires[visiting[k].unit]
        BY <1>1, <4>1 DEF SearchPath, n
      <4>3. visiting[k + 1].unit \in S
        BY <4>1
      <4> QED
        BY <4>2, <4>3
    <3> QED
      BY <3>1, <3>2
  <2>4. Units!Cyclic
    <3>1. \A u \in S : requires[u] \cap S # {}
      BY <2>3
    <3> HIDE DEF S
    <3> QED
      BY <2>2, <3>1 DEF Units!Cyclic
  <2>5. Units!Cyclic'
    BY <1>2, <2>4 DEF Units!Cyclic
  <2>6. curriculumPc' = "refused" /\ UNCHANGED visiting
    BY <1>2, <1>9
  <2>7. CurriculumTypes'
    BY <1>1, <1>2, <2>6 DEF CurriculumTypes
  <2>8. SearchPath'
    BY <1>1, <1>2, <2>6 DEF SearchPath
  <2>9. Grounded'
    BY <1>1, <1>2, <2>6 DEF Grounded
  <2>10. PassKnown'
    BY <1>1, <1>2, <2>6 DEF PassKnown, Qualifies
  <2> QED
    BY <2>5, <2>6, <2>7, <2>8, <2>9, <2>10 DEF CurriculumKnown
<1>10. CASE ~ \E i \in DOMAIN visiting : visiting[i].unit = p
  <2>1. /\ visiting' = IF p \in visited THEN w ELSE Append(w, Units!Call(p))
        /\ UNCHANGED curriculumPc
    BY <1>2, <1>10
  <2>2. Grounded'
    BY <1>1, <1>2, <2>1 DEF Grounded
  <2>3. PassKnown'
    BY <1>1, <1>2, <2>1 DEF PassKnown, Qualifies
  <2>4. /\ \A k \in 1 .. n - 1 : visiting[k + 1].unit \in requires[visiting[k].unit]
        /\ \A k \in 1 .. n :
              /\ visiting[k].rest \subseteq requires[visiting[k].unit]
              /\ requires[visiting[k].unit] \ visiting[k].rest
                    \subseteq visited \cup (IF k < n THEN {visiting[k + 1].unit} ELSE {})
              /\ visiting[k].unit \notin visited
              /\ \A j \in 1 .. n : j # k => visiting[j].unit # visiting[k].unit
    BY <1>1 DEF SearchPath, n
  <2>5. CASE p \in visited
    <3>1. visiting' = w
      BY <2>1, <2>5
    <3>2. CurriculumTypes'
      BY <1>1, <1>2, <1>8, <2>1, <3>1 DEF CurriculumTypes, Visits
    <3>3. SearchPath'
      <4>1. \A k \in 1 .. n - 1 : k \in 1 .. n /\ k + 1 \in 1 .. n
        BY <1>3
      <4>2. \A k \in 1 .. n - 1 : w[k + 1].unit \in requires[w[k].unit]
        BY <1>8, <2>4, <4>1
      <4>3. \A k \in 1 .. n : w[k].rest \subseteq requires[w[k].unit]
        BY <1>8, <2>4
      <4>5. \A k \in 1 .. n : w[k].unit \notin visited
        BY <1>8, <2>4
      <4>6. \A k, j \in 1 .. n : j # k => w[j].unit # w[k].unit
        BY <1>8, <2>4
      <4>4. ASSUME NEW k \in 1 .. n
            PROVE  requires[w[k].unit] \ w[k].rest
                      \subseteq visited \cup (IF k < n THEN {w[k + 1].unit} ELSE {})
        <5>1. CASE k = n
          <6>1. requires[visiting[k].unit] \ visiting[k].rest \subseteq visited
            BY <1>3, <2>4, <5>1
          <6>2. w[k].unit = visiting[k].unit /\ w[k].rest = visiting[k].rest \ {p}
            BY <1>8, <5>1
          <6> QED
            BY <2>5, <6>1, <6>2
        <5>2. CASE k # n
          <6>1. k < n /\ k + 1 \in 1 .. n
            BY <1>3, <5>2
          <6>2. w[k].unit = visiting[k].unit /\ w[k].rest = visiting[k].rest
                /\ w[k + 1].unit = visiting[k + 1].unit
            BY <1>8, <5>2, <6>1
          <6> QED
            BY <2>4, <6>1, <6>2
        <5> QED
          BY <5>1, <5>2
      <4> QED
        BY <1>2, <1>8, <3>1, <4>2, <4>3, <4>4, <4>5, <4>6 DEF SearchPath
    <3> QED
      BY <1>2, <2>1, <2>2, <2>3, <3>2, <3>3 DEF CurriculumKnown
  <2>6. CASE p \notin visited
    <3> DEFINE c == [unit |-> p, rest |-> requires[p]]
               z == Append(w, c)
    <3>1. visiting' = z
      BY <2>1, <2>6 DEF Units!Call
    <3>2. c \in Visits /\ c.unit = p /\ c.rest = requires[p]
      BY <1>5, <1>7 DEF Visits
    <3> HIDE DEF c
    <3>3. /\ z \in Seq(Visits) /\ Len(z) = n + 1 /\ z[n + 1] = c
          /\ \A k \in 1 .. n : z[k] = w[k]
      BY <1>3, <1>8, <3>2
    <3> HIDE DEF z
    <3>4. CurriculumTypes'
      BY <1>1, <1>2, <2>1, <3>1, <3>3 DEF CurriculumTypes, Visits
    <3>5. SearchPath'
      <4>1. /\ \A k \in 1 .. n : z[k].unit = visiting[k].unit
            /\ z[n + 1].unit = p /\ z[n + 1].rest = requires[p]
            /\ \A k \in 1 .. n : z[k].rest =
                  IF k = n THEN visiting[k].rest \ {p} ELSE visiting[k].rest
        BY <1>8, <3>2, <3>3
      <4>2. \A k \in 1 .. n + 1 : k \in 1 .. n \/ k = n + 1
        BY <1>3
      <4>3. ASSUME NEW k \in 1 .. n PROVE z[k + 1].unit \in requires[z[k].unit]
        <5>1. CASE k = n
          BY <1>6, <4>1, <5>1
        <5>2. CASE k # n
          <6>1. k \in 1 .. n - 1 /\ k + 1 \in 1 .. n
            BY <1>3, <5>2
          <6> QED
            BY <2>4, <4>1, <6>1
        <5> QED
          BY <5>1, <5>2
      <4>4. \A k \in 1 .. n + 1 : z[k].rest \subseteq requires[z[k].unit]
        BY <2>4, <4>1, <4>2
      <4>5. \A k \in 1 .. n + 1 : z[k].unit \notin visited
        BY <2>4, <2>6, <4>1, <4>2
      <4>6. \A k, j \in 1 .. n + 1 : j # k => z[j].unit # z[k].unit
        <5>1. \A k \in 1 .. n : visiting[k].unit # p
          BY <1>3, <1>10
        <5> QED
          BY <2>4, <4>1, <4>2, <5>1
      <4>7. ASSUME NEW k \in 1 .. n + 1
            PROVE  requires[z[k].unit] \ z[k].rest
                      \subseteq visited \cup (IF k < n + 1 THEN {z[k + 1].unit} ELSE {})
        <5>1. CASE k = n + 1
          BY <4>1, <5>1
        <5>2. CASE k = n
          <6>1. requires[visiting[n].unit] \ visiting[n].rest \subseteq visited
            BY <1>3, <2>4
          <6>2. n \in 1 .. n /\ n < n + 1
            BY <1>3
          <6>3. z[k].unit = visiting[n].unit /\ z[k].rest = visiting[n].rest \ {p}
                /\ z[k + 1].unit = p
            BY <4>1, <5>2, <6>2
          <6> QED
            BY <5>2, <6>1, <6>2, <6>3
        <5>3. CASE k # n /\ k # n + 1
          <6>1. k \in 1 .. n /\ k + 1 \in 1 .. n /\ k < n /\ k < n + 1
            BY <1>3, <5>3
          <6>2. z[k].unit = visiting[k].unit /\ z[k].rest = visiting[k].rest
                /\ z[k + 1].unit = visiting[k + 1].unit
            BY <4>1, <5>3, <6>1
          <6> QED
            BY <2>4, <6>1, <6>2
        <5> QED
          BY <5>1, <5>2, <5>3
      <4>8. (n + 1) - 1 = n
        BY <1>3
      <4> QED
        BY <1>2, <3>1, <3>3, <4>3, <4>4, <4>5, <4>6, <4>7, <4>8 DEF SearchPath
    <3> QED
      BY <1>2, <2>1, <2>2, <2>3, <3>4, <3>5 DEF CurriculumKnown
  <2> QED
    BY <2>5, <2>6
<1> QED
  BY <1>9, <1>10

(* A unit that has gone past all its prerequisites rests on visited units. *)
LEMMA VisitedStep ==
    ASSUME Units!CurriculumAssumption, CurriculumKnown, Units!Visited
    PROVE  CurriculumKnown'
<1> DEFINE n == Len(visiting)
           Visits == [unit : Units!Units, rest : SUBSET Units!Units]
           u == visiting[n].unit
           w == SubSeq(visiting, 1, n - 1)
<1>1. CurriculumTypes /\ SearchPath /\ Grounded /\ PassKnown
  BY DEF CurriculumKnown
<1>2. /\ UNCHANGED <<requires, status, curriculumPc, qualified, at, changed, slots>>
      /\ curriculumPc = "graph" /\ visiting # <<>>
      /\ visiting[n].rest = {}
      /\ visited' = visited \cup {u}
      /\ visiting' = w
  BY DEF Units!Visited, Units!Last, Units!Front
<1>3. /\ n \in Nat /\ n >= 1 /\ visiting \in Seq(Visits)
      /\ \A k \in 1 .. n : visiting[k] \in Visits
  <2>1. visiting \in Seq(Visits) /\ visiting # <<>>
    BY <1>1, <1>2 DEF CurriculumTypes
  <2> HIDE DEF Visits
  <2>2. n \in Nat /\ DOMAIN visiting = 1 .. n /\ \A k \in 1 .. n : visiting[k] \in Visits
    BY <2>1
  <2>3. n # 0
    BY <2>1
  <2> QED
    BY <2>1, <2>2, <2>3
<1>4. \A k \in 1 .. n : visiting[k].unit \in Units!Units
  BY <1>3
<1>5. w \in Seq(Visits) /\ Len(w) = n - 1 /\ \A k \in 1 .. n - 1 : w[k] = visiting[k]
  <2> HIDE DEF Visits
  <2>1. n - 1 \in 0 .. Len(visiting) /\ \A k \in 1 .. n - 1 : k \in 1 .. Len(visiting)
    BY <1>3
  <2>2. w \in Seq(Visits)
    <3>1. \A k \in 1 .. n - 1 : visiting[k] \in Visits
      BY <1>3, <2>1
    <3>2. n - 1 \in Int
      BY <1>3
    <3> DEFINE m == n - 1
    <3> HIDE DEF m
    <3>3. m \in Int /\ \A k \in 1 .. m : visiting[k] \in Visits
      BY <3>1, <3>2 DEF m
    <3>4. SubSeq(visiting, 1, m) \in Seq(Visits)
      BY <3>3, SubSeqProperties
    <3> QED
      BY <3>4 DEF m
  <2>3. Len(w) = n - 1 /\ \A k \in 1 .. n - 1 : w[k] = visiting[k]
    <3> DEFINE m == n - 1
    <3>1. m \in Nat /\ n = m + 1 /\ \A k \in 1 .. m : k \in 1 .. n
      BY <1>3
    <3> HIDE DEF m, n
    <3>2. \A k \in 1 .. m : visiting[k] \in Visits
      BY <1>3, <3>1
    <3>3. /\ Len(SubSeq(visiting, 1, m)) = IF 1 <= m THEN m - 1 + 1 ELSE 0
          /\ \A k \in 1 .. m - 1 + 1 : SubSeq(visiting, 1, m)[k] = visiting[1 + k - 1]
      BY <3>1, <3>2, SubSeqProperties
    <3>4. Len(SubSeq(visiting, 1, m)) = m
      BY <3>1, <3>3
    <3>5. \A k \in 1 .. m : k \in 1 .. m - 1 + 1 /\ 1 + k - 1 = k
      BY <3>1
    <3>6. \A k \in 1 .. m : SubSeq(visiting, 1, m)[k] = visiting[k]
      BY <3>3, <3>5
    <3> QED
      BY <3>4, <3>6 DEF m
  <2> QED
    BY <2>2, <2>3
<1>6. /\ \A k \in 1 .. n - 1 : visiting[k + 1].unit \in requires[visiting[k].unit]
      /\ \A k \in 1 .. n :
            /\ visiting[k].rest \subseteq requires[visiting[k].unit]
            /\ requires[visiting[k].unit] \ visiting[k].rest
                  \subseteq visited \cup (IF k < n THEN {visiting[k + 1].unit} ELSE {})
            /\ visiting[k].unit \notin visited
            /\ \A j \in 1 .. n : j # k => visiting[j].unit # visiting[k].unit
  BY <1>1 DEF SearchPath
<1>7. u \in Units!Units /\ u \notin visited /\ requires[u] \subseteq visited
  <2>1. n \in 1 .. n /\ ~(n < n)
    BY <1>3
  <2> QED
    BY <1>2, <1>4, <1>6, <2>1
<1>8. visited \subseteq Units!Units
  BY <1>1 DEF CurriculumTypes
<1> HIDE DEF n, Visits, u, w
<1>9. CurriculumTypes'
  BY <1>1, <1>2, <1>5, <1>7, <1>8 DEF CurriculumTypes, Visits
<1>10. SearchPath'
  <2>1. \A k \in 1 .. (n - 1) - 1 : k \in 1 .. n - 1 /\ k + 1 \in 1 .. n - 1
    BY <1>3
  <2>2. \A k \in 1 .. (n - 1) - 1 : w[k + 1].unit \in requires[w[k].unit]
    BY <1>5, <1>6, <2>1
  <2>3. \A k \in 1 .. n - 1 : k \in 1 .. n /\ k # n /\ n \in 1 .. n /\ k < n
    BY <1>3
  <2>4. \A k \in 1 .. n - 1 : w[k].rest \subseteq requires[w[k].unit]
    BY <1>5, <1>6, <2>3
  <2>5. \A k \in 1 .. n - 1 : w[k].unit \notin visited \cup {u}
    <3>1. \A k \in 1 .. n - 1 : visiting[k].unit # u
      BY <1>6, <2>3 DEF u
    <3> QED
      BY <1>5, <1>6, <2>3, <3>1
  <2>6. \A k, j \in 1 .. n - 1 : j # k => w[j].unit # w[k].unit
    BY <1>5, <1>6, <2>3
  <2>7. ASSUME NEW k \in 1 .. n - 1
        PROVE  requires[w[k].unit] \ w[k].rest
                  \subseteq (visited \cup {u}) \cup (IF k < n - 1 THEN {w[k + 1].unit} ELSE {})
    <3>1. requires[visiting[k].unit] \ visiting[k].rest \subseteq visited \cup {visiting[k + 1].unit}
      BY <1>6, <2>3
    <3>2. CASE k = n - 1
      <4>1. k + 1 = n
        BY <1>3, <3>2
      <4> QED
        BY <1>5, <3>1, <4>1 DEF u
    <3>3. CASE k # n - 1
      <4>1. k < n - 1 /\ k + 1 \in 1 .. n - 1
        BY <1>3, <3>3
      <4>2. w[k] = visiting[k] /\ w[k + 1] = visiting[k + 1]
        BY <1>5, <4>1
      <4> QED
        BY <3>1, <4>1, <4>2
    <3> QED
      BY <3>2, <3>3
  <2> QED
    BY <1>2, <1>5, <2>2, <2>4, <2>5, <2>6, <2>7 DEF SearchPath
<1>11. Grounded'
  <2>1. \A v \in visited' : requires[v] \subseteq visited'
    BY <1>1, <1>2, <1>7 DEF Grounded
  <2>2. ASSUME NEW S \in SUBSET (visited \cup {u}), S # {}
        PROVE  \E v \in S : requires[v] \cap S = {}
    <3>1. CASE S \ {u} = {}
      <4>1. u \in S
        BY <2>2, <3>1
      <4> QED
        BY <1>7, <3>1, <4>1
    <3>2. CASE S \ {u} # {}
      <4>1. S \ {u} \in (SUBSET visited) \ {{}}
        BY <3>2
      <4>2. PICK v \in S \ {u} : requires[v] \cap (S \ {u}) = {}
        BY <1>1, <4>1 DEF Grounded
      <4>3. requires[v] \subseteq visited
        BY <1>1, <4>1, <4>2 DEF Grounded
      <4>4. requires[v] \cap S = {}
        BY <1>7, <4>2, <4>3
      <4> QED
        BY <4>2, <4>4
    <3> QED
      BY <3>1, <3>2
  <2> QED
    BY <1>2, <2>1, <2>2 DEF Grounded
<1>12. PassKnown'
  BY <1>1, <1>2 DEF PassKnown, Qualifies
<1> QED
  BY <1>2, <1>9, <1>10, <1>11, <1>12 DEF CurriculumKnown

(* A pass qualifies what it can, and one that changes nothing is the last. *)
LEMMA QualifyStep ==
    ASSUME Units!CurriculumAssumption, CurriculumKnown, Units!Qualify \/ Units!NextPass
    PROVE  CurriculumKnown'
<1>1. CurriculumTypes /\ SearchPath /\ Grounded /\ PassKnown /\ visited = Units!Units
  BY DEF CurriculumKnown, Units!Qualify, Units!NextPass
<1>2. UNCHANGED <<requires, status, visiting, visited, slots>> /\ curriculumPc = "qualify"
  BY DEF Units!Qualify, Units!NextPass
<1>3. SearchPath'
  BY <1>1, <1>2 DEF SearchPath
<1>4. Grounded'
  BY <1>1, <1>2 DEF Grounded
<1>5. at \in 1 .. MaxUnit + 1 /\ MaxUnit \in Nat
  BY <1>1 DEF CurriculumTypes, Units!CurriculumAssumption
<1>6. CASE Units!Qualify
  <2>1. /\ at \in Units!Units /\ at' = at + 1 /\ curriculumPc' = curriculumPc
        /\ IF status[at] = "mastered" /\ at \notin qualified /\ requires[at] \subseteq qualified
           THEN qualified' = qualified \cup {at} /\ changed' = TRUE
           ELSE qualified' = qualified /\ changed' = changed
    BY <1>6 DEF Units!Qualify
  <2>2. at + 1 \in 1 .. MaxUnit + 1 /\ \A v \in 1 .. (at + 1) - 1 : v \in 1 .. at - 1 \/ v = at
    BY <1>5, <2>1 DEF Units!Units
  <2>3. CurriculumTypes'
    BY <1>1, <1>2, <2>1, <2>2 DEF CurriculumTypes
  <2>4. PassKnown'
    <3>1. \A v \in qualified' : Qualifies(v)'
      BY <1>1, <1>2, <2>1 DEF PassKnown, Qualifies
    <3>2. ASSUME ~changed', NEW v \in 1 .. at' - 1, Qualifies(v)' PROVE v \in qualified'
      <4>1. UNCHANGED <<changed, qualified>> /\ ~changed
        BY <2>1, <3>2
      <4>2. Qualifies(v)
        BY <1>2, <3>2, <4>1 DEF Qualifies
      <4>3. v \in 1 .. at - 1 \/ v = at
        BY <2>1, <2>2, <3>2
      <4>4. v \in 1 .. at - 1 => v \in qualified
        BY <1>1, <1>2, <4>1, <4>2 DEF PassKnown
      <4>5. v = at => v \in qualified
        BY <2>1, <3>2, <4>2 DEF Qualifies
      <4> QED
        BY <4>1, <4>3, <4>4, <4>5
    <3> QED
      BY <1>2, <2>1, <3>1, <3>2 DEF PassKnown
  <2> QED
    BY <1>1, <1>2, <1>3, <1>4, <2>1, <2>3, <2>4 DEF CurriculumKnown
<1>7. CASE Units!NextPass
  <2>1. /\ at = MaxUnit + 1 /\ qualified' = qualified
        /\ IF changed THEN at' = 1 /\ changed' = FALSE /\ curriculumPc' = curriculumPc
           ELSE curriculumPc' = "schedule" /\ at' = at /\ changed' = changed
    BY <1>7 DEF Units!NextPass
  <2>2. 1 \in 1 .. MaxUnit + 1 /\ 1 .. 1 - 1 = {} /\ (MaxUnit + 1) - 1 = MaxUnit
    BY <1>5
  <2>3. CurriculumTypes'
    BY <1>1, <1>2, <2>1, <2>2 DEF CurriculumTypes
  <2>4. PassKnown'
    <3>1. \A v \in qualified' : Qualifies(v)'
      BY <1>1, <1>2, <2>1 DEF PassKnown, Qualifies
    <3>2. CASE changed
      BY <1>2, <2>1, <2>2, <3>1, <3>2 DEF PassKnown
    <3>3. CASE ~changed
      <4>1. \A v \in Units!Units : Qualifies(v) => v \in qualified
        BY <1>1, <1>2, <2>1, <2>2, <3>3 DEF PassKnown, Units!Units
      <4>2. \A v \in Units!Units : Qualifies(v)' => v \in qualified'
        BY <1>2, <2>1, <4>1 DEF Qualifies
      <4> QED
        BY <1>2, <2>1, <3>1, <3>3, <4>2 DEF PassKnown
    <3> QED
      BY <3>2, <3>3
  <2> QED
    BY <1>1, <1>2, <1>3, <1>4, <2>1, <2>3, <2>4 DEF CurriculumKnown
<1> QED
  BY <1>6, <1>7

(* The schedule is made of what the passes have left. *)
LEMMA ScheduleStep ==
    ASSUME Units!CurriculumAssumption, CurriculumKnown, Units!Schedule
    PROVE  CurriculumKnown'
<1>1. CurriculumTypes /\ SearchPath /\ Grounded /\ PassKnown /\ visited = Units!Units
  BY DEF CurriculumKnown, Units!Schedule
<1>2. /\ UNCHANGED <<requires, status, visiting, visited, qualified, at, changed>>
      /\ curriculumPc = "schedule"
      /\ IF Units!Refuses THEN curriculumPc' = "unsatisfied" /\ slots' = slots
         ELSE /\ curriculumPc' = "done"
              /\ slots' = [i \in 1 .. TotalSlots |-> Units!Choice(i)]
  BY DEF Units!Schedule
<1>3. CurriculumTypes'
  BY <1>1, <1>2 DEF CurriculumTypes
<1>4. SearchPath'
  BY <1>1, <1>2 DEF SearchPath
<1>5. Grounded'
  BY <1>1, <1>2 DEF Grounded
<1>6. PassKnown'
  BY <1>1, <1>2 DEF PassKnown, Qualifies
<1>7. (\A s : Units!With(s)' = Units!With(s)) /\ Units!Eligible' = Units!Eligible
  BY <1>2 DEF Units!With, Units!Eligible, Units!Status
<1>8. Units!Refuses' <=> Units!Refuses
  BY <1>7 DEF Units!Refuses
<1>9. \A i : Units!Choice(i)' = Units!Choice(i)
  BY <1>7 DEF Units!Choice, Units!Lane
<1> QED
  BY <1>1, <1>2, <1>3, <1>4, <1>5, <1>6, <1>8, <1>9 DEF CurriculumKnown

(* Every step of the curriculum preserves what is known. *)
LEMMA CurriculumInductive ==
    ASSUME Units!CurriculumAssumption, CurriculumKnown, [Units!Next]_curriculumVars
    PROVE  CurriculumKnown'
<1>1. CASE UNCHANGED curriculumVars
  <2>1. UNCHANGED <<requires, status, curriculumPc, visiting, visited, qualified, at, changed, slots>>
    BY <1>1 DEF curriculumVars
  <2>2. CurriculumTypes'
    BY <2>1 DEF CurriculumKnown, CurriculumTypes
  <2>3. SearchPath'
    BY <2>1 DEF CurriculumKnown, SearchPath
  <2>4. Grounded' /\ (Units!Cyclic' <=> Units!Cyclic)
    BY <2>1 DEF CurriculumKnown, Grounded, Units!Cyclic
  <2>5. PassKnown'
    BY <2>1 DEF CurriculumKnown, PassKnown, Qualifies
  <2>6. (\A s : Units!With(s)' = Units!With(s)) /\ Units!Eligible' = Units!Eligible
    BY <2>1 DEF Units!With, Units!Eligible, Units!Status
  <2>7. (Units!Refuses' <=> Units!Refuses) /\ \A i : Units!Choice(i)' = Units!Choice(i)
    BY <2>6 DEF Units!Refuses, Units!Choice, Units!Lane
  <2> QED
    BY <2>1, <2>2, <2>3, <2>4, <2>5, <2>7 DEF CurriculumKnown
<1> QED
  BY <1>1, RootStep, PrerequisiteStep, VisitedStep, QualifyStep, ScheduleStep
  DEF Units!Next

(* What is refused has a cycle, and what is not has none.                  *)
LEMMA CurriculumRefuses == ASSUME CurriculumKnown PROVE Units!RefusesCyclesOnly
<1>1. ASSUME curriculumPc \in {"qualify", "schedule", "unsatisfied", "done"} PROVE ~ Units!Cyclic
  <2>1. visited = Units!Units /\ \A S \in (SUBSET visited) \ {{}} : \E u \in S : requires[u] \cap S = {}
    BY <1>1 DEF CurriculumKnown, Grounded
  <2> QED BY <2>1 DEF Units!Cyclic
<1> QED BY <1>1 DEF Units!RefusesCyclesOnly, CurriculumKnown

(* There is a least set of what a unit rests on: the units that are in      *)
(* every set of units closed under prerequisites that holds its own.        *)
LEMMA FoundationsAreLeast ==
    ASSUME requires \in [Units!Units -> SUBSET Units!Units], NEW u \in Units!Units
    PROVE  LET F == Units!Foundations(u)
           IN  /\ F \in SUBSET Units!Units
               /\ requires[u] \subseteq F /\ \A v \in F : requires[v] \subseteq F
               /\ \A T \in SUBSET F :
                     requires[u] \subseteq T /\ (\A v \in T : requires[v] \subseteq T) => T = F
<1> DEFINE Closed(T) == requires[u] \subseteq T /\ \A v \in T : requires[v] \subseteq T
           M == {v \in Units!Units : \A T \in SUBSET Units!Units : Closed(T) => v \in T}
<1>1. M \in SUBSET Units!Units
  OBVIOUS
<1>2. \A v \in Units!Units : requires[v] \subseteq Units!Units
  OBVIOUS
<1>3. \A T \in SUBSET Units!Units : Closed(T) => M \subseteq T
  OBVIOUS
<1>4. requires[u] \subseteq M
  BY <1>2
<1>5. \A v \in M : requires[v] \subseteq M
  BY <1>2
<1>6. \A T \in SUBSET M : Closed(T) => T = M
  BY <1>1, <1>3
<1> HIDE DEF M
<1> QED BY <1>1, <1>4, <1>5, <1>6 DEF Units!Foundations

(* A unit is open exactly when everything it rests on is mastered: what is *)
(* qualified of its foundations is closed, and what is not would have a    *)
(* least unit, which the passes would have qualified.                      *)
LEMMA CurriculumOpens == ASSUME CurriculumKnown PROVE Units!OnMasteredFoundations
<1> SUFFICES ASSUME curriculumPc \in {"schedule", "unsatisfied", "done"}, NEW u \in Units!Units
             PROVE  u \in Units!Eligible <=>
                        /\ status[u] # "excluded"
                        /\ \A v \in Units!Foundations(u) : status[v] = "mastered"
  BY DEF Units!OnMasteredFoundations
<1> DEFINE F == Units!Foundations(u)
<1>1. CurriculumTypes /\ Grounded /\ PassKnown /\ visited = Units!Units
  BY DEF CurriculumKnown
<1>2. /\ F \in SUBSET Units!Units
      /\ requires[u] \subseteq F /\ \A v \in F : requires[v] \subseteq F
      /\ \A T \in SUBSET F :
            requires[u] \subseteq T /\ (\A v \in T : requires[v] \subseteq T) => T = F
  BY <1>1, FoundationsAreLeast DEF CurriculumTypes
<1> HIDE DEF F
<1>3. u \in Units!Eligible <=> status[u] # "excluded" /\ requires[u] \subseteq qualified
  <2>1. status[u] \in {"mastered", "hard", "frontier", "excluded"}
    BY <1>1 DEF CurriculumTypes, Units!Statuses
  <2>2. Units!Status(u) = IF status[u] # "excluded" /\ ~(requires[u] \subseteq qualified)
                          THEN "blocked" ELSE status[u]
    BY DEF Units!Status
  <2> QED BY <2>1, <2>2 DEF Units!Eligible
<1>4. ASSUME requires[u] \subseteq qualified PROVE \A v \in F : status[v] = "mastered"
  <2> DEFINE T == F \cap qualified
  <2>1. requires[u] \subseteq T
    BY <1>2, <1>4
  <2>2. \A v \in qualified : status[v] = "mastered" /\ requires[v] \subseteq qualified
    BY <1>1 DEF PassKnown, Qualifies
  <2>3. \A v \in T : requires[v] \subseteq T
    BY <1>2, <2>2
  <2>4. T = F
    BY <1>2, <2>1, <2>3
  <2> QED BY <2>2, <2>4
<1>5. ASSUME \A v \in F : status[v] = "mastered" PROVE requires[u] \subseteq qualified
  <2> SUFFICES ASSUME F \ qualified # {} PROVE FALSE
    BY <1>2
  <2>1. PICK v \in F \ qualified : requires[v] \cap (F \ qualified) = {}
    BY <1>1, <1>2 DEF Grounded
  <2>2. requires[v] \subseteq qualified
    BY <1>2, <2>1
  <2>3. Qualifies(v)
    BY <1>5, <2>1, <2>2 DEF Qualifies
  <2> QED BY <1>1, <1>2, <2>1, <2>3 DEF PassKnown
<1> QED BY <1>3, <1>4, <1>5 DEF F

(* The list of a set of units: each once.                                  *)
LEMMA RankedLists ==
    ASSUME NEW S, IsFiniteSet(S)
    PROVE  /\ Units!SetToSeq(S) \in [1 .. Cardinality(S) -> S]
           /\ \A x, y \in 1 .. Cardinality(S) :
                 Units!SetToSeq(S)[x] = Units!SetToSeq(S)[y] => x = y
<1>1. PICK f \in Bijection(1 .. Cardinality(S), S) : TRUE
  BY FS_CardinalityType DEF ExistsBijection
<1>2. f \in [1 .. Cardinality(S) -> S] /\ \A x, y \in 1 .. Cardinality(S) : f[x] = f[y] => x = y
  BY <1>1 DEF Bijection, Injection, IsInjective
<1>3. Units!Cardinality(S) = Cardinality(S)
  BY DEF Units!Cardinality, Cardinality
<1>4. \A g : Units!IsInjective(g) <=> \A x, y \in DOMAIN g : g[x] = g[y] => x = y
  BY DEF Units!IsInjective
<1>5. Units!SetToSeq(S) = CHOOSE g \in [1 .. Cardinality(S) -> S] : Units!IsInjective(g)
  BY <1>3 DEF Units!SetToSeq
<1>6. \E g \in [1 .. Cardinality(S) -> S] : Units!IsInjective(g)
  BY <1>2, <1>4
<1> QED BY <1>4, <1>5, <1>6

(* A lane whose slots are given in turn goes round.                        *)
LEMMA LaneRound ==
    ASSUME Units!CurriculumAssumption, NEW pool \in SUBSET Units!Units, NEW a \in Nat,
           NEW b \in Int,
           pool = {} => b <= a,
           \A i \in a + 1 .. b :
              slots[i] = Units!SetToSeq(pool)[((i - 1 - a) % Len(Units!SetToSeq(pool))) + 1]
    PROVE  /\ \A i \in a + 1 .. b : slots[i] \in pool
           /\ \A u, v \in pool : Units!Given(u, a + 1 .. b) <= Units!Given(v, a + 1 .. b) + 1
<1> DEFINE t == Units!SetToSeq(pool)
<1>1. IsFiniteSet(pool)
  <2>1. IsFiniteSet(1 .. MaxUnit)
    BY FS_Interval DEF Units!CurriculumAssumption
  <2> QED BY <2>1, FS_Subset DEF Units!Units
<1>2. t \in [1 .. Cardinality(pool) -> pool]
      /\ \A x, y \in 1 .. Cardinality(pool) : t[x] = t[y] => x = y
  BY <1>1, RankedLists
<1>3. Cardinality(pool) \in Nat
  BY <1>1, FS_CardinalityType
<1> HIDE DEF t
<1>4. Len(t) = Cardinality(pool)
  BY <1>2, <1>3
<1>5. \A u : Units!Given(u, a + 1 .. b) = Cardinality(Places(slots, a + 1 .. b, u))
  BY DEF Units!Given, Units!Cardinality, Cardinality, Places
<1>6. CASE pool = {}
  BY <1>6
<1>7. CASE pool # {}
  <2>1. \A i \in a + 1 .. b : slots[i] = t[((i - 1 - a) % Cardinality(pool)) + 1]
    BY <1>4 DEF t
  <2>2. /\ \A i \in a + 1 .. b : slots[i] \in pool
        /\ \A u, v \in pool : Cardinality(Places(slots, a + 1 .. b, u))
                                 <= Cardinality(Places(slots, a + 1 .. b, v)) + 1
    BY <1>1, <1>2, <1>7, <2>1, InTurn
  <2> QED BY <1>5, <2>2
<1> QED BY <1>6, <1>7

(* Each lane of the schedule goes round its pool.                          *)
LEMMA CurriculumGoesRound ==
    ASSUME Units!CurriculumAssumption, CurriculumKnown PROVE Units!LanesGoRound
<1> DEFINE m == MasteredFloor
           h == HardFloor
           z == 0
           lanes == [mastered |-> 1 .. m, hard |-> m + 1 .. m + h, mix |-> m + h + 1 .. TotalSlots]
           pools == [mastered |-> Units!With("mastered"), hard |-> Units!With("hard"),
                     mix |-> Units!Eligible]
<1> SUFFICES ASSUME curriculumPc = "done"
             PROVE  \A l \in DOMAIN lanes :
                       /\ \A i \in lanes[l] : slots[i] \in pools[l]
                       /\ \A u, v \in pools[l] :
                             Units!Given(u, lanes[l]) <= Units!Given(v, lanes[l]) + 1
  BY DEF Units!LanesGoRound
<1>1. ~ Units!Refuses /\ slots = [i \in 1 .. TotalSlots |-> Units!Choice(i)]
  BY DEF CurriculumKnown
<1>2. m \in Nat /\ h \in Nat /\ TotalSlots \in Nat
  BY DEF Units!CurriculumAssumption
<1>3. /\ Units!With("mastered") = {} => m <= 0
      /\ Units!With("hard") = {} => h <= 0
      /\ TotalSlots >= m + h /\ Units!Eligible # {}
  BY <1>1, <1>2 DEF Units!Refuses
<1>4. /\ Units!With("mastered") \in SUBSET Units!Units /\ Units!With("hard") \in SUBSET Units!Units
      /\ Units!Eligible \in SUBSET Units!Units
  BY DEF Units!With, Units!Eligible
<1>5. \A i \in 1 .. TotalSlots :
         slots[i] = Units!SetToSeq(Units!Lane(i).pool)
                       [(Units!Lane(i).place % Len(Units!SetToSeq(Units!Lane(i).pool))) + 1]
  BY <1>1 DEF Units!Choice
<1>6. \A i \in z + 1 .. m :
         /\ i \in 1 .. TotalSlots
         /\ Units!Lane(i).pool = Units!With("mastered") /\ Units!Lane(i).place = i - 1 - z
  BY <1>2, <1>3 DEF Units!Lane
<1>7. \A i \in m + 1 .. m + h :
         /\ i \in 1 .. TotalSlots
         /\ Units!Lane(i).pool = Units!With("hard") /\ Units!Lane(i).place = i - 1 - m
  BY <1>2, <1>3 DEF Units!Lane
<1>8. \A i \in (m + h) + 1 .. TotalSlots :
         /\ i \in 1 .. TotalSlots
         /\ Units!Lane(i).pool = Units!Eligible /\ Units!Lane(i).place = i - 1 - (m + h)
  BY <1>2, <1>3 DEF Units!Lane
<1> HIDE DEF m, h, z
<1>9. /\ \A i \in z + 1 .. m : slots[i] \in Units!With("mastered")
      /\ \A u, v \in Units!With("mastered") :
            Units!Given(u, z + 1 .. m) <= Units!Given(v, z + 1 .. m) + 1
  <2>1. \A i \in z + 1 .. m :
           slots[i] = Units!SetToSeq(Units!With("mastered"))
                         [((i - 1 - z) % Len(Units!SetToSeq(Units!With("mastered")))) + 1]
    BY <1>5, <1>6
  <2>2. z \in Nat /\ m \in Int /\ (Units!With("mastered") = {} => m <= z)
    BY <1>2, <1>3 DEF z
  <2> QED BY <1>4, <2>1, <2>2, LaneRound
<1>10. /\ \A i \in m + 1 .. m + h : slots[i] \in Units!With("hard")
       /\ \A u, v \in Units!With("hard") :
             Units!Given(u, m + 1 .. m + h) <= Units!Given(v, m + 1 .. m + h) + 1
  <2>1. \A i \in m + 1 .. m + h :
           slots[i] = Units!SetToSeq(Units!With("hard"))
                         [((i - 1 - m) % Len(Units!SetToSeq(Units!With("hard")))) + 1]
    BY <1>5, <1>7
  <2>2. m + h \in Int /\ (Units!With("hard") = {} => m + h <= m)
    BY <1>2, <1>3
  <2> QED BY <1>2, <1>4, <2>1, <2>2, LaneRound
<1>11. /\ \A i \in (m + h) + 1 .. TotalSlots : slots[i] \in Units!Eligible
       /\ \A u, v \in Units!Eligible :
             Units!Given(u, (m + h) + 1 .. TotalSlots) <= Units!Given(v, (m + h) + 1 .. TotalSlots) + 1
  <2>1. \A i \in (m + h) + 1 .. TotalSlots :
           slots[i] = Units!SetToSeq(Units!Eligible)
                         [((i - 1 - (m + h)) % Len(Units!SetToSeq(Units!Eligible))) + 1]
    BY <1>5, <1>8
  <2>2. m + h \in Nat /\ TotalSlots \in Int
    BY <1>2
  <2> QED BY <1>3, <1>4, <2>1, <2>2, LaneRound
<1>12. z + 1 .. m = 1 .. m /\ (m + h) + 1 .. TotalSlots = m + h + 1 .. TotalSlots
  BY DEF z
<1>13. /\ DOMAIN lanes = {"mastered", "hard", "mix"}
       /\ lanes["mastered"] = 1 .. m /\ pools["mastered"] = Units!With("mastered")
       /\ lanes["hard"] = m + 1 .. m + h /\ pools["hard"] = Units!With("hard")
       /\ lanes["mix"] = m + h + 1 .. TotalSlots /\ pools["mix"] = Units!Eligible
  OBVIOUS
<1> HIDE DEF lanes, pools
<1> QED BY <1>9, <1>10, <1>11, <1>12, <1>13

(* The curriculum refuses the graphs with a cycle and no others, opens a    *)
(* unit only when everything below it is mastered, however far down, keeps  *)
(* its floors with the units they are for, and goes round in each lane:     *)
(* for any number of units, prerequisites, floors and slots.                *)
THEOREM CurriculumSound == ASSUME Units!CurriculumAssumption PROVE MCSpec => []CurriculumIsSound
<1>1. MCInit => (part = "curriculum" => CurriculumKnown)
  BY CurriculumBegins DEF MCInit
<1>2. (part = "curriculum" => CurriculumKnown) /\ [MCNext]_allVars
          => (part = "curriculum" => CurriculumKnown)'
  <2>1. [MCNext]_allVars /\ part' = "curriculum"
            => part = "curriculum" /\ [Units!Next]_curriculumVars
    BY DEF MCNext, allVars, curriculumVars
  <2> QED
    BY <2>1, CurriculumInductive
<1>3. (part = "curriculum" => CurriculumKnown) => CurriculumIsSound
  BY CurriculumRefuses, CurriculumOpens, CurriculumGoesRound DEF CurriculumIsSound
<1> QED
  BY <1>1, <1>2, <1>3, PTL DEF MCSpec

-----------------------------------------------------------------------------
(* The control loop of the policy in real time. *)

(* A time that falls on a tick: on one of the frames that begin in it. *)
Near(t, k) == t \in Nat /\ k \in Nat /\ Period * k <= t /\ t < Period * k + frame

(* A frame of the simulation takes at most half of a tick, rounded up. *)
Clock == Period \in Nat \ {0} /\ frame \in Nat \ {0} /\ 2 * frame <= Period + 1

(* Two times that fall on ticks are apart by the ticks between them and less *)
(* than half a period.                                                     *)
LEMMA ClockTicks ==
    ASSUME Clock, NEW t, NEW k, Near(t, k), NEW u, NEW l, Near(u, l)
    PROVE  \E d \in Int : /\ u - t = Period * (l - k) + d
                          /\ 0 - Period < 2 * d /\ 2 * d < Period
<1> DEFINE x == Period * k
           y == Period * l
           d == (u - y) - (t - x)
<1>1. x \in Nat /\ y \in Nat /\ Period * (l - k) = y - x
  BY DEF Clock, Near
<1>2. t \in Nat /\ u \in Nat /\ x <= t /\ t < x + frame /\ y <= u /\ u < y + frame
  BY DEF Near
<1>3. d \in Int /\ u - t = (y - x) + d /\ 0 - Period < 2 * d /\ 2 * d < Period
  <2> HIDE DEF x, y
  <2> QED BY <1>1, <1>2 DEF Clock
<1> HIDE DEF x, y, d
<1> QED BY <1>1, <1>3

(* So rounding what is elapsed gives the ticks between them, *)
LEMMA ElapsedIs ==
    ASSUME Clock, NEW t, NEW k, Near(t, k), NEW u, NEW l, Near(u, l)
    PROVE  Control!ElapsedSteps(t, u) = l - k
<1>1. PICK d \in Int : /\ u - t = Period * (l - k) + d
                       /\ 0 - Period < 2 * d /\ 2 * d < Period
  BY ClockTicks
<1>2. Period \in Nat \ {0} /\ l - k \in Int /\ u - t \in Int
  BY DEF Clock, Near
<1> DEFINE n == 2 * (u - t) + Period
           r == 2 * d + Period
<1>3. n \in Int /\ 2 * Period \in Nat \ {0} /\ r \in 0 .. 2 * Period - 1
  BY <1>1, <1>2
<1>4. n = (2 * Period) * (l - k) + r
  <2> DEFINE x == Period * (l - k)
  <2>1. (2 * Period) * (l - k) = 2 * x /\ x \in Int
    BY <1>2
  <2>2. 2 * (x + d) + Period = 2 * x + (2 * d + Period)
    <3> HIDE DEF x
    <3> QED BY <1>2, <2>1
  <2> QED BY <1>1, <2>1, <2>2
<1>5. n \div (2 * Period) = l - k
  <2> HIDE DEF n, r
  <2> DEFINE c == 2 * Period
  <2>1. c \in Nat \ {0} /\ r \in 0 .. c - 1 /\ n = c * (l - k) + r
    BY <1>3, <1>4
  <2> HIDE DEF c
  <2>2. n \div c = l - k
    BY <1>2, <1>3, <2>1, Division
  <2> QED BY <2>2 DEF c
<1> QED BY <1>5 DEF Control!ElapsedSteps

(* and so does rounding to an even step. *)
LEMMA StepIs ==
    ASSUME Clock, NEW t, NEW k, Near(t, k), NEW u, NEW l, Near(u, l)
    PROVE  Control!StepOf(t, u) = l - k
<1>1. PICK d \in Int : /\ u - t = Period * (l - k) + d
                       /\ 0 - Period < 2 * d /\ 2 * d < Period
  BY ClockTicks
<1>2. Period \in Nat \ {0} /\ l - k \in Int /\ u - t \in Int
  BY DEF Clock, Near
<1>3. CASE d >= 0
  <2>1. d \in 0 .. Period - 1
    BY <1>1, <1>2, <1>3
  <2>2. (u - t) \div Period = l - k /\ (u - t) % Period = d
    BY <1>1, <1>2, <2>1, Division
  <2>3. ~ (2 * d > Period) /\ 2 * d # Period
    BY <1>1, <1>2
  <2> QED BY <2>2, <2>3 DEF Control!StepOf
<1>4. CASE d < 0
  <2> DEFINE e == Period + d
             q == l - k - 1
  <2>1. e \in 0 .. Period - 1 /\ q \in Int
    BY <1>1, <1>2, <1>4
  <2>2. u - t = Period * q + e
    <3>1. Period * q = Period * (l - k) - Period
      BY <1>2
    <3> DEFINE x == Period * (l - k)
    <3>2. x \in Int
      BY <1>2
    <3> HIDE DEF x
    <3>3. u - t = (x - Period) + e
      BY <1>1, <1>2, <3>2 DEF x
    <3> QED BY <3>1, <3>3 DEF x
  <2>3. (u - t) \div Period = q /\ (u - t) % Period = e
    <3> HIDE DEF e, q
    <3> QED BY <1>2, <2>1, <2>2, Division
  <2>4. 2 * e > Period /\ q + 1 = l - k
    BY <1>1, <1>2
  <2> HIDE DEF e, q
  <2> QED BY <2>3, <2>4 DEF Control!StepOf
<1> QED BY <1>1, <1>3, <1>4

(* What an answer, a chunk, a seed and the control of the policy are. *)
Answers == [Control!Rows -> Nat \X Control!Rows]
Chunks == [rows : Answers, tick : Nat]
Pushed == [from : Int, rows : Answers]
Controls == [chunk : Chunks \cup {None}, index : 0 .. Horizon, chunks : Seq(Pushed),
             epoch : Nat \cup {None}, replan : Nat]

(* The frames are short beside the period, an answer takes a tick at least, *)
(* and None is none of the things it stands for.                            *)
ControlAssumption ==
    /\ Period \in Nat \ {0} /\ Horizon \in Nat \ {0} /\ ReplanHorizon \in Nat \ {0}
    /\ MaxOverlap \in Nat /\ FrozenSteps \in Nat /\ MaxSteps \in Nat /\ MaxTicks \in Nat
    /\ \A f \in Frames : f \in Nat \ {0} /\ 2 * f <= Period + 1
    /\ Latencies \subseteq Nat \ {0}
    /\ None \notin Nat \cup Answers \cup Chunks

(* The chunk that is executed is the last that was pushed, at the step of   *)
(* its tick; and at tick k it is executed where the clock says.             *)
ChunkFacts(c, k) ==
    /\ c \in Controls
    /\ c.chunk = None <=> c.chunks = <<>>
    /\ c.chunk = None <=> c.epoch = None
    /\ c.chunk # None =>
          /\ c.chunk.tick <= k
          /\ c.index = Control!Min2(Horizon, k - c.chunk.tick)
          /\ c.chunks[Len(c.chunks)].rows = c.chunk.rows
          /\ \E e : Near(c.epoch, e) /\ c.chunks[Len(c.chunks)].from = c.chunk.tick - e

(* A request carries the rows of the chunk that is executed, each at the    *)
(* tick it belongs to.                                                      *)
Carries(q, chunk) ==
    /\ q.replan \in Nat /\ Near(q.time, q.tick) /\ q.seed \in Answers \cup {None}
    /\ q.frozen = IF q.seed = None THEN 0
                  ELSE Control!Min2(FrozenSteps, Control!Min2(Horizon, MaxOverlap))
    /\ chunk # None =>
          /\ chunk.tick <= q.tick
          /\ \A e \in Control!Rows :
                q.tick - chunk.tick + e < Horizon =>
                    q.seed # None /\ q.seed[e] = chunk.rows[q.tick - chunk.tick + e]

(* The latest of the chunks that have a row for a step. *)
LEMMA LatestCovers ==
    ASSUME NEW c, c.chunks \in Seq(Pushed), NEW s \in Int, Control!Covering(c, s) # {}
    PROVE  LET i == CHOOSE i \in Control!Covering(c, s) : \A j \in Control!Covering(c, s) : i >= j
           IN  /\ i \in Control!Covering(c, s) /\ \A j \in Control!Covering(c, s) : i >= j
               /\ Control!SeedRow(c, s) = Control!RowAt(c, i, s)
               /\ Control!SeedRow(c, s) \in Nat \X Control!Rows
<1> DEFINE T == Control!Covering(c, s)
           i == CHOOSE x \in T : \A j \in T : x >= j
<1>1. Len(c.chunks) \in Nat /\ DOMAIN c.chunks = 1 .. Len(c.chunks)
      /\ \A j \in 1 .. Len(c.chunks) : c.chunks[j] \in Pushed
  OBVIOUS
<1>2. T \subseteq 0 .. Len(c.chunks) /\ T # {}
      /\ \A j \in T : j \in DOMAIN c.chunks /\ s - c.chunks[j].from \in Control!Rows
  BY <1>1 DEF Control!Covering
<1> HIDE DEF T
<1>3. \E x \in T : \A j \in T : j <= x
  BY <1>1, <1>2, GreatestNatural
<1>4. \E x \in T : \A j \in T : x >= j
  BY <1>1, <1>2, <1>3
<1>5. i \in T /\ \A j \in T : i >= j
  BY <1>4
<1>6. Control!SeedRow(c, s) = Control!RowAt(c, i, s)
  BY DEF Control!SeedRow, T
<1> HIDE DEF i
<1>7. Control!RowAt(c, i, s) \in Nat \X Control!Rows
  <2>1. c.chunks[i] \in Pushed /\ s - c.chunks[i].from \in Control!Rows
    BY <1>1, <1>2, <1>5
  <2>2. c.chunks[i].rows \in Answers
    BY <2>1 DEF Pushed
  <2> QED BY <2>1, <2>2 DEF Control!RowAt, Answers
<1> QED BY <1>5, <1>6, <1>7 DEF i, T

(* A request that is made on a tick carries the chunk that is executed. *)
LEMMA RequestCarries ==
    ASSUME ControlAssumption, Clock, NEW c, ChunkFacts(c, tick), Near(time, tick)
    PROVE  /\ Carries(Control!Request(c), c.chunk)
           /\ Control!Request(c).tick = tick /\ Control!Request(c).time = time
<1> DEFINE q == Control!Request(c)
           seed == Control!SeedWindow(c)
           n == Len(c.chunks)
<1>1. /\ q.replan = c.replan /\ q.time = time /\ q.tick = tick /\ q.seed = seed
      /\ q.frozen = IF seed = None THEN 0
                    ELSE Control!Min2(FrozenSteps, Control!Min2(Horizon, MaxOverlap))
  BY DEF Control!Request
<1>2. /\ c \in Controls /\ c.replan \in Nat /\ c.chunks \in Seq(Pushed)
      /\ c.chunk \in Chunks \cup {None}
  BY DEF ChunkFacts, Controls
<1> HIDE DEF q
<1>3. CASE c.chunks = <<>>
  <2>1. seed = None /\ c.chunk = None
    BY <1>3 DEF Control!SeedWindow, ChunkFacts
  <2> QED BY <1>1, <1>2, <2>1 DEF Carries, q
<1>4. CASE c.chunks # <<>>
  <2>1. /\ c.chunk # None /\ c.chunk \in Chunks /\ c.chunk.tick \in Nat /\ c.chunk.tick <= tick
        /\ c.chunks[n].rows = c.chunk.rows /\ tick \in Nat
    BY <1>2, <1>4 DEF ChunkFacts, Chunks, Near
  <2>2. PICK e : Near(c.epoch, e) /\ c.chunks[n].from = c.chunk.tick - e
    BY <2>1 DEF ChunkFacts
  <2> DEFINE d == tick - c.chunk.tick
             s == Control!StepOf(c.epoch, time)
             valid(k) == \A j \in 0 .. k : Control!Covering(c, s + j) # {}
             last == CHOOSE k \in Control!Rows : valid(k) /\ (k + 1 \in Control!Rows => ~valid(k + 1))
  <2>3. s = tick - e /\ e \in Nat /\ s \in Int /\ d \in Nat
    BY <2>1, <2>2, StepIs DEF Near
  <2>4. seed = IF ~valid(0) THEN None
               ELSE [k \in Control!Rows |-> Control!SeedRow(c, s + Control!Min2(k, last))]
    BY <1>4 DEF Control!SeedWindow
  <2>5. n \in Nat /\ n >= 1 /\ n \in DOMAIN c.chunks
    <3> DEFINE z == c.chunks
    <3>1. z \in Seq(Pushed) /\ z # <<>>
      BY <1>2, <1>4
    <3> HIDE DEF z
    <3>2. Len(z) \in Nat /\ Len(z) >= 1 /\ Len(z) \in DOMAIN z
      BY <3>1
    <3> QED BY <3>2 DEF z
  <2>6. Horizon \in Nat \ {0} /\ Control!Rows = 0 .. Horizon - 1
    BY DEF ControlAssumption, Control!Rows
  <2> HIDE DEF n, d, s, seed
  <2>7. ASSUME NEW j \in Control!Rows, d + j < Horizon PROVE n \in Control!Covering(c, s + j)
    <3>1. (s + j) - c.chunks[n].from = d + j
      BY <2>1, <2>2, <2>3, <2>6 DEF d
    <3>2. d + j \in Control!Rows
      BY <2>3, <2>6, <2>7
    <3> QED BY <2>5, <3>1, <3>2 DEF Control!Covering, n
  <2>8. ASSUME NEW k \in Control!Rows, d + k < Horizon PROVE valid(k)
    <3> SUFFICES ASSUME NEW j \in 0 .. k PROVE Control!Covering(c, s + j) # {}
      OBVIOUS
    <3>1. j \in Control!Rows /\ d + j < Horizon
      BY <2>3, <2>6, <2>8
    <3> QED BY <2>7, <3>1
  <2>9. CASE ~ valid(0)
    <3>1. seed = None
      BY <2>4, <2>9
    <3>2. 0 \in Control!Rows
      BY <2>6
    <3>3. \A k \in Control!Rows : ~ (d + k < Horizon)
      <4>1. ~ (d + 0 < Horizon)
        BY <2>8, <2>9, <3>2
      <4> QED BY <2>3, <2>6, <4>1
    <3> QED BY <1>1, <1>2, <2>1, <3>1, <3>3 DEF Carries, d, q
  <2>10. CASE valid(0)
    <3> DEFINE V == {k \in Control!Rows : valid(k)}
    <3>1. V \subseteq 0 .. Horizon /\ V # {} /\ Horizon \in Nat
      <4>1. 0 \in V
        BY <2>6, <2>10
      <4>2. \A k \in Control!Rows : k \in 0 .. Horizon
        BY <2>6
      <4> HIDE DEF valid
      <4> QED BY <2>6, <4>1, <4>2
    <3>2. PICK k \in V : \A j \in V : j <= k
      <4> HIDE DEF V
      <4> QED BY <3>1, GreatestNatural
    <3> HIDE DEF valid
    <3>3. k \in Control!Rows /\ valid(k) /\ (k + 1 \in Control!Rows => ~valid(k + 1))
      <4>1. k \in Nat /\ ~ (k + 1 <= k)
        BY <3>1
      <4> QED BY <3>2, <4>1
    <3>4. last \in Control!Rows /\ valid(last) /\ (last + 1 \in Control!Rows => ~valid(last + 1))
      BY <3>3
    <3> HIDE DEF last, V
    <3>5. last \in Nat /\ last <= Horizon - 1
      BY <2>6, <3>4
    <3>6. ASSUME NEW j \in Control!Rows
          PROVE  Control!Covering(c, s + Control!Min2(j, last)) # {} /\ Control!Min2(j,
                 last) \in Nat
      <4>1. Control!Min2(j, last) \in 0 .. last
        BY <2>6, <3>5 DEF Control!Min2
      <4> QED BY <3>4, <3>5, <4>1 DEF valid
    <3>7. seed = [j \in Control!Rows |-> Control!SeedRow(c, s + Control!Min2(j, last))]
      BY <2>4, <2>10
    <3>8. \A j \in Control!Rows :
             Control!SeedRow(c, s + Control!Min2(j, last)) \in Nat \X Control!Rows
      <4> TAKE j \in Control!Rows
      <4>1. s + Control!Min2(j, last) \in Int
        BY <2>3, <3>6
      <4> QED BY <1>2, <3>6, <4>1, LatestCovers
    <3>9. seed \in Answers /\ seed # None
      <4>1. seed \in Answers
        BY <3>7, <3>8 DEF Answers
      <4> QED BY <4>1 DEF ControlAssumption
    <3>10. ASSUME NEW j \in Control!Rows, d + j < Horizon
           PROVE  seed[j] = c.chunk.rows[d + j]
      <4>1. j \in Nat
        BY <2>6
      <4>2. last >= j
        <5> SUFFICES ASSUME last < j PROVE FALSE
          BY <3>5, <4>1
        <5>1. last + 1 \in Control!Rows /\ d + (last + 1) < Horizon
          BY <2>3, <2>6, <3>5, <3>10, <4>1
        <5> QED BY <2>8, <3>4, <5>1
      <4>3. Control!Min2(j, last) = j
        BY <3>5, <4>1, <4>2 DEF Control!Min2
      <4>4. seed[j] = Control!SeedRow(c, s + j)
        BY <3>7, <4>3
      <4>5. n \in Control!Covering(c, s + j) /\ s + j \in Int
        BY <2>3, <2>7, <3>10, <4>1
      <4> DEFINE i == CHOOSE i \in Control!Covering(c, s + j) :
                          \A l \in Control!Covering(c, s + j) : i >= l
      <4>6. /\ i \in Control!Covering(c, s + j) /\ \A l \in Control!Covering(c, s + j) : i >= l
            /\ Control!SeedRow(c, s + j) = Control!RowAt(c, i, s + j)
        BY <1>2, <4>5, LatestCovers
      <4> HIDE DEF i
      <4>7. i \in 1 .. n
        <5>1. i \in DOMAIN c.chunks
          BY <4>6 DEF Control!Covering
        <5>2. DOMAIN c.chunks = 1 .. Len(c.chunks)
          BY <1>2
        <5> QED BY <5>1, <5>2 DEF n
      <4>8. i = n
        BY <2>5, <4>5, <4>6, <4>7
      <4>9. (s + j) - c.chunks[n].from = d + j
        BY <2>1, <2>2, <2>3, <4>1 DEF d
      <4> QED BY <2>1, <4>4, <4>6, <4>8, <4>9 DEF Control!RowAt
    <3> QED BY <1>1, <1>2, <2>1, <3>9, <3>10 DEF Carries, d, q
  <2> QED BY <2>9, <2>10
<1> QED BY <1>3, <1>4

(* What is answered is a chunk, whose first rows are those of the seed. *)
LEMMA StoredIs ==
    ASSUME ControlAssumption, NEW q, NEW chunk, Carries(q, chunk)
    PROVE  /\ Control!Stored(q) \in Answers
           /\ \A k \in Control!Rows : k < q.frozen => q.seed # None /\ Control!Stored(q)[k] = q.seed[k]
<1>1. ASSUME NEW k \in Control!Rows, k < q.frozen PROVE q.seed # None /\ q.seed \in Answers
  <2>1. k >= 0 /\ k \in Int
    BY DEF Control!Rows, ControlAssumption
  <2>2. q.seed # None
    BY <1>1, <2>1 DEF Carries
  <2> QED BY <2>2 DEF Carries
<1>2. \A k \in Control!Rows : (IF k < q.frozen THEN q.seed[k] ELSE <<q.replan, k>>) \in Nat \X Control!Rows
  <2> TAKE k \in Control!Rows
  <2>1. CASE k < q.frozen
    BY <1>1, <2>1 DEF Answers
  <2>2. CASE ~ (k < q.frozen)
    BY <2>2 DEF Carries
  <2> QED BY <2>1, <2>2
<1> QED BY <1>1, <1>2 DEF Control!Stored, Answers

(* The last of the chunks that are kept is the one that is pushed. *)
LEMMA PushKeepsLast ==
    ASSUME NEW z \in Seq(Pushed), NEW y \in Pushed
    PROVE  LET all == Append(z, y)
               extra == IF Len(all) > Control!MaxChunks THEN Len(all) - Control!MaxChunks ELSE 0
               kept == SubSeq(all, extra + 1, Len(all))
           IN  kept \in Seq(Pushed) /\ kept # <<>> /\ kept[Len(kept)] = y
<1> DEFINE all == Append(z, y)
           n == Len(all)
           extra == IF n > Control!MaxChunks THEN n - Control!MaxChunks ELSE 0
           kept == SubSeq(all, extra + 1, n)
<1>1. all \in Seq(Pushed) /\ n \in Nat /\ n >= 1 /\ all[n] = y /\ \A i \in 1 .. n : all[i] \in Pushed
  OBVIOUS
<1>2. extra \in Nat /\ extra + 1 <= n
  BY <1>1 DEF Control!MaxChunks
<1> HIDE DEF n, extra, all
<1>3. \A i \in extra + 1 .. n : all[i] \in Pushed
  BY <1>1, <1>2
<1>4. /\ kept \in Seq(Pushed)
      /\ Len(kept) = IF extra + 1 <= n THEN n - (extra + 1) + 1 ELSE 0
      /\ \A i \in 1 .. n - (extra + 1) + 1 : kept[i] = all[extra + 1 + i - 1]
  BY <1>1, <1>2, <1>3, SubSeqProperties
<1> HIDE DEF kept
<1>5. Len(kept) = n - extra /\ n - extra \in 1 .. n - (extra + 1) + 1
      /\ extra + 1 + (n - extra) - 1 = n
  <2>1. n - (extra + 1) + 1 = n - extra /\ n - extra \in 1 .. n - extra
        /\ extra + 1 + (n - extra) - 1 = n
    BY <1>1, <1>2
  <2>2. Len(kept) = n - (extra + 1) + 1
    BY <1>2, <1>4
  <2> QED BY <2>1, <2>2
<1>6. kept[Len(kept)] = y
  BY <1>1, <1>4, <1>5
<1>7. kept # <<>>
  <2>1. Len(kept) # 0
    BY <1>1, <1>2, <1>5
  <2>2. Len(<<>>) = 0
    OBVIOUS
  <2> QED BY <2>1, <2>2
<1> QED BY <1>4, <1>6, <1>7 DEF kept, all, extra, n

(* An answer that is not all in the past becomes the chunk that is executed,*)
(* at the place of this tick; and where its rows are frozen it goes on as   *)
(* the chunk before would have.                                             *)
LEMMA InstallFacts ==
    ASSUME ControlAssumption, Clock, NEW c, ChunkFacts(c, tick), Near(time, tick),
           NEW q, Carries(q, c.chunk), q.tick <= tick
    PROVE  LET i == Control!Install(c, q)
           IN  /\ ChunkFacts(i, tick)
               /\ tick - q.tick >= Horizon => i.chunk = c.chunk /\ i.index = c.index
               /\ tick - q.tick < Horizon =>
                     /\ i.chunk # None /\ i.chunk.tick = q.tick /\ i.index = tick - q.tick
                     /\ /\ c.chunk # None /\ c.index < Horizon
                        /\ i.index + 1 <= Control!Min2(FrozenSteps, MaxOverlap)
                        => i.chunk.rows[i.index] = c.chunk.rows[c.index]
<1> DEFINE i == Control!Install(c, q)
           e == Control!ElapsedSteps(q.time, time)
           rows == Control!Stored(q)
<1>1. /\ q.replan \in Nat /\ Near(q.time, q.tick) /\ q.time \in Nat /\ q.tick \in Nat /\ tick \in Nat
  BY DEF Carries, Near
<1>2. e = tick - q.tick /\ e \in Nat
  <2>1. e = tick - q.tick
    BY <1>1, ElapsedIs
  <2> HIDE DEF e
  <2> QED BY <1>1, <2>1
<1>3. /\ c \in Controls /\ c.chunk \in Chunks \cup {None} /\ c.index \in 0 .. Horizon
      /\ c.chunks \in Seq(Pushed) /\ c.epoch \in Nat \cup {None} /\ c.replan \in Nat
  BY DEF ChunkFacts, Controls
<1>4. Horizon \in Nat \ {0} /\ FrozenSteps \in Nat /\ MaxOverlap \in Nat /\ Control!Rows = 0 .. Horizon - 1
  BY DEF ControlAssumption, Control!Rows
<1> HIDE DEF e
<1>5. CASE e >= Horizon
  <2>1. i = [c EXCEPT !.replan = @ + 1]
    BY <1>5 DEF Control!Install, e
  <2>2. i = [chunk |-> c.chunk, index |-> c.index, chunks |-> c.chunks, epoch |-> c.epoch,
             replan |-> c.replan + 1]
    BY <1>3, <2>1 DEF Controls
  <2> HIDE DEF i
  <2>3. /\ i.chunk = c.chunk /\ i.index = c.index /\ i.chunks = c.chunks /\ i.epoch = c.epoch
    BY <2>2
  <2>4. i \in Controls
    BY <1>3, <2>2 DEF Controls
  <2>5. ChunkFacts(i, tick)
    BY <2>3, <2>4 DEF ChunkFacts
  <2> QED BY <1>1, <1>2, <1>4, <1>5, <2>3, <2>5 DEF i
<1>6. CASE ~ (e >= Horizon)
  <2> DEFINE epoch == IF c.epoch = None THEN q.time ELSE c.epoch
             new == [from |-> Control!StepOf(epoch, q.time), rows |-> rows]
             all == Append(c.chunks, new)
             extra == IF Len(all) > Control!MaxChunks THEN Len(all) - Control!MaxChunks ELSE 0
             kept == SubSeq(all, extra + 1, Len(all))
             chunk == [rows |-> rows, tick |-> q.tick]
  <2>1. i = [[c EXCEPT !.epoch = epoch, !.chunks = kept] EXCEPT
                !.chunk = chunk, !.index = e, !.replan = @ + 1]
    BY <1>6 DEF Control!Install, Control!Push, e
  <2>2. rows \in Answers /\ \A k \in Control!Rows : k < q.frozen => q.seed # None /\ rows[k] = q.seed[k]
    BY StoredIs
  <2> HIDE DEF i, rows
  <2>3. chunk \in Chunks /\ chunk.tick = q.tick /\ chunk.rows = rows /\ chunk # None
    <3>1. chunk \in Chunks
      BY <1>1, <2>2 DEF Chunks
    <3> QED BY <3>1 DEF ControlAssumption
  <2>4. PICK t : Near(epoch, t)
    <3>1. CASE c.epoch = None
      BY <1>1, <3>1
    <3>2. CASE c.epoch # None
      BY <3>2 DEF ChunkFacts
    <3> QED BY <3>1, <3>2
  <2>5. epoch \in Nat /\ epoch # None /\ t \in Nat
    BY <2>4 DEF Near, ControlAssumption
  <2>6. Control!StepOf(epoch, q.time) = q.tick - t
    BY <1>1, <2>4, StepIs
  <2> HIDE DEF epoch, chunk
  <2>7. new \in Pushed /\ new.from = q.tick - t /\ new.rows = rows
    BY <1>1, <2>2, <2>5, <2>6 DEF Pushed
  <2> HIDE DEF new
  <2>8. kept \in Seq(Pushed) /\ kept # <<>> /\ kept[Len(kept)] = new
    BY <1>3, <2>7, PushKeepsLast
  <2> HIDE DEF kept
  <2>9. i = [chunk |-> chunk, index |-> e, chunks |-> kept, epoch |-> epoch, replan |-> c.replan + 1]
    BY <1>3, <2>1 DEF Controls
  <2>10. i.chunk = chunk /\ i.index = e /\ i.chunks = kept /\ i.epoch = epoch
    BY <2>9
  <2>11. i \in Controls
    <3>1. e \in 0 .. Horizon
      BY <1>2, <1>4, <1>6
    <3> QED BY <1>3, <2>3, <2>5, <2>8, <2>9, <3>1 DEF Controls
  <2>12. ChunkFacts(i, tick)
    <3>1. e = Control!Min2(Horizon, tick - q.tick)
      BY <1>1, <1>2, <1>4, <1>6 DEF Control!Min2
    <3>2. \E x : Near(i.epoch, x) /\ i.chunks[Len(i.chunks)].from = i.chunk.tick - x
      BY <2>3, <2>4, <2>7, <2>8, <2>10
    <3> QED BY <2>3, <2>5, <2>7, <2>8, <2>10, <2>11, <3>1, <3>2 DEF ChunkFacts
  <2>13. ASSUME c.chunk # None, c.index < Horizon, e + 1 <= Control!Min2(FrozenSteps, MaxOverlap)
         PROVE  rows[e] = c.chunk.rows[c.index]
    <3>1. c.chunk.tick \in Nat /\ c.chunk.tick <= q.tick
      BY <1>3, <2>13 DEF Chunks, Carries
    <3>2. c.index = tick - c.chunk.tick /\ (q.tick - c.chunk.tick) + e = c.index
      <4>1. c.index = Control!Min2(Horizon, tick - c.chunk.tick)
        BY <2>13 DEF ChunkFacts
      <4>2. c.index = tick - c.chunk.tick
        BY <1>1, <1>4, <2>13, <3>1, <4>1 DEF Control!Min2
      <4> QED BY <1>1, <1>2, <3>1, <4>2
    <3>3. e \in Control!Rows
      BY <1>2, <1>4, <1>6
    <3>4. q.seed # None /\ q.seed[e] = c.chunk.rows[c.index]
      BY <2>13, <3>2, <3>3 DEF Carries
    <3>5. e < q.frozen
      <4>1. q.frozen = Control!Min2(FrozenSteps, Control!Min2(Horizon, MaxOverlap))
        BY <3>4 DEF Carries
      <4> QED BY <1>2, <1>4, <1>6, <2>13, <4>1 DEF Control!Min2
    <3> QED BY <2>2, <3>3, <3>4, <3>5
  <2>14. i.chunk # None /\ i.chunk.tick = q.tick /\ i.index = tick - q.tick /\ i.chunk.rows = rows
    BY <1>2, <2>3, <2>10
  <2> QED BY <1>1, <1>2, <1>4, <1>6, <2>10, <2>12, <2>13, <2>14 DEF i
<1> QED BY <1>2, <1>4, <1>5, <1>6

(* How many ticks a chunk may be old when the next one is asked for. *)
Patience == IF latency > ReplanHorizon THEN latency ELSE ReplanHorizon

(* What is known of the loop between frames: its time is on the tick that   *)
(* comes, the chunk that is executed is where the clock says, what the      *)
(* worker answers goes on from that chunk, and while answers are fast       *)
(* enough no chunk gets older than the patience of the loop.                *)
ControlKnown ==
    /\ async \in BOOLEAN /\ frame \in Frames /\ latency \in Latencies
    /\ time \in Nat /\ tick \in Nat /\ next = Period * tick /\ time < next + frame
    /\ step \in Nat
    /\ worker \in {"idle", "busy", "done", "raised"} /\ (~async => worker = "idle")
    /\ controlPc = "running" =>
          /\ ChunkFacts(control, tick)
          /\ worker # "idle" =>
                /\ Carries(future, control.chunk)
                /\ future.tick < tick /\ tick - future.tick <= latency
          /\ control.chunk # None /\ Control!FastEnough =>
                IF worker = "idle" THEN tick - control.chunk.tick <= ReplanHorizon
                ELSE future.tick - control.chunk.tick <= Patience

(* A chunk takes over from another one without a seam. *)
Seam(c, i) ==
    i.chunk # c.chunk =>
        /\ i.chunk # None /\ i.index < Horizon
        /\ /\ c.chunk # None /\ c.index < Horizon
           /\ i.index + 1 <= Control!Min2(FrozenSteps, MaxOverlap)
           => i.chunk.rows[i.index] = c.chunk.rows[c.index]

(* The numbers of the loop. *)
LEMMA ControlNumbers ==
    ASSUME ControlAssumption, ControlKnown
    PROVE  /\ Clock /\ latency \in Nat \ {0} /\ ReplanHorizon \in Nat \ {0} /\ Horizon \in Nat \ {0}
           /\ Patience \in Nat /\ latency <= Patience /\ ReplanHorizon <= Patience
           /\ Control!FastEnough <=> latency + Patience <= Horizon
           /\ Period \in Nat \ {0} /\ frame \in Nat \ {0} /\ frame <= Period
<1>1. frame \in Nat \ {0} /\ 2 * frame <= Period + 1 /\ Period \in Nat \ {0}
  BY DEF ControlKnown, ControlAssumption
<1>2. Clock /\ frame <= Period
  BY <1>1 DEF Clock
<1>3. latency \in Nat \ {0} /\ ReplanHorizon \in Nat \ {0} /\ Horizon \in Nat \ {0}
  BY DEF ControlKnown, ControlAssumption
<1>4. Patience \in Nat /\ latency <= Patience /\ ReplanHorizon <= Patience
  BY <1>3 DEF Patience
<1>5. Control!FastEnough <=> latency + Patience <= Horizon
  BY DEF Control!FastEnough, Patience
<1> QED BY <1>1, <1>2, <1>3, <1>4, <1>5

(* A place in the chunk is the number of ticks since it was asked for, until the chunk ends. *)
LEMMA PlaceIs ==
    ASSUME ControlAssumption, NEW c, NEW k \in Nat, ChunkFacts(c, k), c.chunk # None
    PROVE  /\ c.chunk \in Chunks /\ c.chunk.tick \in Nat /\ c.chunk.tick <= k /\ c.index \in 0 .. Horizon
           /\ c.index = IF k - c.chunk.tick < Horizon THEN k - c.chunk.tick ELSE Horizon
<1>1. c.chunk \in Chunks /\ c.chunk.tick \in Nat /\ c.chunk.tick <= k /\ c.index \in 0 .. Horizon
  BY DEF ChunkFacts, Controls, Chunks
<1>2. c.index = Control!Min2(Horizon, k - c.chunk.tick) /\ Horizon \in Nat
  BY DEF ChunkFacts, ControlAssumption
<1> QED BY <1>1, <1>2 DEF Control!Min2

(* How the answer that has come is taken. *)
LEMMA ConsumedFacts ==
    ASSUME ControlAssumption, ControlKnown, controlPc = "running", Near(time, tick),
           worker # "raised", worker = "busy" => tick - future.tick < latency
    PROVE  LET i == Control!Consumed
           IN  /\ ChunkFacts(i, tick) /\ Seam(control, i) /\ (worker # "done" => i = control)
               /\ Control!FastEnough =>
                     /\ control.chunk # None => i.chunk # None /\ i.index < Horizon
                     /\ i.chunk # None /\ worker # "busy" => tick - i.chunk.tick <= Patience
<1> DEFINE i == Control!Consumed
<1>0. /\ Clock /\ latency \in Nat \ {0} /\ ReplanHorizon \in Nat \ {0} /\ Horizon \in Nat \ {0}
      /\ Patience \in Nat /\ latency <= Patience /\ ReplanHorizon <= Patience
      /\ Control!FastEnough <=> latency + Patience <= Horizon
  BY ControlNumbers
<1>1. /\ tick \in Nat /\ ChunkFacts(control, tick)
      /\ worker # "idle" =>
            /\ Carries(future, control.chunk)
            /\ future.tick < tick /\ tick - future.tick <= latency
      /\ control.chunk # None /\ Control!FastEnough =>
            IF worker = "idle" THEN tick - control.chunk.tick <= ReplanHorizon
            ELSE future.tick - control.chunk.tick <= Patience
      /\ worker \in {"idle", "busy", "done"}
  BY DEF ControlKnown
<1>2. CASE worker = "done"
  <2>1. i = Control!Install(control, future)
    BY <1>2 DEF Control!Consumed
  <2>2. future.tick \in Nat /\ future.tick <= tick /\ tick - future.tick <= latency
    BY <1>1, <1>2 DEF Carries, Near
  <2> HIDE DEF i
  <2>3. /\ ChunkFacts(i, tick)
        /\ tick - future.tick >= Horizon => i.chunk = control.chunk /\ i.index = control.index
        /\ tick - future.tick < Horizon =>
              /\ i.chunk # None /\ i.chunk.tick = future.tick /\ i.index = tick - future.tick
              /\ /\ control.chunk # None /\ control.index < Horizon
                 /\ i.index + 1 <= Control!Min2(FrozenSteps, MaxOverlap)
                 => i.chunk.rows[i.index] = control.chunk.rows[control.index]
    BY <1>0, <1>1, <1>2, <2>1, <2>2, InstallFacts
  <2>4. Seam(control, i)
    BY <1>0, <1>1, <2>2, <2>3 DEF Seam
  <2>5. ASSUME Control!FastEnough
        PROVE  i.chunk # None /\ i.index < Horizon /\ tick - i.chunk.tick <= Patience
    <3>1. tick - future.tick < Horizon
      BY <1>0, <1>1, <2>2, <2>5
    <3> QED BY <1>0, <1>1, <2>2, <2>3, <3>1
  <2> QED BY <1>2, <2>3, <2>4, <2>5 DEF i
<1>3. CASE worker # "done"
  <2>1. i = control
    BY <1>3 DEF Control!Consumed
  <2>2. Seam(control, control)
    BY DEF Seam
  <2>3. ASSUME Control!FastEnough, control.chunk # None
        PROVE  control.index < Horizon /\ (worker # "busy" => tick - control.chunk.tick <= Patience)
    <3>1. /\ control.chunk.tick \in Nat /\ control.chunk.tick <= tick
          /\ control.index = IF tick - control.chunk.tick < Horizon
                             THEN tick - control.chunk.tick ELSE Horizon
      BY <1>1, <2>3, PlaceIs
    <3>2. CASE worker = "idle"
      BY <1>0, <1>1, <2>3, <3>1, <3>2
    <3>3. CASE worker = "busy"
      <4>1. future.tick \in Nat
        BY <1>1, <3>3 DEF Carries, Near
      <4> QED BY <1>0, <1>1, <2>3, <3>1, <3>3, <4>1
    <3> QED BY <1>1, <1>3, <3>2, <3>3
  <2> HIDE DEF i
  <2> QED BY <1>1, <1>3, <2>1, <2>2, <2>3 DEF i
<1> QED BY <1>2, <1>3

(* What is executed at a tick, after what has come is taken and what is     *)
(* missing has been asked for, without a worker answered at once.           *)
LEMMA ExecutingFacts ==
    ASSUME ControlAssumption, ControlKnown, controlPc = "running", Near(time, tick),
           worker # "raised", worker = "busy" => tick - future.tick < latency
    PROVE  LET i == Control!Executing
           IN  /\ ChunkFacts(i, tick) /\ Seam(control, i)
               /\ Control!Submits /\ async => i = Control!Consumed
               /\ Control!FastEnough =>
                     /\ control.chunk # None => i.chunk # None /\ i.index < Horizon
                     /\ i.chunk # None /\ worker # "busy" => tick - i.chunk.tick <= Patience
                     /\ i.chunk # None /\ worker # "busy" /\ ~(Control!Submits /\ async) =>
                           tick - i.chunk.tick < ReplanHorizon
<1> DEFINE i == Control!Executing
           c == Control!Consumed
<1>0. /\ Clock /\ latency \in Nat \ {0} /\ ReplanHorizon \in Nat \ {0} /\ Horizon \in Nat \ {0}
      /\ Patience \in Nat /\ latency <= Patience /\ ReplanHorizon <= Patience
      /\ Control!FastEnough <=> latency + Patience <= Horizon
  BY ControlNumbers
<1>1. /\ ChunkFacts(c, tick) /\ Seam(control, c) /\ (worker # "done" => c = control)
      /\ Control!FastEnough =>
            /\ control.chunk # None => c.chunk # None /\ c.index < Horizon
            /\ c.chunk # None /\ worker # "busy" => tick - c.chunk.tick <= Patience
  BY ConsumedFacts
<1>2. tick \in Nat /\ async \in BOOLEAN /\ (~async => worker = "idle")
  BY DEF ControlKnown
<1>3. CASE Control!Submits /\ ~async
  <2> DEFINE q == Control!Request(c)
  <2>1. i = Control!Install(c, q) /\ c = control
    BY <1>1, <1>2, <1>3 DEF Control!Executing
  <2>2. Carries(q, c.chunk) /\ q.tick = tick
    BY <1>0, <1>1, RequestCarries
  <2> HIDE DEF q, i, c
  <2>3. tick - q.tick = 0 /\ q.tick <= tick
    BY <1>2, <2>2
  <2>4. /\ ChunkFacts(i, tick) /\ i.chunk # None /\ i.chunk.tick = tick /\ i.index = 0
        /\ c.chunk # None /\ c.index < Horizon
             /\ i.index + 1 <= Control!Min2(FrozenSteps, MaxOverlap)
             => i.chunk.rows[i.index] = c.chunk.rows[c.index]
    BY <1>0, <1>1, <2>1, <2>2, <2>3, InstallFacts
  <2>5. Seam(control, i)
    BY <1>0, <2>1, <2>4 DEF Seam
  <2> QED BY <1>0, <1>2, <1>3, <2>4, <2>5 DEF i
<1>4. CASE ~ (Control!Submits /\ ~async)
  <2>1. i = c
    BY <1>4 DEF Control!Executing
  <2>2. ASSUME c.chunk # None, worker # "busy", ~(Control!Submits /\ async), Control!FastEnough
        PROVE  tick - c.chunk.tick < ReplanHorizon
    <3>1. ~ Control!Submits
      BY <1>2, <1>4, <2>2
    <3>2. ~ (c.index >= ReplanHorizon)
      BY <2>2, <3>1 DEF Control!Submits, Control!NeedsReplan
    <3> HIDE DEF c
    <3>3. c.chunk.tick \in Nat /\ c.index \in 0 .. Horizon
          /\ c.index = IF tick - c.chunk.tick < Horizon THEN tick - c.chunk.tick ELSE Horizon
      BY <1>1, <1>2, <2>2, PlaceIs
    <3> QED BY <1>0, <1>2, <2>2, <3>2, <3>3
  <2> HIDE DEF i, c
  <2> QED BY <1>1, <2>1, <2>2 DEF i, c
<1> QED BY <1>3, <1>4

(* What a tick leaves, and what it may say of the chunk and of the step. *)
LEMMA ExecuteStep ==
    ASSUME ControlAssumption, ControlKnown, controlPc = "running", Near(time, tick),
           worker # "raised", worker = "busy" => tick - future.tick < latency,
           tick' = tick + 1, UNCHANGED <<async, frame, latency>>, Control!Execute
    PROVE  /\ ChunkFacts(control', tick + 1) /\ Control!Seamless
           /\ Control!FastEnough /\ control.chunk # None => step' = step + 1
           /\ step' \in Nat /\ worker' \in {"idle", "busy", "done", "raised"}
           /\ ~async => worker' = "idle"
           /\ worker' # "idle" =>
                 /\ Carries(future, control.chunk)'
                 /\ future'.tick < tick + 1 /\ tick + 1 - future'.tick <= latency
           /\ control'.chunk # None /\ Control!FastEnough =>
                 IF worker' = "idle" THEN tick + 1 - control'.chunk.tick <= ReplanHorizon
                 ELSE future'.tick - control'.chunk.tick <= Patience
<1> DEFINE i == Control!Executing
           c == Control!Consumed
<1>0. /\ Clock /\ latency \in Nat \ {0} /\ ReplanHorizon \in Nat \ {0} /\ Horizon \in Nat \ {0}
      /\ Patience \in Nat /\ latency <= Patience /\ ReplanHorizon <= Patience
  BY ControlNumbers
<1>1. /\ ChunkFacts(i, tick) /\ Seam(control, i)
      /\ Control!Submits /\ async => i = c
      /\ Control!FastEnough =>
            /\ control.chunk # None => i.chunk # None /\ i.index < Horizon
            /\ i.chunk # None /\ worker # "busy" => tick - i.chunk.tick <= Patience
            /\ i.chunk # None /\ worker # "busy" /\ ~(Control!Submits /\ async) =>
                  tick - i.chunk.tick < ReplanHorizon
  BY ExecutingFacts
<1>2. /\ tick \in Nat /\ async \in BOOLEAN /\ (~async => worker = "idle") /\ step \in Nat
      /\ worker \in {"idle", "busy", "done"}
      /\ worker # "idle" => Carries(future, control.chunk)
      /\ control.chunk # None /\ Control!FastEnough =>
            IF worker = "idle" THEN tick - control.chunk.tick <= ReplanHorizon
            ELSE future.tick - control.chunk.tick <= Patience
  BY DEF ControlKnown
<1>3. /\ control' = IF i.chunk # None /\ i.index < Horizon THEN [i EXCEPT !.index = @ + 1] ELSE i
      /\ step' = IF i.chunk # None /\ i.index < Horizon THEN step + 1 ELSE step
      /\ IF Control!Submits /\ async
         THEN future' = Control!Request(c) /\ worker' = "busy"
         ELSE IF worker = "done" THEN future' = None /\ worker' = "idle"
         ELSE future' = future /\ worker' = worker
  BY DEF Control!Execute, Control!Acts
<1>4. /\ i \in Controls /\ i.index \in 0 .. Horizon /\ i.chunk \in Chunks \cup {None}
  BY <1>1 DEF ChunkFacts, Controls
<1>5. Control!Submits => worker # "busy"
  BY DEF Control!Submits
<1>6. worker = "busy" => i = control
  BY <1>2 DEF Control!Executing, Control!Consumed, Control!Submits
<1> HIDE DEF i
<1>7. /\ control' \in Controls /\ control'.chunk = i.chunk /\ control'.chunks = i.chunks
      /\ control'.epoch = i.epoch
      /\ control'.index = IF i.chunk # None /\ i.index < Horizon THEN i.index + 1 ELSE i.index
  <2>1. CASE i.chunk # None /\ i.index < Horizon
    <3>1. i.index + 1 \in 0 .. Horizon
      BY <1>0, <1>4, <2>1
    <3>2. control' = [i EXCEPT !.index = i.index + 1]
      BY <1>3, <2>1
    <3> QED BY <1>4, <2>1, <3>1, <3>2 DEF Controls
  <2>2. CASE ~ (i.chunk # None /\ i.index < Horizon)
    BY <1>3, <1>4, <2>2
  <2> QED BY <2>1, <2>2
<1>8. ChunkFacts(control', tick + 1)
  <2>1. ASSUME i.chunk # None
        PROVE  /\ i.chunk.tick <= tick + 1
               /\ control'.index = Control!Min2(Horizon, tick + 1 - i.chunk.tick)
    <3>1. i.chunk.tick \in Nat /\ i.chunk.tick <= tick
          /\ i.index = IF tick - i.chunk.tick < Horizon THEN tick - i.chunk.tick ELSE Horizon
      BY <1>1, <1>2, <2>1, PlaceIs
    <3>2. control'.index = IF i.index < Horizon THEN i.index + 1 ELSE i.index
      BY <1>7, <2>1
    <3>3. control'.index = IF tick + 1 - i.chunk.tick < Horizon
                           THEN tick + 1 - i.chunk.tick ELSE Horizon
      <4> DEFINE k == i.chunk.tick
                 x == i.index
                 y == control'.index
      <4>1. k \in Nat /\ k <= tick /\ x = (IF tick - k < Horizon THEN tick - k ELSE Horizon)
            /\ y = (IF x < Horizon THEN x + 1 ELSE x)
        BY <3>1, <3>2
      <4> HIDE DEF k, x, y
      <4>2. y = IF tick + 1 - k < Horizon THEN tick + 1 - k ELSE Horizon
        BY <1>0, <1>2, <4>1
      <4> QED BY <4>2 DEF k, y
    <3>4. i.chunk.tick <= tick + 1
      BY <1>2, <3>1
    <3> QED BY <1>0, <1>2, <3>1, <3>3, <3>4 DEF Control!Min2
  <2>2. /\ i.chunk = None <=> i.chunks = <<>>
        /\ i.chunk = None <=> i.epoch = None
        /\ i.chunk # None =>
              /\ i.chunks[Len(i.chunks)].rows = i.chunk.rows
              /\ \E e : Near(i.epoch, e) /\ i.chunks[Len(i.chunks)].from = i.chunk.tick - e
    BY <1>1 DEF ChunkFacts
  <2> DEFINE d == control'
  <2>3. /\ d \in Controls /\ d.chunk = i.chunk /\ d.chunks = i.chunks /\ d.epoch = i.epoch
        /\ i.chunk # None =>
              i.chunk.tick <= tick + 1 /\ d.index = Control!Min2(Horizon, tick + 1 - i.chunk.tick)
    BY <1>7, <2>1
  <2> HIDE DEF d
  <2>4. (d.chunk = None <=> d.chunks = <<>>) /\ (d.chunk = None <=> d.epoch = None)
    BY <2>2, <2>3
  <2>5. ASSUME d.chunk # None
        PROVE  /\ d.chunk.tick \in Nat /\ d.chunk.tick <= tick + 1
               /\ d.index = Control!Min2(Horizon, tick + 1 - d.chunk.tick)
    BY <1>4, <2>3, <2>5 DEF Chunks
  <2>6. ASSUME d.chunk # None
        PROVE  /\ d.chunks[Len(d.chunks)].rows = d.chunk.rows
               /\ \E e : Near(d.epoch, e) /\ d.chunks[Len(d.chunks)].from = d.chunk.tick - e
    BY <2>2, <2>3, <2>6
  <2>7. ChunkFacts(d, tick + 1)
    BY <1>2, <2>3, <2>4, <2>5, <2>6 DEF ChunkFacts
  <2> QED BY <2>7 DEF d
<1>9. Control!Seamless
  <2> SUFFICES ASSUME control.chunk # None, control'.chunk # control.chunk,
                      control'.index <= Control!Min2(FrozenSteps, MaxOverlap),
                      control.index < Horizon
               PROVE  control'.chunk.rows[control'.index - 1] = control.chunk.rows[control.index]
    BY DEF Control!Seamless
  <2>1. i.chunk # None /\ i.index < Horizon
    BY <1>1, <1>7 DEF Seam
  <2>2. control'.index = i.index + 1 /\ control'.index - 1 = i.index
    BY <1>4, <1>7, <2>1
  <2> QED BY <1>1, <1>7, <2>2 DEF Seam
<1>10. Control!FastEnough /\ control.chunk # None => step' = step + 1
  BY <1>1, <1>3
<1>11. step' \in Nat /\ worker' \in {"idle", "busy", "done", "raised"} /\ (~async => worker' = "idle")
  BY <1>2, <1>3
<1>12. CASE Control!Submits /\ async
  <2> DEFINE q == Control!Request(c)
  <2>1. worker' = "busy" /\ future' = q /\ i = c /\ worker # "busy"
    BY <1>1, <1>3, <1>5, <1>12
  <2>2. Carries(q, i.chunk) /\ q.tick = tick
    BY <1>0, <1>1, <2>1, RequestCarries
  <2> HIDE DEF q
  <2>3. Carries(future', control'.chunk) /\ future'.tick = tick
    BY <1>7, <2>1, <2>2
  <2>4. Carries(future, control.chunk)'
    BY <2>3 DEF Carries, Near
  <2>5. tick + 1 - tick = 1
    BY <1>2
  <2> QED BY <1>0, <1>1, <1>2, <1>7, <1>8, <1>9, <1>10, <1>11, <2>1, <2>3, <2>4, <2>5
<1>13. CASE ~ (Control!Submits /\ async) /\ worker # "busy"
  <2>1. worker' = "idle"
    BY <1>2, <1>3, <1>13
  <2>2. ASSUME i.chunk # None, Control!FastEnough PROVE tick + 1 - i.chunk.tick <= ReplanHorizon
    <3>1. i.chunk.tick \in Nat /\ tick - i.chunk.tick < ReplanHorizon
      BY <1>1, <1>2, <1>13, <2>2, PlaceIs
    <3> QED BY <1>0, <1>2, <3>1
  <2> QED BY <1>7, <1>8, <1>9, <1>10, <1>11, <2>1, <2>2
<1>14. CASE worker = "busy"
  <2>1. worker' = "busy" /\ future' = future /\ i = control
    BY <1>3, <1>5, <1>6, <1>14
  <2>2. Carries(future', control'.chunk)
    BY <1>2, <1>7, <1>14, <2>1
  <2>3. Carries(future, control.chunk)'
    BY <2>2 DEF Carries, Near
  <2>4. future.tick \in Nat /\ future.tick < tick + 1 /\ tick + 1 - future.tick <= latency
    <3>1. future.tick \in Nat /\ future.tick < tick /\ tick - future.tick < latency
      BY <1>14 DEF ControlKnown, Carries, Near
    <3> QED BY <1>0, <1>2, <3>1
  <2> QED BY <1>2, <1>7, <1>8, <1>9, <1>10, <1>11, <1>14, <2>1, <2>3, <2>4
<1> QED BY <1>12, <1>13, <1>14

(* It holds when the loop begins. *)
LEMMA ControlBegins == ASSUME ControlAssumption, Control!Init PROVE ControlKnown
<1>1. /\ async \in BOOLEAN /\ frame \in Frames /\ latency \in Latencies
      /\ time = 0 /\ next = 0 /\ tick = 0 /\ step = 0 /\ worker = "idle"
      /\ control = [chunk |-> None, index |-> 0, chunks |-> <<>>, epoch |-> None, replan |-> 0]
  BY DEF Control!Init
<1>2. next = Period * tick /\ time < next + frame
  BY <1>1 DEF ControlAssumption
<1>3. control.chunk = None /\ control.chunks = <<>> /\ control.epoch = None /\ control \in Controls
  BY <1>1 DEF Controls, ControlAssumption
<1>4. ChunkFacts(control, tick)
  BY <1>3 DEF ChunkFacts
<1> QED BY <1>1, <1>2, <1>3, <1>4 DEF ControlKnown

(* A frame without a tick, and what happens between frames. *)
LEMMA QuietStep ==
    ASSUME ControlAssumption, ControlKnown,
           UNCHANGED <<async, frame, latency, next, tick, control, future, step>>,
           time' \in Nat, time' < next + frame,
           worker' = worker \/ (worker = "busy" /\ worker' \in {"done", "raised"}),
           controlPc' = "running" => controlPc = "running"
    PROVE  ControlKnown'
<1>1. (Control!FastEnough' <=> Control!FastEnough) /\ Patience' = Patience
  BY DEF Control!FastEnough, Patience
<1>2. ChunkFacts(control, tick)' <=> ChunkFacts(control, tick)
  BY DEF ChunkFacts, Near
<1>3. Carries(future, control.chunk)' <=> Carries(future, control.chunk)
  BY DEF Carries, Near
<1> QED BY <1>1, <1>2, <1>3 DEF ControlKnown

(* A frame with a tick on it. *)
LEMMA TickStep ==
    ASSUME ControlAssumption, ControlKnown, controlPc = "running", time >= next,
           worker = "busy" => tick - future.tick < latency, Control!PolicyTick,
           time' = time + frame, UNCHANGED <<async, frame, latency>>
    PROVE  ControlKnown' /\ Control!Seamless /\ Control!Gapless
<1>1. /\ time \in Nat /\ tick \in Nat /\ next = Period * tick /\ time < next + frame /\ step \in Nat
      /\ async \in BOOLEAN /\ frame \in Frames /\ latency \in Latencies
      /\ worker \in {"idle", "busy", "done", "raised"} /\ (~async => worker = "idle")
  BY DEF ControlKnown
<1>2. Period \in Nat \ {0} /\ frame \in Nat \ {0} /\ frame <= Period
  BY ControlNumbers
<1>3. Near(time, tick)
  BY <1>1 DEF Near
<1>4. tick' = tick + 1 /\ next' = next + Period
  BY DEF Control!PolicyTick
<1>5. time' \in Nat /\ tick' \in Nat /\ next' = Period * tick' /\ time' < next' + frame'
  <2> DEFINE x == Period * tick
  <2>1. x \in Nat /\ Period * (tick + 1) = x + Period
    BY <1>1, <1>2
  <2> HIDE DEF x
  <2>2. next = x
    BY <1>1 DEF x
  <2> QED BY <1>1, <1>2, <1>4, <2>1, <2>2
<1>6. (Control!FastEnough' <=> Control!FastEnough) /\ Patience' = Patience
  BY DEF Control!FastEnough, Patience
<1>7. CASE controlPc' = "closing" /\ why' \in {"inference", "action"}
           /\ UNCHANGED <<control, future, worker, step>>
  <2>1. ControlKnown'
    BY <1>1, <1>5, <1>7 DEF ControlKnown
  <2> QED BY <1>7, <2>1 DEF Control!Seamless, Control!Gapless
<1>8. CASE worker # "raised" /\ Control!Execute
  <2>1. /\ ChunkFacts(control', tick + 1) /\ Control!Seamless
        /\ Control!FastEnough /\ control.chunk # None => step' = step + 1
        /\ step' \in Nat /\ worker' \in {"idle", "busy", "done", "raised"}
        /\ ~async => worker' = "idle"
        /\ worker' # "idle" =>
              /\ Carries(future, control.chunk)'
              /\ future'.tick < tick + 1 /\ tick + 1 - future'.tick <= latency
        /\ control'.chunk # None /\ Control!FastEnough =>
              IF worker' = "idle" THEN tick + 1 - control'.chunk.tick <= ReplanHorizon
              ELSE future'.tick - control'.chunk.tick <= Patience
    BY <1>3, <1>4, <1>8, ExecuteStep
  <2>2. ChunkFacts(control, tick)'
    <3>1. ChunkFacts(control', tick')
      BY <1>4, <2>1
    <3> QED BY <3>1 DEF ChunkFacts, Near
  <2>3. ControlKnown'
    <3>0. /\ worker' # "idle" => future'.tick \in Nat
          /\ control'.chunk # None => control'.chunk.tick \in Nat
      <4>1. control'.chunk \in Chunks \cup {None}
        BY <2>1 DEF ChunkFacts, Controls
      <4> QED BY <2>1, <4>1 DEF Carries, Near, Chunks
    <3>1. worker' # "idle" =>
             /\ Carries(future, control.chunk)'
             /\ future'.tick < tick' /\ tick' - future'.tick <= latency'
      BY <1>1, <1>4, <2>1, <3>0
    <3>2. control'.chunk # None /\ Control!FastEnough' =>
             IF worker' = "idle" THEN tick' - control'.chunk.tick <= ReplanHorizon
             ELSE future'.tick - control'.chunk.tick <= Patience'
      BY <1>1, <1>4, <1>6, <2>1, <3>0
    <3> QED BY <1>1, <1>5, <2>1, <2>2, <3>1, <3>2 DEF ControlKnown
  <2>4. Control!Gapless
    BY <2>1 DEF Control!Gapless
  <2> QED BY <2>1, <2>3, <2>4
<1> QED BY <1>7, <1>8 DEF Control!PolicyTick, Control!Raises

(* Every step keeps it, and is without a seam and without a gap. *)
LEMMA ControlStep ==
    ASSUME ControlAssumption, ControlKnown, [Control!Next]_controlVars
    PROVE  ControlKnown' /\ Control!Seamless /\ Control!Gapless
<1>0. time \in Nat /\ next \in Nat /\ time < next + frame /\ frame \in Nat
  BY ControlNumbers DEF ControlKnown
<1>1. CASE Control!Frame
  <2>1. /\ controlPc = "running" /\ time' = time + frame /\ UNCHANGED <<async, frame, latency>>
        /\ IF time >= next
           THEN (worker = "busy" => tick - future.tick < latency) /\ Control!PolicyTick
           ELSE UNCHANGED <<next, tick, control, future, worker, step, controlPc, why>>
    BY <1>1 DEF Control!Frame, Control!setting
  <2>2. CASE time >= next
    BY <2>1, <2>2, TickStep
  <2>3. CASE ~ (time >= next)
    <3>1. UNCHANGED <<next, tick, control, future, worker, step, controlPc, why>>
      BY <2>1, <2>3
    <3>2. time' \in Nat /\ time' < next + frame
      BY <1>0, <2>1, <2>3
    <3>3. ControlKnown'
      BY <2>1, <3>1, <3>2, QuietStep
    <3> QED BY <3>1, <3>3 DEF Control!Seamless, Control!Gapless
  <2> QED BY <2>2, <2>3
<1>2. CASE Control!Infer \/ Control!CloseViewer \/ Control!Close \/ UNCHANGED controlVars
  <2>1. /\ UNCHANGED <<async, frame, latency, time, next, tick, control, future, step>>
        /\ worker' = worker \/ (worker = "busy" /\ worker' \in {"done", "raised"})
        /\ controlPc' = "running" => controlPc = "running"
    BY <1>2 DEF Control!Infer, Control!CloseViewer, Control!Close, Control!setting, controlVars
  <2>2. ControlKnown'
    BY <1>0, <2>1, QuietStep
  <2> QED BY <2>1, <2>2 DEF Control!Seamless, Control!Gapless
<1> QED BY <1>1, <1>2 DEF Control!Next

(* What is executed is then on time. *)
LEMMA ControlOnTime == ASSUME ControlKnown PROVE Control!OnTime
BY DEF ControlKnown, ChunkFacts, Control!OnTime

(* The control loop executes each row at the tick it was made for, takes    *)
(* over from a chunk without a seam where the seed was frozen, and leaves   *)
(* no gap while the worker answers within the horizon: for any period,      *)
(* frame, latency and horizon of which a frame is at most half a period.    *)
THEOREM ControlSound == ASSUME ControlAssumption PROVE MCSpec => ControlIsSound
<1>1. MCInit => (part = "control" => ControlKnown)
  BY ControlBegins DEF MCInit
<1>2. [MCNext]_allVars /\ part' = "control" => part = "control" /\ [Control!Next]_controlVars
  BY DEF MCNext, allVars
<1>3. (part = "control" => ControlKnown) /\ [MCNext]_allVars => (part = "control" => ControlKnown)'
  BY <1>2, ControlStep
<1>4. (part = "control" => ControlKnown) => (part = "control" => Control!OnTime)
  BY ControlOnTime
<1>5. (part = "control" => ControlKnown) /\ [MCNext]_allVars
          => [part = "control" => Control!Seamless /\ Control!Gapless]_controlVars
  <2>1. [MCNext]_allVars /\ part = "control" => part' = "control" \/ UNCHANGED controlVars
    BY DEF MCNext, allVars
  <2> QED BY <1>2, <2>1, ControlStep
<1> QED BY <1>1, <1>3, <1>4, <1>5, PTL DEF MCSpec, ControlIsSound
-----------------------------------------------------------------------------
(* One root of the lifecycle store: its life is that of LifecycleRecovery, *)
(* about which LifecycleStoreProofs has the facts.                         *)
Life == INSTANCE LifecycleStoreProofs
            WITH Procs <- StoreProcs, lock <- storeLock, pc <- storePc, at <- storeAt

(* The definitions of the two instances say the same: of sequences, *)
(* events and signatures, of what a load accepts, and of every step.       *)
LEMMA SameFront == \A s : Store!Front(s) = Life!Front(s)
  BY DEF Store!Front, Life!Front

(* So are the events and the keys, *)
LEMMA SameEvents == Store!Event = Life!Event /\ Store!Keys = Life!Keys
  BY DEF Store!Event, Store!States, Store!Order, Store!Keys, Life!Event, Life!States,
         Life!Order, Life!Keys

(* what continues a chain, *)
LEMMA SameContinues == \A c, e : Store!Continues(c, e) <=> Life!Continues(c, e)
  BY DEF Store!Continues, Store!Order, Store!NeedsAuthority, Life!Continues, Life!Order,
         Life!NeedsAuthority

(* what is verified, *)
LEMMA SameVerified == \A s, c, e : Store!Verified(s, c, e) <=> Life!Verified(s, c, e)
  BY DEF Store!Verified, Store!ExactKeys, Store!NeedsAuthority, Life!Verified,
         Life!ExactKeys, Life!NeedsAuthority

(* what replays, *)
LEMMA SameReplays == \A c : Store!Replays(c) <=> Life!Replays(c)
  BY DEF Store!Replays, Store!MayFollow, Store!Continues, Store!Order, Store!ExactKeys,
         Store!NeedsAuthority, Life!Replays, Life!MayFollow, Life!Continues, Life!Order,
         Life!ExactKeys, Life!NeedsAuthority

(* what a load accepts, *)
LEMMA SameAccepts ==
  /\ \A r, m : Store!LoadAccepts(r, m) <=> Life!LoadAccepts(r, m)
  /\ \A r, m : Store!PendingAccepts(r, m) <=> Life!PendingAccepts(r, m)
  BY SameReplays, SameFront
  DEF Store!LoadAccepts, Store!PendingAccepts, Life!LoadAccepts, Life!PendingAccepts

(* the steps of a commit, *)
LEMMA SameSteps ==
    /\ \A p : Store!Step(p) <=> Life!Step(p)
    /\ \A p : Store!Interrupt(p) <=> Life!Interrupt(p)
  BY DEF Store!Step, Store!Interrupt, Store!WriteJournal, Store!AnchorCas,
         Store!AnchorCasStale, Store!PublishHead, Store!RecoverRead, Store!Leave,
         Store!RepairHead, Store!files, Store!local, Life!Step, Life!Interrupt,
         Life!WriteJournal, Life!AnchorCas, Life!AnchorCasStale, Life!PublishHead,
         Life!RecoverRead, Life!Leave, Life!RepairHead, Life!files, Life!local

(* the calls of a process, *)
LEMMA SameCalls ==
    \A p, r, m : Store!Call(p, r, m) <=> Life!Call(p, r, m)
<1> TAKE p, r, m
<1>1. Store!Initialize(p, r, m) <=> Life!Initialize(p, r, m)
  BY DEF Store!Initialize, Store!Unlocked, Store!files, Store!local, Life!Initialize,
         Life!Unlocked, Life!files, Life!local
<1>2. Store!Load(p, r, m) <=> Life!Load(p, r, m)
  BY SameAccepts
  DEF Store!Load, Store!Unlocked, Store!RepairHead, Store!files, Store!local, Life!Load,
      Life!Unlocked, Life!RepairHead, Life!files, Life!local
<1>3. Store!RefuseAppend(p, r, m) <=> Life!RefuseAppend(p, r, m)
  BY SameAccepts
  DEF Store!RefuseAppend, Store!Unlocked, Store!RepairHead, Store!files, Store!local,
      Life!RefuseAppend, Life!Unlocked, Life!RepairHead, Life!files, Life!local
<1>4. Store!BeginAppend(p, r, m) <=> Life!BeginAppend(p, r, m)
  BY SameAccepts, SameEvents, SameContinues, SameVerified
  DEF Store!BeginAppend, Store!Unlocked, Store!RepairHead, Store!Enter, Store!files,
      Store!local, Life!BeginAppend, Life!Unlocked, Life!RepairHead, Life!Enter,
      Life!files, Life!local
<1>5. Store!BeginRecover(p, r, m) <=> Life!BeginRecover(p, r, m)
  BY SameAccepts, SameFront
  DEF Store!BeginRecover, Store!Unlocked, Store!RepairHead, Store!Enter, Store!files,
      Store!local, Life!BeginRecover, Life!Unlocked, Life!RepairHead, Life!Enter,
      Life!files, Life!local
<1> QED
  BY <1>1, <1>2, <1>3, <1>4, <1>5 DEF Store!Call, Life!Call

(* the signer, *)
LEMMA SameSigner == Store!SignerNext <=> Life!SignerNext
<1>1. Store!Cardinality(issued) = Life!Cardinality(issued)
  BY DEF Store!Cardinality, Life!Cardinality
<1>2. \A k, e : Store!Sign(k, e) <=> Life!Sign(k, e)
  BY <1>1, SameEvents, SameContinues
  DEF Store!Sign, Store!files, Store!local, Life!Sign, Life!files, Life!local
<1> QED
  BY <1>2, SameEvents DEF Store!SignerNext, Life!SignerNext

(* and so every step of one root. *)
LEMMA SameLife == [Store!OneRootNext]_storeVars <=> [Life!OneRootNext]_(Life!rootVars)
  BY SameSteps, SameCalls, SameSigner
  DEF storeVars, Store!OneRootNext, Life!OneRootNext, Store!Works, Life!Works,
      Life!rootVars, Store!vars, Life!vars

(* The constants are those of a store, and one root is in use. *)
StoreAssumption == Store!LifecycleAssumption /\ \A r, s \in Roots : r = s

(* What LifecycleStoreProofs shows of such a root, of this one. *)
LEMMA StoreBegins == ASSUME StoreAssumption, Store!OneRootInit PROVE Life!RootInv
<1>1. Life!LifecycleAssumption
  BY DEF StoreAssumption, Store!LifecycleAssumption, Life!LifecycleAssumption
<1>2. Life!OneRootInit
  BY DEF Store!OneRootInit, Store!Init, Life!OneRootInit, Life!Init
<1> QED
  BY <1>1, <1>2, Life!RootInvInit

(* A step of a root keeps it within reach. *)
LEMMA StoreInductive ==
    ASSUME StoreAssumption, Life!RootInv, [Store!OneRootNext]_storeVars
    PROVE  Life!RootInv'
<1>1. Life!LifecycleAssumption
  BY DEF StoreAssumption, Store!LifecycleAssumption, Life!LifecycleAssumption
<1>2. Life!OneRoot
  BY DEF StoreAssumption, Life!OneRoot
<1>3. [Life!OneRootNext]_(Life!rootVars)
  BY SameLife
<1> QED
  BY <1>1, <1>2, <1>3, Life!RootInvStep

(* Within reach, it is sound. *)
LEMMA StoreSuffices == ASSUME StoreAssumption, Life!RootInv PROVE Store!RootIsSound
<1>1. Life!LifecycleAssumption
  BY DEF StoreAssumption, Store!LifecycleAssumption, Life!LifecycleAssumption
<1>2. Life!RootIsSound
  BY <1>1, Life!RootInvSuffices
<1>3. Store!NeverLockedOut
  BY <1>2, SameAccepts DEF Life!RootIsSound, Life!NeverLockedOut, Store!NeverLockedOut
<1>4. Store!AuthorizedHistory
  BY <1>2
  DEF Life!RootIsSound, Life!AuthorizedHistory, Store!AuthorizedHistory,
      Store!MayFollow, Life!MayFollow, Store!Continues, Life!Continues, Store!ExactKeys,
      Life!ExactKeys, Store!NeedsAuthority, Life!NeedsAuthority, Store!Order, Life!Order
<1> QED
  BY <1>3, <1>4 DEF Store!RootIsSound

(* A root that nobody copies or rolls back is never locked out, however    *)
(* its processes die: between two operations it can be read, or recovered  *)
(* in one step; and all it has committed was authorized, step by step.     *)
THEOREM StoreStaysWithinReach == ASSUME StoreAssumption PROVE MCSpec => []RootIsSound
<1>1. MCInit => (part = "store" => Life!RootInv)
  BY StoreBegins DEF MCInit
<1>2. (part = "store" => Life!RootInv) /\ [MCNext]_allVars
          => (part = "store" => Life!RootInv)'
  <2>1. [MCNext]_allVars /\ part' = "store"
            => part = "store" /\ [Store!OneRootNext]_storeVars
    BY DEF MCNext, allVars
  <2> QED
    BY <2>1, StoreInductive
<1>3. (part = "store" => Life!RootInv) => RootIsSound
  BY StoreSuffices DEF RootIsSound
<1> QED
  BY <1>1, <1>2, <1>3, PTL DEF MCSpec

-----------------------------------------------------------------------------
(* The modes that the successes have been found in: an index restored.     *)

(* A list that goes up is in the order that sorting brings it to.          *)
GoesUp(s) == \A i, j \in 1 .. Len(s) : i < j => Occupied!Before(s[i], s[j])

LEMMA SortedAlready ==
    ASSUME Occupied!OccupancyAssumption, NEW s \in Seq(Occupied!Records), GoesUp(s)
    PROVE  Occupied!Sorted(s) = s
<1> DEFINE n == Len(s)
           IsArranging(p) == \A i, j \in 1 .. n : i < j =>
                                 \/ Occupied!Before(s[p[i]], s[p[j]])
                                 \/ (~Occupied!Before(s[p[j]], s[p[i]]) /\ p[i] < p[j])
           p == CHOOSE p \in [1 .. n -> 1 .. n] : IsArranging(p)
           same == [i \in 1 .. n |-> i]
<1>1. n \in Nat /\ \A i \in 1 .. n : s[i] \in Occupied!Records /\ s[i].id \in Int
  <2>1. n \in Nat /\ \A i \in 1 .. n : s[i] \in Occupied!Records
    OBVIOUS
  <2>2. \A r \in Occupied!Records : r.id \in Int
    BY DEF Occupied!OccupancyAssumption, Occupied!Records
  <2> QED BY <2>1, <2>2
<1>2. \A i, j \in 1 .. n : Occupied!Before(s[i], s[j]) => i < j
  <2> SUFFICES ASSUME NEW i \in 1 .. n, NEW j \in 1 .. n, Occupied!Before(s[i], s[j]), ~(i < j)
               PROVE  FALSE
    OBVIOUS
  <2>1. i = j \/ Occupied!Before(s[j], s[i])
    BY DEF GoesUp
  <2> QED BY <1>1, <2>1 DEF Occupied!Before
<1>3. p \in [1 .. n -> 1 .. n] /\ IsArranging(p)
  <2>1. same \in [1 .. n -> 1 .. n]
    OBVIOUS
  <2>2. IsArranging(same)
    BY DEF GoesUp
  <2> HIDE DEF same, IsArranging
  <2> QED BY <2>1, <2>2
<1> HIDE DEF p
<1>4. \A i, j \in 1 .. n : i < j => p[i] < p[j]
  <2> SUFFICES ASSUME NEW i \in 1 .. n, NEW j \in 1 .. n, i < j PROVE p[i] < p[j]
    OBVIOUS
  <2>1. p[i] \in 1 .. n /\ p[j] \in 1 .. n
    BY <1>3
  <2>2. Occupied!Before(s[p[i]], s[p[j]]) \/ p[i] < p[j]
    BY <1>3
  <2> QED BY <1>2, <2>1, <2>2
<1>5. ASSUME NEW i \in 1 .. n PROVE p[i] = i
  BY <1>1, <1>3, <1>4, UpIsStill
<1>6. Occupied!Sorted(s) = [i \in 1 .. n |-> s[p[i]]]
  BY DEF Occupied!Sorted, p
<1>7. [i \in 1 .. n |-> s[p[i]]] = s
  BY <1>5
<1> QED BY <1>6, <1>7

Indexes == [records : Seq(Occupied!Records), modes : [Found -> [sum : Int, count : Nat]],
            mode : [Found -> Int]]

LEMMA OccupancyCounts ==
    \A S : Occupied!Cardinality(S) = Cardinality(S) /\ (Occupied!IsFiniteSet(S) <=> IsFiniteSet(S))
BY DEF Occupied!Cardinality, Cardinality, Occupied!IsFiniteSet, IsFiniteSet

(* Of the modes there are, one is the nearest to a latent.                 *)
LEMMA NearestIsOne ==
    ASSUME Occupied!OccupancyAssumption, NEW x \in Indexes, NEW latent \in ModeLatents,
           Occupied!Modes(x) # {}
    PROVE  Occupied!Nearest(x, latent) \in Occupied!Modes(x)
<1> DEFINE M == Occupied!Modes(x)
           off == [i \in M |-> Occupied!Off(x.modes[i], latent)]
           c == [i \in M |-> x.modes[i].count]
           Wins(i, j) == \/ off[i] * c[j] < off[j] * c[i]
                         \/ (~(off[j] * c[i] < off[i] * c[j]) /\ i < j)
           Under(i) == {j \in M : Wins(j, i)}
<1>1. /\ M \subseteq Int /\ IsFiniteSet(M)
      /\ \A i \in M : off[i] \in Nat /\ c[i] \in Nat \ {0}
  <2>1. M \in SUBSET Found
    BY DEF Occupied!Modes
  <2>2. IsFiniteSet(M) /\ M \subseteq Int
    BY <2>1, FS_Subset, OccupancyCounts DEF Occupied!OccupancyAssumption
  <2>3. ASSUME NEW i \in M PROVE off[i] \in Nat /\ c[i] \in Nat \ {0}
    <3>1. /\ x.modes[i].sum \in Int /\ x.modes[i].count \in Nat /\ x.modes[i].count > 0
          /\ latent \in Int
      BY <2>1 DEF Indexes, Occupied!Modes, Occupied!OccupancyAssumption
    <3> DEFINE m == x.modes[i].sum
               k == x.modes[i].count
               d == latent * k - m
    <3>2. d \in Int
      <4> HIDE DEF m, k
      <4>1. m \in Int /\ k \in Nat /\ latent \in Int
        BY <3>1 DEF m, k
      <4> QED BY <4>1
    <3>3. off[i] = IF d < 0 THEN -d ELSE d
      BY DEF Occupied!Off
    <3> HIDE DEF d, off
    <3> QED BY <3>1, <3>2, <3>3
  <2> QED BY <2>2, <2>3
<1>2. \A i, j \in M : off[i] * c[j] \in Int
  <2> SUFFICES ASSUME NEW i \in M, NEW j \in M PROVE off[i] * c[j] \in Int
    OBVIOUS
  <2> DEFINE a == off[i]
             b == c[j]
  <2>1. a \in Nat /\ b \in Nat
    BY <1>1
  <2> HIDE DEF a, b
  <2>2. a * b \in Int
    BY <2>1
  <2> QED BY <2>2 DEF a, b
<1> HIDE DEF off, c, M
<1>3. \A i \in M : ~Wins(i, i)
  BY <1>1, <1>2
<1>4. \A i, j \in M : i # j => Wins(i, j) \/ Wins(j, i)
  <2> SUFFICES ASSUME NEW i \in M, NEW j \in M, i # j PROVE Wins(i, j) \/ Wins(j, i)
    OBVIOUS
  <2> DEFINE u == off[i] * c[j]
             v == off[j] * c[i]
  <2>1. u \in Int /\ v \in Int /\ i \in Int /\ j \in Int /\ i # j
    BY <1>1, <1>2
  <2> HIDE DEF u, v
  <2>2. u < v \/ (~(v < u) /\ i < j) \/ v < u \/ (~(u < v) /\ j < i)
    BY ONLY <2>1
  <2> QED BY <2>2 DEF u, v
<1>5. ASSUME NEW i \in M, NEW j \in M, NEW k \in M, Wins(i, j), Wins(j, k) PROVE Wins(i, k)
  <2> DEFINE a == off[i]
             b == off[j]
             d == off[k]
             p == c[i]
             q == c[j]
             r == c[k]
  <2>1. a \in Nat /\ b \in Nat /\ d \in Nat
        /\ p \in Nat \ {0} /\ q \in Nat \ {0} /\ r \in Nat \ {0}
    BY <1>1
  <2>2. /\ a * q < b * p \/ (~(b * p < a * q) /\ i < j)
        /\ b * r < d * q \/ (~(d * q < b * r) /\ j < k)
    BY <1>5
  <2> HIDE DEF a, b, d, p, q, r
  <2>3. /\ a * q <= b * p /\ b * r <= d * q
        /\ a * r <= d * p
        /\ a * q < b * p \/ b * r < d * q => a * r < d * p
    BY <2>1, <2>2, CrossTransitive
  <2>4. a * r < d * p \/ (~(d * p < a * r) /\ i < k)
    <3>1. /\ a * q \in Int /\ b * p \in Int /\ b * r \in Int
          /\ d * q \in Int /\ a * r \in Int /\ d * p \in Int
      BY <2>1
    <3> DEFINE aq == a * q
               bp == b * p
               br == b * r
               dq == d * q
               ar == a * r
               dp == d * p
    <3>2. i \in Int /\ j \in Int /\ k \in Int
      BY <1>1
    <3> HIDE DEF aq, bp, br, dq, ar, dp
    <3>3. ar < dp \/ (~(dp < ar) /\ i < k)
      BY <2>2, <2>3, <3>1, <3>2 DEF aq, bp, br, dq, ar, dp
    <3> QED BY <3>3 DEF ar, dp
  <2> QED BY <2>4 DEF a, d, p, r
<1> HIDE DEF Wins
<1>6. \A i \in M : IsFiniteSet(Under(i)) /\ Cardinality(Under(i)) \in Nat
  BY <1>1, FS_Subset, FS_CardinalityType
<1>7. PICK i \in M : \A j \in M : Cardinality(Under(i)) <= Cardinality(Under(j))
  <2> DEFINE N == {Cardinality(Under(j)) : j \in M}
  <2>1. N \subseteq Nat /\ N # {}
    BY <1>6 DEF M
  <2>2. PICK m \in N : \A l \in N : m <= l
    <3> HIDE DEF N
    <3> QED BY <2>1, LeastNatural
  <2> QED BY <2>2
<1>8. ASSUME NEW j \in M \ {i} PROVE Wins(i, j)
  <2> SUFFICES ASSUME Wins(j, i) PROVE FALSE
    BY <1>4
  <2>1. Under(j) \in SUBSET Under(i) /\ j \in Under(i) /\ j \notin Under(j)
    BY <1>3, <1>5
  <2>2. Cardinality(Under(j)) <= Cardinality(Under(i))
        /\ Cardinality(Under(j)) # Cardinality(Under(i))
    <3> HIDE DEF Under
    <3>1. /\ Cardinality(Under(j)) <= Cardinality(Under(i))
          /\ Cardinality(Under(i)) = Cardinality(Under(j)) => Under(i) = Under(j)
      BY <1>6, <2>1, FS_Subset
    <3> QED BY <2>1, <3>1
  <2>3. Cardinality(Under(i)) <= Cardinality(Under(j))
    BY <1>7
  <2>4. Cardinality(Under(i)) \in Nat /\ Cardinality(Under(j)) \in Nat
    BY <1>6
  <2> HIDE DEF Under
  <2> QED BY <2>2, <2>3, <2>4
<1>9. ASSUME NEW j \in M PROVE ~Occupied!Nearer(x.modes[j], x.modes[i], latent)
  <2>1. j = i \/ Wins(i, j)
    BY <1>8
  <2> DEFINE u == off[i] * c[j]
             v == off[j] * c[i]
  <2>2. /\ u \in Int /\ v \in Int
        /\ Wins(i, j) => u < v \/ ~(v < u)
        /\ j = i => u = v
    BY <1>2 DEF Wins
  <2>3. Occupied!Nearer(x.modes[j], x.modes[i], latent) <=> v < u
    BY DEF Occupied!Nearer, off, c
  <2> HIDE DEF u, v
  <2> QED BY <2>1, <2>2, <2>3
<1>10. Occupied!Nearest(x, latent) \in M
  <2> DEFINE Fits(k) == \A j \in M : ~Occupied!Nearer(x.modes[j], x.modes[k], latent)
  <2>1. Occupied!Nearest(x, latent) = CHOOSE k \in M : Fits(k)
    BY DEF Occupied!Nearest, M
  <2>2. \E k \in M : Fits(k)
    BY <1>9
  <2> HIDE DEF Fits
  <2> QED BY <2>1, <2>2
<1> QED BY <1>10 DEF M

(* The modes of what a record joins: exactly one is changed.               *)
LEMMA ObservedFacts ==
    ASSUME Occupied!OccupancyAssumption, NEW x \in Indexes, NEW r \in Occupied!Records
    PROVE  \E home \in Found :
              /\ home = r.id \/ home \in Occupied!Modes(x)
              /\ Occupied!Observed(x, r).records = Append(x.records, r)
              /\ Occupied!Observed(x, r).modes
                = [x.modes EXCEPT ![home] = Occupied!Join(@, r.latent)]
              /\ Occupied!Observed(x, r).mode = [x.mode EXCEPT ![r.id] = home]
              /\ Occupied!Observed(x, r) \in Indexes
<1> DEFINE home == IF Occupied!IsNovel(x, r.latent) THEN r.id ELSE Occupied!Nearest(x, r.latent)
<1>1. r.id \in Found /\ r.id \in Int /\ r.latent \in ModeLatents /\ r.latent \in Int
  BY DEF Occupied!Records, Occupied!OccupancyAssumption
<1>2. home = r.id \/ home \in Occupied!Modes(x)
  <2>1. ~Occupied!IsNovel(x, r.latent) => Occupied!Modes(x) # {}
    BY DEF Occupied!IsNovel
  <2> QED BY <1>1, <2>1, NearestIsOne
<1>3. home \in Found /\ home \in Int
  BY <1>1, <1>2 DEF Occupied!Modes, Occupied!OccupancyAssumption
<1>4. /\ Occupied!Observed(x, r).records = Append(x.records, r)
      /\ Occupied!Observed(x, r).modes = [x.modes EXCEPT ![home] = Occupied!Join(@, r.latent)]
      /\ Occupied!Observed(x, r).mode = [x.mode EXCEPT ![r.id] = home]
  BY DEF Occupied!Observed
<1>5. Occupied!Observed(x, r)
      = [records |-> Occupied!Observed(x, r).records,
         modes |-> Occupied!Observed(x, r).modes,
                        mode |-> Occupied!Observed(x, r).mode]
  BY DEF Occupied!Observed
<1> HIDE DEF home
<1>6. /\ Append(x.records, r) \in Seq(Occupied!Records)
      /\ [x.modes EXCEPT ![home] = Occupied!Join(@, r.latent)]
              \in [Found -> [sum : Int, count : Nat]]
      /\ [x.mode EXCEPT ![r.id] = home] \in [Found -> Int]
  <2>1. x.records \in Seq(Occupied!Records) /\ x.modes \in [Found -> [sum : Int, count : Nat]]
        /\ x.mode \in [Found -> Int]
    BY DEF Indexes
  <2>2. Occupied!Join(x.modes[home], r.latent) \in [sum : Int, count : Nat]
    BY <1>1, <1>3, <2>1 DEF Occupied!Join
  <2>3. [x.modes EXCEPT ![home] = Occupied!Join(@, r.latent)]
          \in [Found -> [sum : Int, count : Nat]]
    BY <2>1, <2>2
  <2>4. Append(x.records, r) \in Seq(Occupied!Records)
    BY <2>1
  <2>5. [x.mode EXCEPT ![r.id] = home] \in [Found -> Int]
    BY <1>3, <2>1
  <2> QED BY <2>3, <2>4, <2>5
<1>7. Occupied!Observed(x, r) \in Indexes
  BY <1>4, <1>5, <1>6 DEF Indexes
<1> QED BY <1>2, <1>3, <1>4, <1>7

(* The indexes that come of the first records of s, one by one.            *)
IsGrowth(f, s) ==
    f = [k \in 0 .. Len(s) |->
            IF k = 0 THEN Occupied!Empty
            ELSE IF Occupied!Appends(f[k - 1], s[k]) THEN Occupied!Observed(f[k - 1], s[k])
                 ELSE Occupied!Empty]

(* And the sums of the latents of mode i.                                  *)
IsSumming(f, x, i) ==
    f = [k \in 0 .. Len(x.records) |->
            IF k = 0 THEN 0
            ELSE f[k - 1] + (IF k \in Occupied!Members(x, i) THEN x.records[k].latent ELSE 0)]

(* There is only one of each. *)
LEMMA GrowthIsRebuilding ==
    ASSUME NEW s \in Seq(Occupied!Records), NEW f, IsGrowth(f, s)
    PROVE  Occupied!Rebuilt(s) = f[Len(s)]
<1> DEFINE g == CHOOSE g : IsGrowth(g, s)
           n == Len(s)
           Differ == {k \in 0 .. n : f[k] # g[k]}
<1>1. IsGrowth(g, s)
  OBVIOUS
<1> HIDE DEF g
<1>2. n \in Nat
  OBVIOUS
<1>3. \A k \in 0 .. n :
         /\ f[k] = IF k = 0 THEN Occupied!Empty
                   ELSE IF Occupied!Appends(f[k - 1], s[k]) THEN Occupied!Observed(f[k - 1], s[k])
                        ELSE Occupied!Empty
         /\ g[k] = IF k = 0 THEN Occupied!Empty
                   ELSE IF Occupied!Appends(g[k - 1], s[k]) THEN Occupied!Observed(g[k - 1], s[k])
                        ELSE Occupied!Empty
  BY <1>1 DEF IsGrowth
<1>4. Differ = {}
  <2> SUFFICES ASSUME Differ # {} PROVE FALSE
    OBVIOUS
  <2>1. PICK k \in Differ : \A l \in Differ : k <= l
    <3>1. Differ \subseteq Nat
      OBVIOUS
    <3> HIDE DEF Differ
    <3> QED BY <3>1, LeastNatural
  <2>2. k \in 0 .. n /\ f[k] # g[k]
    OBVIOUS
  <2>3. CASE k = 0
    BY <1>3, <2>2, <2>3
  <2>4. CASE k # 0
    <3>1. k - 1 \in 0 .. n /\ ~(k <= k - 1)
      BY <1>2, <2>2, <2>4
    <3>2. f[k - 1] = g[k - 1]
      BY <2>1, <3>1
    <3> QED BY <1>3, <2>2, <2>4, <3>2
  <2> QED BY <2>3, <2>4
<1>5. Occupied!Rebuilt(s) = g[n]
  BY DEF Occupied!Rebuilt, g, IsGrowth
<1> QED BY <1>2, <1>4, <1>5

LEMMA SummingIsTotal ==
    ASSUME NEW x \in Indexes, NEW i \in Found, NEW f, IsSumming(f, x, i)
    PROVE  Occupied!Total(x, i) = f[Len(x.records)]
<1> DEFINE g == CHOOSE g : IsSumming(g, x, i)
           n == Len(x.records)
           w(k) == IF k \in Occupied!Members(x, i) THEN x.records[k].latent ELSE 0
           Differ == {k \in 0 .. n : f[k] # g[k]}
<1>1. IsSumming(g, x, i)
  OBVIOUS
<1> HIDE DEF g
<1>2. n \in Nat
  BY DEF Indexes
<1>3. \A k \in 0 .. n : /\ f[k] = IF k = 0 THEN 0 ELSE f[k - 1] + w(k)
                        /\ g[k] = IF k = 0 THEN 0 ELSE g[k - 1] + w(k)
  BY <1>1 DEF IsSumming
<1>4. Differ = {}
  <2> SUFFICES ASSUME Differ # {} PROVE FALSE
    OBVIOUS
  <2>1. PICK k \in Differ : \A l \in Differ : k <= l
    <3>1. Differ \subseteq Nat
      OBVIOUS
    <3> HIDE DEF Differ
    <3> QED BY <3>1, LeastNatural
  <2>2. k \in 0 .. n /\ f[k] # g[k]
    OBVIOUS
  <2> HIDE DEF n, w
  <2>3. CASE k = 0
    BY <1>3, <2>2, <2>3
  <2>4. CASE k # 0
    <3>1. k - 1 \in 0 .. n /\ ~(k <= k - 1)
      BY <1>2, <2>2, <2>4
    <3>2. f[k - 1] = g[k - 1]
      BY <2>1, <3>1
    <3> QED BY <1>3, <2>2, <2>4, <3>2
  <2> QED BY <2>3, <2>4
<1>5. Occupied!Total(x, i) = g[n]
  BY DEF Occupied!Total, g, IsSumming
<1> QED BY <1>2, <1>4, <1>5

(* What is known of an index: its records go up, it is what comes of them, *)
(* and its modes are what their members make them.                         *)
HoldsItsMembers(x, i) ==
    /\ x.modes[i].count = Cardinality(Occupied!Members(x, i))
    /\ \E f : IsSumming(f, x, i) /\ x.modes[i].sum = f[Len(x.records)]
    /\ Occupied!Members(x, i) # {} =>
          \E k \in Occupied!Members(x, i) : x.records[k].id = i
                                         /\ \A j \in Occupied!Members(x, i) : k <= j

IsWhole(x) ==
    /\ x \in Indexes
    /\ GoesUp(x.records)
    /\ \E f : IsGrowth(f, x.records) /\ x = f[Len(x.records)]
    /\ \A i \in Found : HoldsItsMembers(x, i)

LEMMA EmptyIsWhole == ASSUME Occupied!OccupancyAssumption PROVE IsWhole(Occupied!Empty)
<1> DEFINE f == [k \in 0 .. 0 |-> Occupied!Empty]
           z == [k \in 0 .. 0 |-> 0]
<1>1. Occupied!Empty \in Indexes /\ Occupied!Empty.records = << >>
      /\ Len(Occupied!Empty.records) = 0
  BY DEF Occupied!Empty, Indexes
<1>2. GoesUp(Occupied!Empty.records)
  BY <1>1 DEF GoesUp
<1>3. IsGrowth(f, Occupied!Empty.records) /\ Occupied!Empty = f[Len(Occupied!Empty.records)]
  <2>1. \A k \in 0 .. 0 : k = 0
    OBVIOUS
  <2> QED BY <1>1, <2>1 DEF IsGrowth
<1>4. ASSUME NEW i \in Found PROVE HoldsItsMembers(Occupied!Empty, i)
  <2>1. Occupied!Members(Occupied!Empty, i) = {}
    BY <1>1 DEF Occupied!Members
  <2>2. Occupied!Empty.modes[i].count = 0 /\ Occupied!Empty.modes[i].sum = 0
    BY DEF Occupied!Empty
  <2>3. IsSumming(z, Occupied!Empty, i) /\ z[Len(Occupied!Empty.records)] = 0
    <3>1. \A k \in 0 .. 0 : k = 0
      OBVIOUS
    <3> QED BY <1>1, <3>1 DEF IsSumming
  <2> HIDE DEF z
  <2> QED BY <2>1, <2>2, <2>3, FS_EmptySet DEF HoldsItsMembers
<1> HIDE DEF f
<1> QED BY <1>1, <1>2, <1>3, <1>4 DEF IsWhole
(* A record that is observed joins one mode, and leaves the index whole.   *)
LEMMA ObservedMembers ==
    ASSUME Occupied!OccupancyAssumption, NEW x \in Indexes, NEW r \in Occupied!Records,
           ~Occupied!Has(x, r.id),
           NEW home \in Found, NEW y \in Indexes,
           y.records = Append(x.records, r), y.mode = [x.mode EXCEPT ![r.id] = home],
           NEW i \in Found
    PROVE  /\ Len(y.records) = Len(x.records) + 1 /\ Len(x.records) \in Nat
           /\ y.records[Len(x.records) + 1] = r
           /\ \A k \in 1 .. Len(x.records) : y.records[k] = x.records[k]
           /\ Occupied!Members(x, i) \subseteq 1 .. Len(x.records)
           /\ Occupied!Members(y, i) = Occupied!Members(x, i)
                   \cup (IF home = i THEN {Len(x.records) + 1} ELSE {})
<1> DEFINE n == Len(x.records)
<1>1. x.records \in Seq(Occupied!Records) /\ x.mode \in [Found -> Int] /\ n \in Nat
      /\ DOMAIN x.records = 1 .. n
  BY DEF Indexes
<1>2. r.id \in Found
  BY DEF Occupied!Records
<1>3. /\ Len(y.records) = n + 1 /\ y.records[n + 1] = r
      /\ DOMAIN y.records = 1 .. n + 1
      /\ \A k \in 1 .. n : y.records[k] = x.records[k]
  BY <1>1
<1>4. y.mode[r.id] = home /\ \A j \in Found : j # r.id => y.mode[j] = x.mode[j]
  BY <1>1, <1>2
<1>5. \A k \in 1 .. n : x.records[k].id # r.id /\ x.records[k].id \in Found
  <2>1. \A k \in 1 .. n : x.records[k] \in Occupied!Records
    BY <1>1
  <2>2. \A t \in Occupied!Records : t.id \in Found
    BY DEF Occupied!Records
  <2> QED BY <1>1, <2>1, <2>2 DEF Occupied!Has
<1>6. \A k \in 1 .. n : k \in Occupied!Members(y, i) <=> k \in Occupied!Members(x, i)
  <2> SUFFICES ASSUME NEW k \in 1 .. n
               PROVE  k \in Occupied!Members(y, i) <=> k \in Occupied!Members(x, i)
    OBVIOUS
  <2>1. y.records[k] = x.records[k] /\ y.mode[x.records[k].id] = x.mode[x.records[k].id]
    BY <1>3, <1>4, <1>5
  <2>2. k \in DOMAIN x.records /\ k \in DOMAIN y.records
    BY <1>1, <1>3
  <2> QED BY <2>1, <2>2 DEF Occupied!Members
<1>7. n + 1 \in Occupied!Members(y, i) <=> home = i
  <2>1. n + 1 \in DOMAIN y.records
    BY <1>1, <1>3
  <2> QED BY <1>3, <1>4, <2>1 DEF Occupied!Members
<1>8. Occupied!Members(x, i) \subseteq 1 .. n /\ Occupied!Members(y, i) \subseteq 1 .. n + 1
  BY <1>1, <1>3 DEF Occupied!Members
<1>9. Occupied!Members(y, i) = Occupied!Members(x, i) \cup (IF home = i THEN {n + 1} ELSE {})
  <2>1. 1 .. n + 1 = (1 .. n) \cup {n + 1} /\ n + 1 \notin 1 .. n
    BY <1>1
  <2> DEFINE S == Occupied!Members(x, i)
             T == Occupied!Members(y, i)
  <2> HIDE DEF S, T, n
  <2> QED BY <1>6, <1>7, <1>8, <2>1 DEF S, T
<1> QED BY <1>1, <1>3, <1>8, <1>9

(* A function on 0 .. n, and one step further.                             *)
LEMMA OneFurther ==
    ASSUME NEW n \in Nat, NEW f, f = [k \in 0 .. n |-> f[k]], NEW v,
           NEW g, g = [k \in 0 .. n + 1 |-> IF k = n + 1 THEN v ELSE f[k]]
    PROVE  g[n + 1] = v /\ \A k \in 0 .. n : g[k] = f[k]
OBVIOUS

LEMMA ObserveKeepsGrowth ==
    ASSUME NEW s \in Seq(Occupied!Records), NEW r \in Occupied!Records, NEW f, IsGrowth(f, s),
           Occupied!Appends(f[Len(s)], r)
    PROVE  \E g : IsGrowth(g, Append(s, r)) /\ g[Len(s) + 1] = Occupied!Observed(f[Len(s)], r)
<1> DEFINE n == Len(s)
           z == Append(s, r)
           v == Occupied!Observed(f[n], r)
           g == [k \in 0 .. n + 1 |-> IF k = n + 1 THEN v ELSE f[k]]
           Grown(h, t, k) == IF k = 0 THEN Occupied!Empty
                             ELSE IF Occupied!Appends(h[k - 1], t[k]) THEN Occupied!Observed(h[k - 1], t[k])
                                  ELSE Occupied!Empty
<1>1. n \in Nat /\ Len(z) = n + 1 /\ z[n + 1] = r /\ \A k \in 1 .. n : z[k] = s[k]
  OBVIOUS
<1>2. f = [k \in 0 .. n |-> Grown(f, s, k)]
  BY DEF IsGrowth
<1> HIDE DEF n, z, v
<1>3. g[n + 1] = v /\ \A k \in 0 .. n : g[k] = f[k]
  BY <1>1
<1> HIDE DEF g
<1>4. \A k \in 0 .. n + 1 : g[k] = Grown(g, z, k)
  <2> SUFFICES ASSUME NEW k \in 0 .. n + 1 PROVE g[k] = Grown(g, z, k)
    OBVIOUS
  <2>1. CASE k = 0
    <3>1. f[0] = Occupied!Empty /\ 0 \in 0 .. n
      BY <1>1, <1>2
    <3> QED BY <1>3, <2>1, <3>1
  <2>2. CASE k \in 1 .. n
    <3>1. f[k] = Grown(f, s, k)
      <4>1. k \in 0 .. n
        BY <1>1, <2>2
      <4> HIDE DEF Grown
      <4> QED BY <1>2, <4>1
    <3>2. g[k] = f[k] /\ g[k - 1] = f[k - 1] /\ z[k] = s[k]
      BY <1>1, <1>3, <2>2
    <3> QED BY <2>2, <3>1, <3>2
  <2>3. CASE k = n + 1
    <3>1. k # 0 /\ k - 1 = n /\ g[k - 1] = f[n] /\ g[k] = v /\ z[k] = r
      BY <1>1, <1>3, <2>3
    <3>2. Occupied!Appends(f[n], r) /\ v = Occupied!Observed(f[n], r)
      BY DEF n, v
    <3> QED BY <3>1, <3>2
  <2> QED BY <1>1, <2>1, <2>2, <2>3
<1>5. g = [k \in 0 .. Len(z) |-> Grown(g, z, k)]
  <2>1. g = [k \in 0 .. n + 1 |-> g[k]]
    BY DEF g
  <2> HIDE DEF Grown
  <2> QED BY <1>1, <1>4, <2>1
<1>6. IsGrowth(g, z)
  BY <1>5 DEF IsGrowth
<1> QED BY <1>3, <1>6 DEF n, z, v

LEMMA ObserveKeepsMembers ==
    ASSUME Occupied!OccupancyAssumption, NEW x \in Indexes, NEW r \in Occupied!Records,
           ~Occupied!Has(x, r.id),
           NEW home \in Found, home = r.id \/ home \in Occupied!Modes(x), NEW y \in Indexes,
           y.records = Append(x.records, r), y.mode = [x.mode EXCEPT ![r.id] = home],
           y.modes = [x.modes EXCEPT ![home] = Occupied!Join(@, r.latent)],
           NEW i \in Found, HoldsItsMembers(x, i)
    PROVE  HoldsItsMembers(y, i)
<1> DEFINE n == Len(x.records)
           S == Occupied!Members(x, i)
           w(z, k) == IF k \in Occupied!Members(z, i) THEN z.records[k].latent ELSE 0
<1>1. /\ Len(y.records) = n + 1 /\ n \in Nat /\ y.records[n + 1] = r
      /\ \A k \in 1 .. n : y.records[k] = x.records[k]
      /\ S \subseteq 1 .. n
      /\ Occupied!Members(y, i) = S \cup (IF home = i THEN {n + 1} ELSE {})
  BY ObservedMembers
<1>2. IsFiniteSet(S) /\ Cardinality(S) \in Nat
  <2>1. IsFiniteSet(1 .. n)
    BY <1>1, FS_Interval
  <2> QED BY <1>1, <2>1, FS_Subset, FS_CardinalityType
<1>3. PICK f : IsSumming(f, x, i) /\ x.modes[i].sum = f[n]
  BY DEF HoldsItsMembers
<1>4. x.modes[i].count = Cardinality(S)
      /\ (S # {} => \E k \in S : x.records[k].id = i /\ \A j \in S : k <= j)
  BY DEF HoldsItsMembers
<1>5. /\ home = i => y.modes[i] = Occupied!Join(x.modes[i], r.latent)
      /\ home # i => y.modes[i] = x.modes[i]
  BY DEF Indexes
<1>6. x.modes[i].sum \in Int /\ x.modes[i].count \in Nat /\ r.latent \in Int
  BY DEF Indexes, Occupied!Records, Occupied!OccupancyAssumption
<1> DEFINE g == [k \in 0 .. n + 1 |-> IF k = n + 1 THEN y.modes[i].sum ELSE f[k]]
<1>7. IsSumming(g, y, i) /\ g[n + 1] = y.modes[i].sum
  <2>1. f = [k \in 0 .. n |-> IF k = 0 THEN 0 ELSE f[k - 1] + w(x, k)]
    BY <1>3 DEF IsSumming
  <2>2. \A k \in 1 .. n : w(y, k) = w(x, k)
    <3> SUFFICES ASSUME NEW k \in 1 .. n PROVE w(y, k) = w(x, k)
      OBVIOUS
    <3>1. k \in Occupied!Members(y, i) <=> k \in S
      BY <1>1
    <3> QED BY <1>1, <3>1
  <2>3. w(y, n + 1) = IF home = i THEN r.latent ELSE 0
    <3>1. n + 1 \in Occupied!Members(y, i) <=> home = i
      BY <1>1
    <3> QED BY <1>1, <3>1
  <2>4. y.modes[i].sum = f[n] + w(y, n + 1)
    <3>1. CASE home = i
      BY <1>3, <1>5, <1>6, <2>3, <3>1 DEF Occupied!Join
    <3>2. CASE home # i
      BY <1>3, <1>5, <1>6, <2>3, <3>2
    <3> QED BY <3>1, <3>2
  <2>5. g[n + 1] = y.modes[i].sum /\ (\A k \in 0 .. n : g[k] = f[k])
        /\ g = [k \in 0 .. n + 1 |-> g[k]]
    <3> DEFINE v == y.modes[i].sum
    <3>1. n \in Nat
      BY <1>1
    <3> HIDE DEF n, v
    <3> QED BY <3>1 DEF v
  <2> HIDE DEF g, w
  <2>6. \A k \in 0 .. n + 1 : g[k] = IF k = 0 THEN 0 ELSE g[k - 1] + w(y, k)
    <3> DEFINE v == y.modes[i].sum
    <3>1. n \in Nat
      BY <1>1
    <3> HIDE DEF n, v
    <3> SUFFICES ASSUME NEW k \in 0 .. n + 1 PROVE g[k] = IF k = 0 THEN 0 ELSE g[k - 1] + w(y, k)
      OBVIOUS
    <3>2. CASE k = 0
      <4>1. f[0] = 0 /\ 0 \in 0 .. n
        BY <2>1, <3>1
      <4> QED BY <2>5, <3>2, <4>1
    <3>3. CASE k \in 1 .. n
      <4>1. f[k] = f[k - 1] + w(x, k)
        <5>1. k \in 0 .. n /\ k # 0
          BY <3>1, <3>3
        <5> QED BY <2>1, <5>1
      <4>2. g[k] = f[k] /\ g[k - 1] = f[k - 1] /\ w(y, k) = w(x, k) /\ k # 0
        <5>1. k \in 0 .. n /\ k - 1 \in 0 .. n /\ k # 0
          BY <3>1, <3>3
        <5>2. \A l \in 0 .. n : g[l] = f[l]
          BY <2>5
        <5>3. w(y, k) = w(x, k)
          BY <2>2, <3>3
        <5> QED BY ONLY <5>1, <5>2, <5>3
      <4> QED BY <4>1, <4>2
    <3>4. CASE k = n + 1
      <4>1. k # 0 /\ k - 1 = n /\ n \in 0 .. n
        BY <3>1, <3>4
      <4>2. g[n + 1] = g[n] + w(y, n + 1)
        BY <2>4, <2>5, <4>1
      <4> QED BY <3>4, <4>1, <4>2
    <3> QED BY <3>1, <3>2, <3>3, <3>4
  <2>7. g = [k \in 0 .. Len(y.records) |-> IF k = 0 THEN 0 ELSE g[k - 1] + w(y, k)]
    BY <1>1, <2>5, <2>6
  <2>8. IsSumming(g, y, i)
    BY <2>7 DEF IsSumming, w
  <2> QED BY <2>5, <2>8
<1> HIDE DEF g, S
<1>8. y.modes[i].count = Cardinality(Occupied!Members(y, i))
  <2>1. CASE home = i
    <3>1. n + 1 \notin S
      BY <1>1
    <3>2. Cardinality(S \cup {n + 1}) = Cardinality(S) + 1
      BY <1>2, <3>1, FS_AddElement
    <3> QED BY <1>1, <1>4, <1>5, <2>1, <3>2 DEF Occupied!Join
  <2>2. CASE home # i
    BY <1>1, <1>4, <1>5, <2>2
  <2> QED BY <2>1, <2>2
<1>9. ASSUME Occupied!Members(y, i) # {}
      PROVE  \E k \in Occupied!Members(y, i) : y.records[k].id = i
                                            /\ \A j \in Occupied!Members(y, i) : k <= j
  <2>1. CASE S = {}
    <3>1. home = i /\ Occupied!Members(y, i) = {n + 1}
      BY <1>1, <1>9, <2>1
    <3>2. home \notin Occupied!Modes(x)
      BY <1>4, <2>1, <3>1, FS_EmptySet DEF Occupied!Modes
    <3> QED BY <1>1, <3>1, <3>2
  <2>2. CASE S # {}
    <3>1. PICK k \in S : x.records[k].id = i /\ \A j \in S : k <= j
      BY <1>4, <2>2
    <3>2. k \in 1 .. n /\ y.records[k].id = i /\ k \in Occupied!Members(y, i)
      BY <1>1, <3>1
    <3>3. \A j \in Occupied!Members(y, i) : k <= j
      BY <1>1, <3>1, <3>2
    <3> QED BY <3>2, <3>3
  <2> QED BY <2>1, <2>2
<1> QED BY <1>1, <1>7, <1>8, <1>9 DEF HoldsItsMembers

LEMMA ObserveKeepsWhole ==
    ASSUME Occupied!OccupancyAssumption, NEW x, IsWhole(x), NEW r \in Occupied!Records,
           ~Occupied!Has(x, r.id), Occupied!Appends(x, r)
    PROVE  IsWhole(Occupied!Observed(x, r))
<1> DEFINE y == Occupied!Observed(x, r)
           n == Len(x.records)
<1>1. x \in Indexes /\ GoesUp(x.records) /\ (\A i \in Found : HoldsItsMembers(x, i))
      /\ x.records \in Seq(Occupied!Records) /\ n \in Nat
  BY DEF IsWhole, Indexes
<1>2. PICK home \in Found :
         /\ home = r.id \/ home \in Occupied!Modes(x)
         /\ y.records = Append(x.records, r)
         /\ y.modes = [x.modes EXCEPT ![home] = Occupied!Join(@, r.latent)]
         /\ y.mode = [x.mode EXCEPT ![r.id] = home]
         /\ y \in Indexes
  BY <1>1, ObservedFacts
<1>3. PICK f : IsGrowth(f, x.records) /\ x = f[n]
  BY DEF IsWhole
<1>4. \E g : IsGrowth(g, y.records) /\ y = g[Len(y.records)]
  <2>1. PICK g : IsGrowth(g, Append(x.records, r)) /\ g[n + 1] = Occupied!Observed(f[n], r)
    BY <1>1, <1>3, ObserveKeepsGrowth
  <2>2. Len(Append(x.records, r)) = n + 1
    BY <1>1
  <2> QED BY <1>2, <1>3, <2>1, <2>2
<1> HIDE DEF y
<1>5. GoesUp(y.records)
  <2> DEFINE s == x.records
             z == Append(s, r)
  <2>1. Len(z) = n + 1 /\ z[n + 1] = r /\ (\A k \in 1 .. n : z[k] = s[k])
    BY <1>1
  <2>2. \A k \in 1 .. n : s[k].id \in Int
    <3>1. \A k \in 1 .. n : s[k] \in Occupied!Records
      BY <1>1
    <3>2. \A t \in Occupied!Records : t.id \in Int
      BY DEF Occupied!Records, Occupied!OccupancyAssumption
    <3> QED BY <3>1, <3>2
  <2>3. r.id \in Int
    BY DEF Occupied!Records, Occupied!OccupancyAssumption
  <2>4. \A k \in 1 .. n : Occupied!Before(s[k], r)
    <3> SUFFICES ASSUME NEW k \in 1 .. n PROVE Occupied!Before(s[k], r)
      OBVIOUS
    <3>1. s # << >> /\ n \in 1 .. n
      BY <1>1
    <3>2. Occupied!Before(s[n], r)
      BY <3>1 DEF Occupied!Appends
    <3>3. k = n \/ Occupied!Before(s[k], s[n])
      BY <1>1, <3>1 DEF GoesUp
    <3> QED BY <2>2, <2>3, <3>1, <3>2, <3>3 DEF Occupied!Before
  <2>5. \A i, j \in 1 .. n : i < j => Occupied!Before(s[i], s[j])
    BY <1>1 DEF GoesUp
  <2> HIDE DEF s, z
  <2>6. GoesUp(z)
    <3>1. ASSUME NEW i \in 1 .. n + 1, NEW j \in 1 .. n + 1, i < j
          PROVE  Occupied!Before(z[i], z[j])
      <4>1. i \in 1 .. n /\ (j \in 1 .. n \/ j = n + 1)
        BY <1>1, <3>1
      <4> QED BY <2>1, <2>4, <2>5, <3>1, <4>1
    <3> QED BY <2>1, <3>1 DEF GoesUp
  <2> QED BY <1>2, <2>6 DEF s, z
<1>6. ASSUME NEW i \in Found PROVE HoldsItsMembers(y, i)
  BY <1>1, <1>2, ObserveKeepsMembers
<1>7. IsWhole(y)
  BY <1>2, <1>4, <1>5, <1>6 DEF IsWhole
<1> QED BY <1>7 DEF y

(* Every index that came of its records is restored, and its modes are     *)
(* what they hold.                                                         *)
OccupancyInv ==
    /\ IsWhole(index)
    /\ batch \in Seq(Occupied!Records)

LEMMA OccupancyStarts == ASSUME Occupied!OccupancyAssumption, Occupied!Init PROVE OccupancyInv
<1>1. << >> \in Seq(Occupied!Records)
  OBVIOUS
<1> QED BY <1>1, EmptyIsWhole DEF Occupied!Init, OccupancyInv

LEMMA OccupancyStep ==
    ASSUME Occupied!OccupancyAssumption, OccupancyInv,
           [Occupied!Next]_modeVars PROVE OccupancyInv'
<1>1. IsWhole(index) /\ batch \in Seq(Occupied!Records)
  BY DEF OccupancyInv
<1>2. CASE Occupied!Merge
  <2>1. index' = index
    BY <1>2 DEF Occupied!Merge
  <2>2. batch' \in Seq(Occupied!Records)
    <3>1. PICK n \in 1 .. MergeSize : \E order \in [1 .. n -> Occupied!Records] : batch' = order
      BY <1>2 DEF Occupied!Merge
    <3>2. n \in Nat
      BY <3>1
    <3> QED BY <3>1, <3>2
  <2> QED BY <1>1, <2>1, <2>2 DEF OccupancyInv
<1>3. CASE Occupied!Observe
  <2>1. batch # << >> /\ Head(batch) \in Occupied!Records /\ Tail(batch) \in Seq(Occupied!Records)
        /\ << >> \in Seq(Occupied!Records)
    BY <1>1, <1>3 DEF Occupied!Observe
  <2>2. CASE index' = index /\ batch' \in {Tail(batch), << >>}
    BY <1>1, <2>1, <2>2 DEF OccupancyInv
  <2>3. CASE /\ ~Occupied!Has(index, Head(batch).id) /\ Occupied!Appends(index, Head(batch))
             /\ index' = Occupied!Observed(index, Head(batch)) /\ batch' = Tail(batch)
    <3>1. IsWhole(index')
      BY <1>1, <2>1, <2>3, ObserveKeepsWhole
    <3> QED BY <2>1, <2>3, <3>1 DEF OccupancyInv
  <2> QED BY <1>3, <2>2, <2>3 DEF Occupied!Observe
<1>4. CASE UNCHANGED modeVars
  BY <1>1, <1>4 DEF OccupancyInv, modeVars
<1> QED BY <1>2, <1>3, <1>4 DEF Occupied!Next

LEMMA OccupancySafe ==
    ASSUME Occupied!OccupancyAssumption,
           OccupancyInv PROVE Occupied!Restores /\ Occupied!ModesAreTheirMembers
<1>1. IsWhole(index) /\ index \in Indexes /\ index.records \in Seq(Occupied!Records)
  BY DEF OccupancyInv, IsWhole, Indexes
<1>2. Occupied!Restores
  <2>1. PICK f : IsGrowth(f, index.records) /\ index = f[Len(index.records)]
    BY <1>1 DEF IsWhole
  <2>2. Occupied!Sorted(index.records) = index.records
    BY <1>1, SortedAlready DEF IsWhole
  <2>3. Occupied!Rebuilt(index.records) = f[Len(index.records)]
    BY <1>1, <2>1, GrowthIsRebuilding
  <2> QED BY <2>1, <2>2, <2>3 DEF Occupied!Restores, Occupied!Reloaded
<1>3. ASSUME NEW i \in Found
      PROVE  /\ index.modes[i].count = Cardinality(Occupied!Members(index, i))
             /\ index.modes[i].sum = Occupied!Total(index, i)
             /\ Occupied!Members(index, i) # {} =>
                   \E k \in Occupied!Members(index, i) :
                      index.records[k].id = i /\ \A j \in Occupied!Members(index, i) : k <= j
  <2>1. HoldsItsMembers(index, i)
    BY <1>1 DEF IsWhole
  <2>2. PICK f : IsSumming(f, index, i) /\ index.modes[i].sum = f[Len(index.records)]
    BY <2>1 DEF HoldsItsMembers
  <2>3. index.modes[i].sum = Occupied!Total(index, i)
    BY <1>1, <2>2, SummingIsTotal
  <2> QED BY <2>1, <2>3 DEF HoldsItsMembers
<1>4. Occupied!ModesAreTheirMembers
  BY <1>3, OccupancyCounts DEF Occupied!ModesAreTheirMembers
<1> QED BY <1>2, <1>4

(* The index is what comes of its records, one by one in their order: in   *)
(* whatever batches they came, and wherever a batch was refused.           *)
THEOREM OccupancyInvariant ==
    ASSUME Occupied!OccupancyAssumption PROVE MCSpec => [](part = "modes" => OccupancyInv)
<1>1. MCInit => (part = "modes" => OccupancyInv)
  BY OccupancyStarts DEF MCInit
<1>2. (part = "modes" => OccupancyInv) /\ [MCNext]_allVars => (part = "modes" => OccupancyInv)'
  <2>1. [MCNext]_allVars /\ part' = "modes"
            => part = "modes" /\ [Occupied!Next]_modeVars
    BY DEF MCNext, allVars
  <2> QED
    BY <2>1, OccupancyStep
<1> QED
  BY <1>1, <1>2, PTL DEF MCSpec

(* A checkpoint of the successes found, loaded, is the very index it was   *)
(* taken of; and each mode counts, and sums, the records that joined it,   *)
(* the first of which founded it (load_state_dict): for any latents, any   *)
(* radius, and any number of records.                                      *)
THEOREM OccupancyIsRestored ==
    ASSUME Occupied!OccupancyAssumption PROVE MCSpec => []OccupancyRestores
<1>1. (part = "modes" => OccupancyInv) => OccupancyRestores
  BY OccupancySafe DEF OccupancyRestores
<1> QED
  BY <1>1, OccupancyInvariant, PTL

=============================================================================
