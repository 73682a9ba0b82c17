---------------------------- MODULE LatentMemory ----------------------------
(***************************************************************************)
(* LatentMemory (src/rexpolicy/manifold/memory.py): the latents of         *)
(* successes, of which the first few worlds of a decision try some again.  *)
(* It admits what is novel, forgets the oldest when it is full, and is     *)
(* gone round with a cursor that has to survive both.                      *)
(*                                                                         *)
(* Latents are integers.  A launch that resumes has the memory of its      *)
(* checkpoint back, with all that followed from it undone: that adds no    *)
(* behaviour to those below as long as every memory can be loaded.         *)
(***************************************************************************)
EXTENDS Integers, Sequences, FiniteSets

CONSTANTS
    Samples,            \* sample ids
    Latents,            \* a set of integers
    Capacity,
    Novelty,            \* novelty_threshold
    MaxDraw             \* --manifold-memory-candidates

(* What the proofs assume of them: the constructor refuses a capacity      *)
(* below one.                                                              *)
MemoryAssumption == Latents \subseteq Int /\ Capacity \in Nat \ {0} /\ MaxDraw \in Nat

VARIABLES
    entries,            \* in the order of admission
    cursor,
    vetted,             \* history: entries admitted since the last rebase
    turn                \* history: for each entry drawn, who was there then and was drawn since

vars == <<entries, cursor, vetted, turn>>

Ids == {entries[i].id : i \in DOMAIN entries}

Undrawn == [there |-> {}, since |-> {}]

Init ==
    /\ entries = << >> /\ cursor = 0
    /\ vetted = {} /\ turn = [s \in Samples |-> Undrawn]

Distance(x, y) == IF x < y THEN y - x ELSE x - y

Novel(x) == \A i \in DOMAIN entries : Distance(x, entries[i].latent) >= Novelty

(* A plausible defect: the cursor stays where it is. *)
Evict_CursorStays ==
    IF Len(entries) < Capacity THEN [entries |-> entries, cursor |-> cursor, gone |-> {}]
    ELSE [entries |-> Tail(entries), cursor |-> cursor, gone |-> {entries[1].id}]

(* The oldest entry goes; the cursor stays on its entry, if there is one   *)
(* before it.                                                              *)
Evict ==
    IF Len(entries) < Capacity THEN [entries |-> entries, cursor |-> cursor, gone |-> {}]
    ELSE [entries |-> Tail(entries), cursor |-> IF cursor > 0 THEN cursor - 1 ELSE 0,
          gone |-> {entries[1].id}]

(* add; a duplicate, and a latent that is not novel, change nothing. *)
Add(s, x) ==
    /\ s \notin Ids /\ Novel(x)
    /\ LET room == Evict
           now == Append(room.entries, [id |-> s, latent |-> x])
       IN  /\ entries' = now
           /\ cursor' = room.cursor % Len(now)
           /\ vetted' = (vetted \ room.gone) \cup {s}
           /\ turn' = [t \in Samples |->
                 IF t \in room.gone \cup {s} THEN Undrawn
                 ELSE [turn[t] EXCEPT !.there = @ \ room.gone]]

(* What sample(count) returns. *)
Batch(count) ==
    LET actual == IF count < Len(entries) THEN count ELSE Len(entries)
    IN  [i \in 1 .. actual |-> entries[((cursor + i - 1) % Len(entries)) + 1].id]

(* The samples of the batch from place i on. *)
From(batch, i) == {batch[j] : j \in i .. Len(batch)}

Sample(count) ==
    /\ entries # << >>
    /\ LET batch == Batch(count)
       IN  /\ cursor' = (cursor + Len(batch)) % Len(entries)
           /\ turn' = [s \in Samples |->
                 IF \E i \in DOMAIN batch : batch[i] = s
                 THEN LET i == CHOOSE k \in DOMAIN batch :
                                   batch[k] = s /\ s \notin From(batch, k + 1)
                      IN  [there |-> Ids, since |-> From(batch, i)]
                 ELSE IF turn[s] = Undrawn THEN Undrawn
                 ELSE [turn[s] EXCEPT !.since = @ \cup From(batch, 1)]]
    /\ UNCHANGED <<entries, vetted>>

(* rebase: new latents for exactly the entries that are there. *)
Rebase(latent) ==
    /\ DOMAIN latent = Ids /\ Ids # {}
    /\ entries' = [i \in DOMAIN entries |->
                    [id |-> entries[i].id, latent |-> latent[entries[i].id]]]
    /\ vetted' = {}
    /\ UNCHANGED <<cursor, turn>>

Next ==
    \/ \E s \in Samples, x \in Latents : Add(s, x)
    \/ \E count \in 1 .. MaxDraw : Sample(count)
    \/ \E latent \in [Ids -> Latents] : Rebase(latent)

Spec == Init /\ [][Next]_vars

-----------------------------------------------------------------------------
(* Properties. *)

(* load_state_dict accepts what state_dict gives, at any moment. *)
Loads ==
    /\ Len(entries) <= Capacity /\ Cardinality(Ids) = Len(entries)
    /\ IF entries = << >> THEN cursor = 0 ELSE cursor \in 0 .. Len(entries) - 1

(* Entries of one encoder are never nearer to each other than what counts  *)
(* as novel, whatever was evicted in between.                              *)
Apart ==
    \A i, j \in DOMAIN entries :
        i < j /\ entries[j].id \in vetted
            => Distance(entries[i].latent, entries[j].latent) >= Novelty

(* Between two turns of an entry every other one that was there at the     *)
(* first and still is has its turn, over admissions and evictions.         *)
GoesRound ==
    \A count \in 1 .. MaxDraw : Sample(count) =>
        LET batch == Batch(count)
        IN  \A i \in DOMAIN batch :
              (turn[batch[i]].there \cap Ids) \ {batch[i]}
                  \subseteq turn[batch[i]].since \cup {batch[j] : j \in 1 .. i - 1}
=============================================================================
