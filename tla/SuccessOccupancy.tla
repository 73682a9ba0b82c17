-------------------------- MODULE SuccessOccupancy --------------------------
(***************************************************************************)
(* SuccessOccupancyIndex (src/rexpolicy/manifold/occupancy.py): which      *)
(* modes the successes have been found in so far.  Successes are added in  *)
(* a canonical order, each to the nearest mode or to a new one; a batch    *)
(* that a check refuses in the middle stays half added.  A checkpoint      *)
(* keeps the successes alone, and a resumed launch finds the modes again.  *)
(*                                                                         *)
(* Latents are integers; a centroid is the sum of a mode's latents and     *)
(* their number.  The id of a mode is that of the success that founded it. *)
(***************************************************************************)
EXTENDS Integers, Sequences, FiniteSets

CONSTANTS
    Ids,                \* samples, numbered in the canonical order (sort_key)
    Latents,
    Radius,             \* cluster_radius
    MaxRecords,         \* max_records
    BatchSize           \* bound: records of a merge

OccupancyAssumption ==
    /\ IsFiniteSet(Ids) /\ Ids \subseteq Int
    /\ Latents \subseteq Int

(* Two records of one sample may conflict.                                 *)
Records == [id : Ids, latent : Latents]

VARIABLES
    index,              \* records, modes and assignments
    batch,              \* what a merge has yet to observe
    raised              \* the last merge was refused

vars == <<index, batch, raised>>

(* The modes by their id: absent ones have no members. *)
Empty == [records |-> << >>,
          modes |-> [i \in Ids |-> [sum |-> 0, count |-> 0]],
          mode |-> [i \in Ids |-> 0]]

Init == index = Empty /\ batch = << >> /\ raised = FALSE

Before(r, s) == r.id < s.id

Has(x, i) == \E k \in DOMAIN x.records : x.records[k].id = i

Holds(x, r) == \E k \in DOMAIN x.records : x.records[k] = r

Modes(x) == {i \in Ids : x.modes[i].count > 0}

(* The distance of a latent from a centroid, times the count. *)
Off(m, latent) == LET d == latent * m.count - m.sum IN IF d < 0 THEN -d ELSE d

Nearer(m, n, latent) == Off(m, latent) * n.count < Off(n, latent) * m.count

(* _nearest_mode: of those equally near always the same one (the code      *)
(* takes the least mode_id, a hash of the mode; which one that is, is left *)
(* open).                                                                  *)
Nearest(x, latent) ==
    CHOOSE i \in Modes(x) : \A j \in Modes(x) : ~Nearer(x.modes[j], x.modes[i], latent)

IsNovel(x, latent) == \A i \in Modes(x) : Off(x.modes[i], latent) >= Radius * x.modes[i].count

(* A plausible defect: records are taken in any order. *)
Appends_AnyOrder(x, r) == Len(x.records) < MaxRecords

(* The checks of observe_success on a record that is not there yet. *)
Appends(x, r) ==
    /\ Len(x.records) < MaxRecords
    /\ x.records # << >> => Before(x.records[Len(x.records)], r)

Join(m, latent) == [sum |-> m.sum + latent, count |-> m.count + 1]

Observed(x, r) ==
    LET home == IF IsNovel(x, r.latent) THEN r.id ELSE Nearest(x, r.latent)
    IN  [records |-> Append(x.records, r),
         modes |-> [x.modes EXCEPT ![home] = Join(@, r.latent)],
         mode |-> [x.mode EXCEPT ![r.id] = home]]

-----------------------------------------------------------------------------
(* merge: the batch is sorted, whatever order it came in, and observed     *)
(* record by record.                                                       *)
Merge ==
    /\ batch = << >>
    /\ \E n \in 1 .. BatchSize : \E order \in [1 .. n -> Records] :
          /\ \A i, j \in 1 .. n : i < j => ~Before(order[j], order[i])
          /\ batch' = order
    /\ raised' = FALSE
    /\ UNCHANGED index

Observe ==
    /\ batch # << >>
    /\ LET r == Head(batch)
       IN  \/ /\ Holds(index, r)                     \* a duplicate
              /\ batch' = Tail(batch) /\ UNCHANGED <<index, raised>>
           \/ /\ ~Has(index, r.id) /\ Appends(index, r)
              /\ index' = Observed(index, r)
              /\ batch' = Tail(batch) /\ UNCHANGED raised
           \/ /\ ~Holds(index, r)
              /\ Has(index, r.id) \/ ~Appends(index, r)
              /\ raised' = TRUE /\ batch' = << >> /\ UNCHANGED index

Next == Merge \/ Observe

Spec == Init /\ [][Next]_vars

-----------------------------------------------------------------------------
(* Properties. *)

(* load_state_dict: the records of a checkpoint are sorted and observed by *)
(* a new index, or refused by it.                                          *)
Sorted(s) ==
    LET n == Len(s)
        p == CHOOSE p \in [1 .. n -> 1 .. n] : \A i, j \in 1 .. n : i < j =>
                \/ Before(s[p[i]], s[p[j]])
                \/ ~Before(s[p[j]], s[p[i]]) /\ p[i] < p[j]
    IN  [i \in 1 .. n |-> s[p[i]]]

Rebuilt(s) ==
    LET from[k \in 0 .. Len(s)] ==
            IF k = 0 THEN Empty
            ELSE IF Appends(from[k - 1], s[k]) THEN Observed(from[k - 1], s[k]) ELSE Empty
    IN  from[Len(s)]

Reloaded == Rebuilt(Sorted(index.records))

(* Whatever batches came in, and wherever one was refused, a checkpoint is *)
(* loaded to the very index it was taken of: the same modes, the same      *)
(* centroids, the same success in each.                                    *)
Restores == Reloaded = index

(* The places of the records in mode i, and the sum of their latents. *)
Members(x, i) == {k \in DOMAIN x.records : x.mode[x.records[k].id] = i}

Total(x, i) ==
    LET upto[k \in 0 .. Len(x.records)] ==
            IF k = 0 THEN 0
            ELSE upto[k - 1] + (IF k \in Members(x, i) THEN x.records[k].latent ELSE 0)
    IN  upto[Len(x.records)]

(* A mode is what its members make it, and its first founded it. *)
ModesAreTheirMembers ==
    \A i \in Ids :
        /\ index.modes[i].count = Cardinality(Members(index, i))
        /\ index.modes[i].sum = Total(index, i)
        /\ Members(index, i) # {} =>
              \E k \in Members(index, i) :
                 index.records[k].id = i /\ \A j \in Members(index, i) : k <= j
=============================================================================
