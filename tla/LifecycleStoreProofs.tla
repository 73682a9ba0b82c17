------------------------ MODULE LifecycleStoreProofs ------------------------
(***************************************************************************)
(* The lifecycle store, for every number of processes, roots, manifests    *)
(* and keys: its invariants, and that it implements LifecycleLog.          *)
(***************************************************************************)
EXTENDS LifecycleRecovery, SequenceTheorems, TLAPS

-----------------------------------------------------------------------------
(* Prefixes of sequences. *)

LEMMA FrontType ==
    ASSUME NEW S, NEW s \in Seq(S), s # << >>
    PROVE  /\ Front(s) \in Seq(S)
           /\ Len(Front(s)) = Len(s) - 1
           /\ \A i \in 1 .. Len(s) - 1 : Front(s)[i] = s[i]
<1>1. Len(s) \in Nat /\ Len(s) # 0
  OBVIOUS
<1>2. \A i \in 1 .. Len(s) - 1 : s[i] \in S
  BY <1>1
<1>3. /\ SubSeq(s, 1, Len(s) - 1) \in Seq(S)
      /\ Len(SubSeq(s, 1, Len(s) - 1)) =
            IF 1 <= Len(s) - 1 THEN (Len(s) - 1) - 1 + 1 ELSE 0
      /\ \A i \in 1 .. (Len(s) - 1) - 1 + 1 : SubSeq(s, 1, Len(s) - 1)[i] = s[1 + i - 1]
  BY <1>1, <1>2, SubSeqProperties
<1>4. Front(s) = SubSeq(s, 1, Len(s) - 1)
  BY DEF Front
<1>5. Len(s) - 1 = (Len(s) - 1) - 1 + 1
  BY <1>1
<1>6. Len(Front(s)) = Len(s) - 1
  <2>1. CASE Len(s) = 1
    <3>1. ~(1 <= Len(s) - 1)
      BY <2>1
    <3>2. Len(SubSeq(s, 1, Len(s) - 1)) = 0
      BY <1>3, <3>1
    <3>3. QED
      BY <1>4, <2>1, <3>2
  <2>2. CASE Len(s) # 1
    <3>1. 1 <= Len(s) - 1
      <4>1. \A n \in Nat : n # 0 /\ n # 1 => 1 <= n - 1
        OBVIOUS
      <4>2. QED
        BY <1>1, <2>2, <4>1
    <3>2. Len(SubSeq(s, 1, Len(s) - 1)) = (Len(s) - 1) - 1 + 1
      BY <1>3, <3>1
    <3>3. QED
      BY <1>4, <1>5, <3>2
  <2>3. QED
    BY <2>1, <2>2
<1>7. \A i \in 1 .. Len(s) - 1 : Front(s)[i] = s[i]
  <2>1. TAKE i \in 1 .. Len(s) - 1
  <2>2. i \in 1 .. (Len(s) - 1) - 1 + 1 /\ 1 + i - 1 = i
    BY <1>1
  <2>3. QED
    BY <1>3, <1>4, <2>2
<1>8. QED
  BY <1>3, <1>4, <1>6, <1>7

LEMMA FrontOfAppend ==
    ASSUME NEW S, NEW s \in Seq(S), NEW e \in S
    PROVE  Front(Append(s, e)) = s
  BY DEF Front

LEMMA AppendFacts ==
    ASSUME NEW S, NEW s \in Seq(S), NEW e \in S
    PROVE  /\ Append(s, e) # << >>
           /\ Last(Append(s, e)) = e
           /\ Len(Append(s, e)) = Len(s) + 1
<1>1. Append(s, e) \in Seq(S) /\ Len(Append(s, e)) = Len(s) + 1 /\ Len(s) \in Nat
  OBVIOUS
<1>2. Append(s, e)[Len(s) + 1] = e
  OBVIOUS
<1>3. Len(<< >>) = 0
  OBVIOUS
<1>4. QED
  BY <1>1, <1>2, <1>3 DEF Last

LEMMA PrefixPointwise ==
    ASSUME NEW S, NEW s \in Seq(S), NEW t \in Seq(S)
    PROVE  IsPrefix(s, t)
             <=> (Len(s) <= Len(t) /\ \A i \in 1 .. Len(s) : s[i] = t[i])
<1>1. CASE Len(s) > Len(t)
  BY <1>1 DEF IsPrefix
<1>2. CASE Len(s) <= Len(t)
  <2>1. /\ SubSeq(s, 1, Len(s)) \in Seq(S) /\ SubSeq(t, 1, Len(s)) \in Seq(S)
        /\ Len(SubSeq(s, 1, Len(s))) = Len(s) /\ Len(SubSeq(t, 1, Len(s))) = Len(s)
        /\ \A i \in 1 .. Len(s) : /\ SubSeq(s, 1, Len(s))[i] = s[i]
                                  /\ SubSeq(t, 1, Len(s))[i] = t[i]
    BY <1>2
  <2>2. (\A i \in 1 .. Len(s) : s[i] = t[i])
          => SubSeq(s, 1, Len(s)) = SubSeq(t, 1, Len(s))
    BY <2>1, SeqEqual
  <2>3. SubSeq(s, 1, Len(s)) = SubSeq(t, 1, Len(s))
          => \A i \in 1 .. Len(s) : s[i] = t[i]
    BY <2>1
  <2>4. QED
    BY <1>2, <2>2, <2>3 DEF IsPrefix
<1>3. QED
  BY <1>1, <1>2

LEMMA PrefixRefl ==
    ASSUME NEW S, NEW s \in Seq(S)
    PROVE  IsPrefix(s, s) /\ IsPrefix(<< >>, s)
<1>1. << >> \in Seq(S) /\ Len(<< >>) = 0 /\ Len(s) \in Nat
  OBVIOUS
<1>2. IsPrefix(s, s)
  BY <1>1, PrefixPointwise
<1>3. Len(<< >>) <= Len(s) /\ \A i \in 1 .. Len(<< >>) : << >>[i] = s[i]
  BY <1>1
<1>4. IsPrefix(<< >>, s)
  BY <1>1, <1>3, PrefixPointwise
<1>5. QED
  BY <1>2, <1>4

LEMMA PrefixTrans ==
    ASSUME NEW S, NEW s \in Seq(S), NEW t \in Seq(S), NEW u \in Seq(S),
           IsPrefix(s, t), IsPrefix(t, u)
    PROVE  IsPrefix(s, u)
  BY PrefixPointwise

LEMMA PrefixAppend ==
    ASSUME NEW S, NEW s \in Seq(S), NEW t \in Seq(S), NEW e \in S, IsPrefix(s, t)
    PROVE  IsPrefix(s, Append(t, e))
<1>1. Append(t, e) \in Seq(S) /\ Len(Append(t, e)) = Len(t) + 1
  OBVIOUS
<1>2. \A i \in 1 .. Len(t) : Append(t, e)[i] = t[i]
  OBVIOUS
<1>3. Len(s) \in Nat /\ Len(t) \in Nat /\ Len(s) <= Len(t)
      /\ \A i \in 1 .. Len(s) : s[i] = t[i]
  BY PrefixPointwise
<1>4. Len(s) <= Len(Append(t, e)) /\ \A i \in 1 .. Len(s) : s[i] = Append(t, e)[i]
  BY <1>1, <1>2, <1>3
<1>5. QED
  BY <1>1, <1>4, PrefixPointwise

LEMMA PrefixFront ==
    ASSUME NEW S, NEW s \in Seq(S), s # << >>
    PROVE  IsPrefix(Front(s), s)
  BY FrontType, PrefixPointwise

(* Two prefixes of one sequence are comparable. *)
LEMMA PrefixSquare ==
    ASSUME NEW S, NEW s \in Seq(S), NEW t \in Seq(S), NEW u \in Seq(S),
           IsPrefix(s, u), IsPrefix(t, u), Len(s) <= Len(t)
    PROVE  IsPrefix(s, t)
  BY PrefixPointwise

LEMMA PrefixIsSubSeq ==
    ASSUME NEW S, NEW s \in Seq(S), NEW t \in Seq(S), IsPrefix(s, t)
    PROVE  Len(s) \in 0 .. Len(t) /\ s = SubSeq(t, 1, Len(s))
<1>1. Len(s) \in Nat /\ Len(t) \in Nat /\ Len(s) <= Len(t)
  BY PrefixPointwise
<1>2. /\ SubSeq(t, 1, Len(s)) \in Seq(S)
      /\ Len(SubSeq(t, 1, Len(s))) = Len(s)
      /\ \A i \in 1 .. Len(s) : SubSeq(t, 1, Len(s))[i] = t[i]
  BY <1>1
<1>3. QED
  BY <1>1, <1>2, PrefixPointwise, SeqEqual

LEMMA FrontLast ==
    ASSUME NEW S, NEW s \in Seq(S), s # << >>
    PROVE  Last(s) \in S /\ s = Append(Front(s), Last(s))
<1>1. Len(s) \in Nat \ {0}
  OBVIOUS
<1>2. Last(s) \in S
  BY <1>1 DEF Last
<1>3. Front(s) \in Seq(S) /\ Len(Front(s)) = Len(s) - 1
      /\ \A i \in 1 .. Len(s) - 1 : Front(s)[i] = s[i]
  BY FrontType
<1>4. /\ Append(Front(s), Last(s)) \in Seq(S)
      /\ Len(Append(Front(s), Last(s))) = Len(s)
      /\ \A i \in 1 .. Len(s) : Append(Front(s), Last(s))[i] = s[i]
  BY <1>1, <1>2, <1>3 DEF Last
<1>5. QED
  BY <1>2, <1>4, SeqEqual

-----------------------------------------------------------------------------
(* Type correctness. *)

LEMMA EventTyped == \A i \in 1 .. 4 : Order[i] \in States
  BY DEF States

(* The moves of the lock and of a process's place in an operation keep the *)
(* lock and the places in step.                                            *)
PlaceOK ==
    /\ lock \in [Roots -> Procs \cup {None}]
    /\ pc \in [Procs -> PcStates]
    /\ at \in [Procs -> Roots \cup {None}]
    /\ \A p \in Procs : (pc[p] = "idle") <=> (at[p] = None)
    /\ \A p \in Procs, r \in Roots : (at[p] = r) <=> (lock[r] = p)

LEMMA LeavePlace ==
    ASSUME PlaceOK, NEW p \in Procs, pc[p] # "idle", Leave(p)
    PROVE  PlaceOK'
<1>1. at[p] \in Roots
  BY DEF PlaceOK
<1>2. lock' \in [Roots -> Procs \cup {None}] /\ pc' \in [Procs -> PcStates]
      /\ at' \in [Procs -> Roots \cup {None}]
  BY DEF PlaceOK, Leave, PcStates
<1>3. \A q \in Procs : (pc'[q] = "idle") <=> (at'[q] = None)
  BY DEF PlaceOK, Leave
<1>4. \A q \in Procs, r \in Roots : (at'[q] = r) <=> (lock'[r] = q)
  BY <1>1, LifecycleAssumption DEF PlaceOK, Leave
<1>5. QED
  BY <1>2, <1>3, <1>4 DEF PlaceOK

LEMMA EnterPlace ==
    ASSUME PlaceOK, NEW p \in Procs, NEW r \in Roots, NEW to \in PcStates \ {"idle"},
           NEW chain, NEW e, pc[p] = "idle", Unlocked(r), Enter(p, r, to, chain, e)
    PROVE  PlaceOK'
<1>1. lock' \in [Roots -> Procs \cup {None}] /\ pc' \in [Procs -> PcStates]
      /\ at' \in [Procs -> Roots \cup {None}]
  BY DEF PlaceOK, Enter, PcStates
<1>2. \A q \in Procs : (pc'[q] = "idle") <=> (at'[q] = None)
  BY LifecycleAssumption DEF PlaceOK, Enter
<1>3. \A q \in Procs, s \in Roots : (at'[q] = s) <=> (lock'[s] = q)
  BY LifecycleAssumption DEF PlaceOK, Enter, Unlocked
<1>4. QED
  BY <1>1, <1>2, <1>3 DEF PlaceOK

LEMMA MovePlace ==
    ASSUME PlaceOK, NEW p \in Procs, NEW to \in PcStates \ {"idle"}, pc[p] # "idle",
           pc' = [pc EXCEPT ![p] = to], UNCHANGED <<lock, at>>
    PROVE  PlaceOK'
  BY DEF PlaceOK, PcStates

LEMMA SamePlace ==
    ASSUME PlaceOK, UNCHANGED <<lock, pc, at>>
    PROVE  PlaceOK'
  BY DEF PlaceOK

(* The data a step may write. *)
DataOK ==
    /\ manifest \in [Roots -> Manifests \cup {None}]
    /\ journal \in [Roots -> Chain]
    /\ head \in [Roots -> Chain]
    /\ anchor \in Chain
    /\ backup \in [manifest : Manifests \cup {None}, journal : Chain, head : Chain]
    /\ snap \in [Procs -> Chain]
    /\ entry \in [Procs -> Entry \cup {None}]
    /\ \A p \in Procs : pc[p] = "write" => entry[p] \in Entry
    /\ result \in [Procs -> Chain]
    /\ issued \subseteq Signature

LEMMA EnterData ==
    ASSUME PlaceOK, DataOK, NEW p \in Procs, NEW r \in Roots, NEW to,
           NEW chain \in Chain, NEW e \in Entry, Enter(p, r, to, chain, e)
    PROVE  /\ snap' \in [Procs -> Chain]
           /\ entry' \in [Procs -> Entry \cup {None}]
           /\ \A q \in Procs : pc'[q] = "write" => entry'[q] \in Entry
  BY DEF PlaceOK, DataOK, Enter

LEMMA TypeParts == TypeOK <=> (PlaceOK /\ DataOK)
  BY DEF TypeOK, PlaceOK, DataOK

LEMMA TypeInit == Init => TypeOK
<1>1. << >> \in Chain
  BY DEF Chain
<1>2. QED
  BY <1>1, LifecycleAssumption DEF Init, TypeOK, PcStates

(* One step per action: the place by one of the four lemmas above, the     *)
(* data from the types of what the action writes.                          *)
LEMMA TypeStep == TypeOK /\ [Next]_vars => TypeOK'
<1> SUFFICES ASSUME PlaceOK, DataOK, [Next]_vars
             PROVE  PlaceOK' /\ DataOK'
  BY TypeParts DEF TypeOK, PlaceOK, DataOK
<1> USE LifecycleAssumption
<1>0. << >> \in Chain
  BY DEF Chain
<1>1. ASSUME NEW p \in Procs, NEW r \in Roots, NEW m \in Manifests, Initialize(p, r, m)
      PROVE  PlaceOK' /\ DataOK'
  BY <1>0, <1>1, SamePlace DEF Initialize, DataOK, local
<1>2. ASSUME NEW p \in Procs, NEW r \in Roots, NEW m \in Manifests,
             Load(p, r, m) \/ RefuseAppend(p, r, m)
      PROVE  PlaceOK' /\ DataOK'
  BY <1>2, SamePlace DEF Load, RefuseAppend, RepairHead, DataOK, local
<1>3. ASSUME NEW p \in Procs, NEW r \in Roots, NEW m \in Manifests, BeginAppend(p, r, m)
      PROVE  PlaceOK' /\ DataOK'
  <2>1. PICK event \in Event, sigs \in SUBSET issued :
           Enter(p, r, "write", journal[r], [event |-> event, keys |-> {s.key : s \in sigs}])
    BY <1>3 DEF BeginAppend
  <2>2. [event |-> event, keys |-> {s.key : s \in sigs}] \in Entry
    BY DEF DataOK, Signature, Entry
  <2>3. PlaceOK'
    BY <1>3, <2>1, EnterPlace DEF BeginAppend, PcStates
  <2>4. journal[r] \in Chain
    BY DEF DataOK
  <2>5. /\ snap' \in [Procs -> Chain]
        /\ entry' \in [Procs -> Entry \cup {None}]
        /\ \A q \in Procs : pc'[q] = "write" => entry'[q] \in Entry
    BY <2>1, <2>2, <2>4, EnterData
  <2>6. DataOK'
    BY <1>3, <2>5 DEF BeginAppend, RepairHead, DataOK
  <2>7. QED
    BY <2>3, <2>6
<1>4. ASSUME NEW p \in Procs, NEW r \in Roots, NEW m \in Manifests, BeginRecover(p, r, m)
      PROVE  PlaceOK' /\ DataOK'
  <2>1. journal[r] \in Chain /\ Front(journal[r]) \in Chain
    BY <1>4, FrontType DEF BeginRecover, DataOK, Chain
  <2>2. PlaceOK'
    BY <1>4, EnterPlace DEF BeginRecover, PcStates
  <2>3. DataOK'
    BY <1>4, <2>1 DEF BeginRecover, Enter, RepairHead, DataOK, PlaceOK
  <2>4. QED
    BY <2>2, <2>3
<1>5. ASSUME NEW p \in Procs, WriteJournal(p)
      PROVE  PlaceOK' /\ DataOK'
  <2>1. at[p] \in Roots /\ Append(snap[p], entry[p]) \in Chain
    BY <1>5 DEF PlaceOK, DataOK, WriteJournal, Chain
  <2>2. PlaceOK'
    BY <1>5, MovePlace DEF WriteJournal, PcStates
  <2>3. DataOK'
    BY <1>5, <2>1 DEF WriteJournal, DataOK, PlaceOK
  <2>4. QED
    BY <2>2, <2>3
<1>6. ASSUME NEW p \in Procs, AnchorCas(p)
      PROVE  PlaceOK' /\ DataOK'
  <2>1. at[p] \in Roots
    BY <1>6 DEF PlaceOK, AnchorCas
  <2>2. PlaceOK'
    BY <1>6, MovePlace DEF AnchorCas, PcStates
  <2>3. DataOK'
    BY <1>6, <2>1 DEF AnchorCas, DataOK, files
  <2>4. QED
    BY <2>2, <2>3
<1>7. ASSUME NEW p \in Procs, AnchorCasStale(p) \/ Interrupt(p)
      PROVE  PlaceOK' /\ DataOK'
  <2>1. PlaceOK'
    BY <1>7, LeavePlace DEF AnchorCasStale, Interrupt
  <2>2. DataOK'
    BY <1>0, <1>7 DEF AnchorCasStale, Interrupt, Leave, DataOK, PlaceOK, files
  <2>3. QED
    BY <2>1, <2>2
<1>8. ASSUME NEW p \in Procs, PublishHead(p)
      PROVE  PlaceOK' /\ DataOK'
  <2>1. at[p] \in Roots
    BY <1>8 DEF PlaceOK, PublishHead
  <2>2. PlaceOK'
    BY <1>8, LeavePlace DEF PublishHead
  <2>3. DataOK'
    BY <1>0, <1>8, <2>1 DEF PublishHead, RepairHead, Leave, DataOK
  <2>4. QED
    BY <2>2, <2>3
<1>9. ASSUME NEW p \in Procs, RecoverRead(p)
      PROVE  PlaceOK' /\ DataOK'
  <2>1. PlaceOK'
    BY <1>9, MovePlace, LeavePlace DEF RecoverRead, PcStates
  <2>2. DataOK'
    BY <1>0, <1>9 DEF RecoverRead, Leave, DataOK, PlaceOK, files
  <2>3. QED
    BY <2>1, <2>2
<1>10. ASSUME NEW k \in Keys, NEW event \in Event, Sign(k, event)
       PROVE  PlaceOK' /\ DataOK'
  <2>1. PICK chain \in {anchor} \cup {journal[r] : r \in Roots} :
           issued' = issued \cup {[key |-> k, over |-> chain, event |-> event]}
    BY <1>10 DEF Sign
  <2>2. chain \in Chain
    BY DEF DataOK
  <2>3. [key |-> k, over |-> chain, event |-> event] \in Signature
    BY <1>10, <2>2 DEF Signature
  <2>4. issued' \subseteq Signature
    BY <2>1, <2>3 DEF DataOK
  <2>5. QED
    BY <1>10, <2>4, SamePlace DEF Sign, DataOK, files, local
<1>11. ASSUME NEW r \in Roots, CopyRoot(r) \/ RestoreRoot(r)
       PROVE  PlaceOK' /\ DataOK'
  BY <1>11, SamePlace DEF CopyRoot, RestoreRoot, DataOK, files, local
<1>12. CASE UNCHANGED vars
  BY <1>12, SamePlace DEF vars, DataOK
<1>13. QED
  BY <1>1, <1>2, <1>3, <1>4, <1>5, <1>6, <1>7, <1>8, <1>9, <1>10, <1>11, <1>12
  DEF Next, StoreNext, SignerNext, OperatorNext, Step, Call

(* The state always has its type, and a root's lock is held exactly by the *)
(* process inside an operation on it: the guarantee of _exclusive_lock.    *)
THEOREM TypeCorrect == Spec => []TypeOK
<1>1. Init => TypeOK
  BY TypeInit
<1>2. TypeOK /\ [Next]_vars => TypeOK'
  BY TypeStep
<1>3. QED
  BY <1>1, <1>2, PTL DEF Spec

-----------------------------------------------------------------------------
(* The inductive invariant, over values: what holds of a root (or a copy   *)
(* of one) and of a process inside an operation.                           *)
RootOK(j, h, a) ==
    /\ j # << >> => IsPrefix(Front(j), a)
    /\ IsPrefix(h, a)
    /\ IsPrefix(h, j)

FlightOK(c, j, a, s, e, res) ==
    /\ c = "write" =>
          s = j /\ IsPrefix(s, a) /\ MayFollow(s, e) /\ Len(res) <= Len(s)
    /\ c \in {"cas", "recheck"} =>
          j # << >> /\ s = Front(j) /\ MayFollow(s, Last(j)) /\ Len(res) <= Len(j)
    /\ c = "publish" => IsPrefix(j, a) /\ Len(res) <= Len(j)

Parts ==
    /\ PlaceOK /\ DataOK
    /\ \A r \in Roots : RootOK(journal[r], head[r], anchor)
    /\ RootOK(backup.journal, backup.head, anchor)
    /\ \A p \in Procs : IsPrefix(result[p], anchor)
    /\ \A p \in Procs :
          FlightOK(pc[p], journal[at[p]], anchor, snap[p], entry[p], result[p])

LEMMA InvParts == StoreInv <=> Parts
  BY TypeParts DEF StoreInv, OnePendingEntry, CommittedReads, HeadNeverAhead,
     BackupCommitted, Appending, Committing, Publishing, RootOK, FlightOK, Parts

LEMMA RootGrows ==
    ASSUME NEW j \in Chain, NEW h \in Chain, NEW a \in Chain, NEW b \in Chain,
           RootOK(j, h, a), IsPrefix(a, b)
    PROVE  RootOK(j, h, b)
  BY FrontType, PrefixTrans DEF RootOK, Chain

LEMMA RootCommitted ==
    ASSUME NEW j \in Chain, NEW a \in Chain, IsPrefix(j, a)
    PROVE  RootOK(j, j, a)
<1>1. j # << >> => Front(j) \in Chain /\ IsPrefix(Front(j), j)
  BY FrontType, PrefixFront DEF Chain
<1>2. j # << >> => IsPrefix(Front(j), a)
  BY <1>1, PrefixTrans DEF Chain
<1>3. QED
  BY <1>2, PrefixRefl DEF RootOK, Chain

LEMMA RootAppends ==
    ASSUME NEW j \in Chain, NEW h \in Chain, NEW a \in Chain, NEW e \in Entry,
           RootOK(j, h, a), IsPrefix(j, a)
    PROVE  RootOK(Append(j, e), h, a)
<1>1. Front(Append(j, e)) = j
  BY FrontOfAppend DEF Chain
<1>2. IsPrefix(h, Append(j, e))
  BY PrefixAppend DEF RootOK, Chain
<1>3. QED
  BY <1>1, <1>2 DEF RootOK

LEMMA FlightGrows ==
    ASSUME NEW c, NEW j \in Chain, NEW a \in Chain, NEW b \in Chain, NEW s \in Chain,
           NEW e, NEW res, FlightOK(c, j, a, s, e, res), IsPrefix(a, b)
    PROVE  FlightOK(c, j, b, s, e, res)
  BY PrefixTrans DEF FlightOK, Chain

LEMMA IdleFlight ==
    ASSUME NEW j, NEW a, NEW s, NEW e, NEW res
    PROVE  FlightOK("idle", j, a, s, e, res)
  BY DEF FlightOK

LEMMA StoreInvInit == Init => StoreInv
<1>0. << >> \in Seq(Entry)
  OBVIOUS
<1>1. IsPrefix(<< >>, << >>)
  BY <1>0, PrefixRefl
<1>2. Init => PlaceOK /\ DataOK
  BY TypeInit, TypeParts
<1>3. Init => Parts
  BY <1>1, <1>2 DEF Init, Parts, RootOK, FlightOK
<1>4. QED
  BY <1>3, InvParts

(* A process that the step does not touch, and whose journal the lock      *)
(* protects from the step, keeps its part of the invariant.                *)
LEMMA OthersFlight ==
    ASSUME Parts, NEW q \in Procs, anchor' \in Chain, IsPrefix(anchor, anchor'),
           pc'[q] = pc[q], at'[q] = at[q], snap'[q] = snap[q],
           entry'[q] = entry[q], result'[q] = result[q],
           pc[q] # "idle" => journal'[at[q]] = journal[at[q]]
    PROVE  FlightOK(pc'[q], journal'[at'[q]], anchor', snap'[q], entry'[q], result'[q])
<1>1. CASE pc[q] = "idle"
  BY <1>1, IdleFlight
<1>2. CASE pc[q] # "idle"
  <2>1. at[q] \in Roots
    BY <1>2 DEF Parts, PlaceOK
  <2>2. journal[at[q]] \in Chain /\ anchor \in Chain /\ snap[q] \in Chain
    BY <2>1 DEF Parts, DataOK
  <2>3. FlightOK(pc[q], journal[at[q]], anchor, snap[q], entry[q], result[q])
    BY DEF Parts
  <2>4. FlightOK(pc[q], journal[at[q]], anchor', snap[q], entry[q], result[q])
    BY <2>2, <2>3, FlightGrows
  <2>5. QED
    BY <1>2, <2>4
<1>3. QED
  BY <1>1, <1>2

(* The roots, the copy and the answers survive any growth of the anchor.   *)
LEMMA GrowthKeeps ==
    ASSUME Parts, anchor' \in Chain, IsPrefix(anchor, anchor')
    PROVE  /\ \A r \in Roots : RootOK(journal[r], head[r], anchor')
           /\ RootOK(backup.journal, backup.head, anchor')
           /\ \A p \in Procs : IsPrefix(result[p], anchor')
<1>1. \A r \in Roots : RootOK(journal[r], head[r], anchor')
  BY RootGrows DEF Parts, DataOK
<1>2. RootOK(backup.journal, backup.head, anchor')
  BY RootGrows DEF Parts, DataOK
<1>3. \A p \in Procs : IsPrefix(result[p], anchor')
  BY PrefixTrans DEF Parts, DataOK, Chain
<1>4. QED
  BY <1>1, <1>2, <1>3

LEMMA StoreInvStep == StoreInv /\ [Next]_vars => StoreInv'
<1> SUFFICES ASSUME Parts, [Next]_vars, PlaceOK', DataOK'
             PROVE  /\ (\A r \in Roots : RootOK(journal[r], head[r], anchor))'
                    /\ RootOK(backup.journal, backup.head, anchor)'
                    /\ (\A p \in Procs : IsPrefix(result[p], anchor))'
                    /\ (\A p \in Procs : FlightOK(pc[p], journal[at[p]], anchor,
                                                  snap[p], entry[p], result[p]))'
  <2>1. StoreInv => Parts
    BY InvParts
  <2>2. StoreInv /\ [Next]_vars => PlaceOK' /\ DataOK'
    BY TypeStep DEF StoreInv, TypeOK, PlaceOK, DataOK
  <2>3. Parts' => StoreInv'
    BY DEF StoreInv, TypeOK, OnePendingEntry, CommittedReads, HeadNeverAhead,
       BackupCommitted, Appending, Committing, Publishing, RootOK, FlightOK,
       Parts, PlaceOK, DataOK
  <2>4. QED
    BY <2>1, <2>2, <2>3 DEF Parts
<1> DEFINE Goal ==
             /\ (\A r \in Roots : RootOK(journal[r], head[r], anchor))'
             /\ RootOK(backup.journal, backup.head, anchor)'
             /\ (\A p \in Procs : IsPrefix(result[p], anchor))'
             /\ (\A p \in Procs : FlightOK(pc[p], journal[at[p]], anchor,
                                           snap[p], entry[p], result[p]))'
<1> USE LifecycleAssumption
<1>a. /\ anchor \in Chain /\ IsPrefix(anchor, anchor)
      /\ \A r \in Roots : journal[r] \in Chain /\ head[r] \in Chain
      /\ backup.journal \in Chain /\ backup.head \in Chain
  BY PrefixRefl DEF Parts, DataOK, Chain
<1>b. \A r \in Roots : journal[r] = anchor => RootOK(journal[r], journal[r], anchor)
  BY <1>a, RootCommitted
<1>1. ASSUME NEW p \in Procs, NEW r \in Roots, NEW m \in Manifests, Initialize(p, r, m)
      PROVE  Goal
  <2>1. result' = result
    BY <1>1, <1>a, PrefixPointwise DEF Initialize, Parts, DataOK, Chain
  <2>2. QED
    BY <1>1, <2>1 DEF Initialize, Parts, local
<1>2. ASSUME NEW p \in Procs, NEW r \in Roots, NEW m \in Manifests,
             Load(p, r, m) \/ RefuseAppend(p, r, m)
      PROVE  Goal
  <2>1. anchor = journal[r] /\ pc[p] = "idle"
    BY <1>2 DEF Load, RefuseAppend, LoadAccepts
  <2>2. UNCHANGED <<journal, anchor, backup, pc, at, snap, entry>>
        /\ head' = [head EXCEPT ![r] = journal[r]]
    BY <1>2 DEF Load, RefuseAppend, RepairHead, local
  <2>3. \A q \in Procs : q # p => result'[q] = result[q]
    BY <1>2 DEF Load, RefuseAppend, Parts, DataOK
  <2>4. IsPrefix(result'[p], anchor)
    BY <1>2, <1>a, <2>1 DEF Load, RefuseAppend, Parts, DataOK
  <2>5. (\A s \in Roots : RootOK(journal[s], head[s], anchor))'
    BY <1>b, <2>1, <2>2 DEF Parts, DataOK
  <2>6. \A q \in Procs : FlightOK(pc'[q], journal'[at'[q]], anchor', snap'[q],
                                  entry'[q], result'[q])
    BY <2>1, <2>2, <2>3, <1>a, IdleFlight, OthersFlight
  <2>7. QED
    BY <2>2, <2>3, <2>4, <2>5, <2>6 DEF Parts
<1>3. ASSUME NEW p \in Procs, NEW r \in Roots, NEW m \in Manifests,
             BeginAppend(p, r, m) \/ BeginRecover(p, r, m)
      PROVE  Goal
  <2>1. UNCHANGED <<journal, anchor, backup, result>> /\ pc[p] = "idle"
    BY <1>3 DEF BeginAppend, BeginRecover
  <2>2. (\A s \in Roots : RootOK(journal[s], head[s], anchor))'
    BY <1>3, <1>b, <2>1 DEF BeginAppend, BeginRecover, RepairHead, LoadAccepts, Parts, DataOK
  <2>3. \A q \in Procs : q # p =>
           pc'[q] = pc[q] /\ at'[q] = at[q] /\ snap'[q] = snap[q] /\ entry'[q] = entry[q]
    BY <1>3 DEF BeginAppend, BeginRecover, Enter, Parts, PlaceOK, DataOK
  <2>4. FlightOK(pc'[p], journal'[at'[p]], anchor', snap'[p], entry'[p], result'[p])
    <3>1. CASE BeginAppend(p, r, m)
      <4>1. PICK event \in Event, sigs \in SUBSET issued :
               /\ Continues(journal[r], event)
               /\ Verified(sigs, journal[r], event)
               /\ Enter(p, r, "write", journal[r],
                        [event |-> event, keys |-> {s.key : s \in sigs}])
        BY <3>1 DEF BeginAppend
      <4>2. MayFollow(journal[r], [event |-> event, keys |-> {s.key : s \in sigs}])
        BY <4>1 DEF Verified, MayFollow
      <4>3. pc'[p] = "write" /\ at'[p] = r /\ snap'[p] = journal[r]
            /\ entry'[p] = [event |-> event, keys |-> {s.key : s \in sigs}]
        BY <4>1 DEF Enter, Parts, PlaceOK, DataOK
      <4>4. anchor = journal[r] /\ result[p] = journal[r]
        BY <3>1 DEF BeginAppend, LoadAccepts
      <4>5. Len(result[p]) <= Len(journal[r])
        BY <4>4, <1>a DEF Chain
      <4>6. QED
        BY <2>1, <4>2, <4>3, <4>4, <4>5, <1>a DEF FlightOK
    <3>2. CASE BeginRecover(p, r, m)
      <4>1. /\ journal[r] # << >> /\ Replays(journal[r])
            /\ anchor = journal[r] \/ anchor = Front(journal[r])
        BY <3>2 DEF BeginRecover, LoadAccepts, PendingAccepts
      <4>2. pc'[p] = "recheck" /\ at'[p] = r /\ snap'[p] = Front(journal[r])
        BY <3>2 DEF BeginRecover, Enter, Parts, PlaceOK, DataOK
      <4>3. MayFollow(Front(journal[r]), Last(journal[r]))
        <5>1. Len(journal[r]) \in 1 .. Len(journal[r])
          BY <1>a, <4>1 DEF Chain
        <5>2. MayFollow(SubSeq(journal[r], 1, Len(journal[r]) - 1),
                        journal[r][Len(journal[r])])
          BY <4>1, <5>1 DEF Replays
        <5>3. QED
          BY <5>2 DEF Front, Last
      <4>4. Len(result[p]) <= Len(journal[r])
        <5>1. Len(result[p]) <= Len(anchor)
          BY <1>a, PrefixPointwise DEF Parts, DataOK, Chain
        <5>2. CASE anchor = journal[r]
          BY <5>1, <5>2
        <5>3. CASE anchor = Front(journal[r])
          <6>1. Len(anchor) = Len(journal[r]) - 1
            BY <1>a, <4>1, <5>3, FrontType DEF Chain
          <6>2. Len(journal[r]) \in Nat /\ Len(result[p]) \in Nat
            BY <1>a DEF Parts, DataOK, Chain
          <6>3. QED
            BY <5>1, <6>1, <6>2
        <5>4. QED
          BY <4>1, <5>2, <5>3
      <4>5. QED
        BY <2>1, <4>1, <4>2, <4>3, <4>4 DEF FlightOK
    <3>3. QED
      BY <1>3, <3>1, <3>2
  <2>5. \A q \in Procs : FlightOK(pc'[q], journal'[at'[q]], anchor', snap'[q],
                                  entry'[q], result'[q])
    BY <2>1, <2>3, <2>4, <1>a, OthersFlight
  <2>6. QED
    BY <2>1, <2>2, <2>5 DEF Parts
<1>5. ASSUME NEW p \in Procs, WriteJournal(p)
      PROVE  Goal
  <2>1. PICK r \in Roots : r = at[p]
    BY <1>5 DEF WriteJournal, Parts, PlaceOK
  <2>2. /\ snap[p] = journal[r] /\ IsPrefix(journal[r], anchor)
        /\ MayFollow(journal[r], entry[p]) /\ Len(result[p]) <= Len(journal[r])
    BY <1>5, <2>1 DEF WriteJournal, Parts, FlightOK
  <2>3. entry[p] \in Entry
    BY <1>5 DEF WriteJournal, Parts, DataOK
  <2>4. journal' = [journal EXCEPT ![r] = Append(journal[r], entry[p])]
        /\ pc' = [pc EXCEPT ![p] = "cas"]
        /\ UNCHANGED <<head, anchor, backup, at, snap, entry, result>>
    BY <1>5, <2>1, <2>2 DEF WriteJournal
  <2>5. (\A s \in Roots : RootOK(journal[s], head[s], anchor))'
    BY <1>a, <2>2, <2>3, <2>4, RootAppends DEF Parts, DataOK
  <2>6. FlightOK(pc'[p], journal'[at'[p]], anchor', snap'[p], entry'[p], result'[p])
    <3>1. journal'[at'[p]] = Append(journal[r], entry[p]) /\ pc'[p] = "cas"
      BY <2>1, <2>4 DEF Parts, DataOK, PlaceOK
    <3>2. /\ Append(journal[r], entry[p]) # << >>
          /\ Front(Append(journal[r], entry[p])) = journal[r]
          /\ Last(Append(journal[r], entry[p])) = entry[p]
          /\ Len(Append(journal[r], entry[p])) = Len(journal[r]) + 1
      BY <1>a, <2>3, FrontOfAppend, AppendFacts DEF Chain
    <3>3. Len(journal[r]) \in Nat /\ Len(result[p]) \in Nat
      BY <1>a DEF Parts, DataOK, Chain
    <3>4. snap'[p] = journal[r] /\ result'[p] = result[p]
      BY <2>2, <2>4
    <3>5. Len(result[p]) <= Len(journal[r]) + 1
      BY <2>2, <3>3
    <3>6. QED
      BY <2>2, <3>1, <3>2, <3>4, <3>5 DEF FlightOK
  <2>7. \A q \in Procs : q # p /\ pc[q] # "idle" => journal'[at[q]] = journal[at[q]]
    BY <2>1, <2>4 DEF Parts, PlaceOK, DataOK
  <2>8. \A q \in Procs : FlightOK(pc'[q], journal'[at'[q]], anchor', snap'[q],
                                  entry'[q], result'[q])
    BY <1>a, <2>4, <2>6, <2>7, OthersFlight DEF Parts, PlaceOK
  <2>9. QED
    BY <2>4, <2>5, <2>8 DEF Parts
<1>6. ASSUME NEW p \in Procs, AnchorCas(p)
      PROVE  Goal
  <2>1. PICK r \in Roots : r = at[p]
    BY <1>6 DEF AnchorCas, Parts, PlaceOK
  <2>2. journal[r] # << >> /\ anchor = Front(journal[r]) /\ Len(result[p]) <= Len(journal[r])
    BY <1>6, <2>1 DEF AnchorCas, Parts, FlightOK
  <2>3. anchor' = journal[r] /\ pc' = [pc EXCEPT ![p] = "publish"]
        /\ UNCHANGED <<journal, head, backup, at, snap, entry, result>>
    BY <1>6, <2>1 DEF AnchorCas, files
  <2>4. anchor' \in Chain /\ IsPrefix(anchor, anchor')
    BY <1>a, <2>2, <2>3, PrefixFront DEF Chain
  <2>5. FlightOK(pc'[p], journal'[at'[p]], anchor', snap'[p], entry'[p], result'[p])
    BY <1>a, <2>1, <2>2, <2>3, PrefixRefl DEF FlightOK, Chain, Parts, PlaceOK
  <2>6. \A q \in Procs : FlightOK(pc'[q], journal'[at'[q]], anchor', snap'[q],
                                  entry'[q], result'[q])
    BY <2>3, <2>4, <2>5, OthersFlight DEF Parts, PlaceOK
  <2>7. QED
    BY <2>3, <2>4, <2>6, GrowthKeeps
<1>7. ASSUME NEW p \in Procs, AnchorCasStale(p) \/ Interrupt(p)
      PROVE  Goal
  <2>1. Leave(p) /\ UNCHANGED <<journal, head, anchor, backup, result>>
    BY <1>7 DEF AnchorCasStale, Interrupt, files
  <2>2. pc'[p] = "idle"
    BY <2>1 DEF Leave, Parts, PlaceOK
  <2>3. \A q \in Procs : FlightOK(pc'[q], journal'[at'[q]], anchor', snap'[q],
                                  entry'[q], result'[q])
    BY <1>a, <2>1, <2>2, IdleFlight, OthersFlight DEF Leave, Parts, PlaceOK, DataOK
  <2>4. QED
    BY <2>1, <2>3 DEF Parts
<1>8. ASSUME NEW p \in Procs, PublishHead(p)
      PROVE  Goal
  <2>1. PICK r \in Roots : r = at[p]
    BY <1>8 DEF PublishHead, Parts, PlaceOK
  <2>2. IsPrefix(journal[r], anchor)
    BY <1>8, <2>1 DEF PublishHead, Parts, FlightOK
  <2>3. /\ head' = [head EXCEPT ![r] = journal[r]]
        /\ result' = [result EXCEPT ![p] = journal[r]]
        /\ Leave(p) /\ UNCHANGED <<journal, anchor, backup>>
    BY <1>8, <2>1 DEF PublishHead, RepairHead
  <2>4. (\A s \in Roots : RootOK(journal[s], head[s], anchor))'
    BY <1>a, <2>2, <2>3, RootCommitted DEF Parts, DataOK
  <2>5. (\A q \in Procs : IsPrefix(result[q], anchor))'
    BY <2>2, <2>3 DEF Parts, DataOK
  <2>6. pc'[p] = "idle"
    BY <2>3 DEF Leave, Parts, PlaceOK
  <2>7. \A q \in Procs : FlightOK(pc'[q], journal'[at'[q]], anchor', snap'[q],
                                  entry'[q], result'[q])
    BY <1>a, <2>3, <2>6, IdleFlight, OthersFlight DEF Leave, Parts, PlaceOK, DataOK
  <2>8. QED
    BY <2>3, <2>4, <2>5, <2>7 DEF Parts
<1>9. ASSUME NEW p \in Procs, RecoverRead(p)
      PROVE  Goal
  <2>1. UNCHANGED <<journal, head, anchor, backup, result>> /\ pc[p] = "recheck"
    BY <1>9 DEF RecoverRead, files
  <2>2. \A q \in Procs : q # p =>
           pc'[q] = pc[q] /\ at'[q] = at[q] /\ snap'[q] = snap[q] /\ entry'[q] = entry[q]
    BY <1>9 DEF RecoverRead, Leave, Parts, PlaceOK, DataOK
  <2>3. PICK r \in Roots : r = at[p]
    BY <2>1 DEF Parts, PlaceOK
  <2>4. /\ journal[r] # << >> /\ snap[p] = Front(journal[r])
        /\ MayFollow(snap[p], Last(journal[r])) /\ Len(result[p]) <= Len(journal[r])
    BY <2>1, <2>3 DEF Parts, FlightOK
  <2>5. FlightOK(pc'[p], journal'[at'[p]], anchor', snap'[p], entry'[p], result'[p])
    <3>1. CASE /\ anchor = journal[at[p]] /\ pc' = [pc EXCEPT ![p] = "publish"]
               /\ UNCHANGED <<lock, at, snap, entry>>
      BY <1>a, <2>1, <2>3, <2>4, <3>1 DEF FlightOK, Parts, PlaceOK
    <3>2. CASE /\ anchor = snap[p] /\ pc' = [pc EXCEPT ![p] = "cas"]
               /\ UNCHANGED <<lock, at, snap, entry>>
      BY <2>1, <2>3, <2>4, <3>2 DEF FlightOK, Parts, PlaceOK
    <3>3. CASE Leave(p)
      BY <3>3, IdleFlight DEF Leave, Parts, PlaceOK
    <3>4. QED
      BY <1>9, <3>1, <3>2, <3>3 DEF RecoverRead
  <2>6. \A q \in Procs : FlightOK(pc'[q], journal'[at'[q]], anchor', snap'[q],
                                  entry'[q], result'[q])
    BY <1>a, <2>1, <2>2, <2>5, OthersFlight
  <2>7. QED
    BY <2>1, <2>6 DEF Parts
<1>10. ASSUME NEW k \in Keys, NEW event \in Event, Sign(k, event)
       PROVE  Goal
  BY <1>10 DEF Sign, files, local, Parts
<1>11. ASSUME NEW r \in Roots, CopyRoot(r) \/ RestoreRoot(r)
       PROVE  Goal
  <2>1. UNCHANGED <<anchor, pc, at, snap, entry, result>>
    BY <1>11 DEF CopyRoot, RestoreRoot, local
  <2>2. (\A s \in Roots : RootOK(journal[s], head[s], anchor))'
    BY <1>11 DEF CopyRoot, RestoreRoot, files, Parts, DataOK
  <2>3. RootOK(backup.journal, backup.head, anchor)'
    BY <1>11 DEF CopyRoot, RestoreRoot, Parts
  <2>4. \A q \in Procs : pc[q] # "idle" => journal'[at[q]] = journal[at[q]]
    BY <1>11 DEF CopyRoot, RestoreRoot, Unlocked, files, Parts, PlaceOK, DataOK
  <2>5. \A q \in Procs : FlightOK(pc'[q], journal'[at'[q]], anchor', snap'[q],
                                  entry'[q], result'[q])
    BY <1>a, <2>1, <2>4, OthersFlight
  <2>6. QED
    BY <2>1, <2>2, <2>3, <2>5 DEF Parts
<1>12. CASE UNCHANGED vars
  BY <1>12 DEF vars, Parts
<1>13. QED
  BY <1>1, <1>2, <1>3, <1>5, <1>6, <1>7, <1>8, <1>9, <1>10, <1>11, <1>12
  DEF Next, StoreNext, SignerNext, OperatorNext, Step, Call

-----------------------------------------------------------------------------
(* The theorems. *)

(* The invariant of the store, whatever is signed, copied, rolled back or  *)
(* cut short by a crash between any two steps.                             *)
THEOREM StoreInvariant == Spec => []StoreInv
<1>1. Init => StoreInv
  BY StoreInvInit
<1>2. StoreInv /\ [Next]_vars => StoreInv'
  BY StoreInvStep
<1>3. QED
  BY <1>1, <1>2, PTL DEF Spec

(* However appends are interrupted, roots copied and rolled back, no       *)
(* journal ever holds more than one entry that is not committed.           *)
THEOREM AtMostOnePending == Spec => []OnePendingEntry
<1>1. StoreInv => OnePendingEntry
  BY DEF StoreInv
<1>2. QED
  BY <1>1, StoreInvariant, PTL

(* No answer of the store, from any root, shows an uncommitted entry.      *)
THEOREM ReadsAreCommitted == Spec => []CommittedReads
<1>1. StoreInv => CommittedReads
  BY DEF StoreInv
<1>2. QED
  BY <1>1, StoreInvariant, PTL

(* head.json never runs ahead of what is committed.                        *)
THEOREM HeadIsCommitted == Spec => []HeadNeverAhead
<1>1. StoreInv => HeadNeverAhead
  BY DEF StoreInv
<1>2. QED
  BY <1>1, StoreInvariant, PTL

(* What an append or a recovery commits: the chain below is untouched and  *)
(* the new entry is a legal next transition of it.                         *)
LEMMA CasCommits ==
    ASSUME StoreInv, NEW p \in Procs, AnchorCas(p)
    PROVE  \E e \in Entry : MayFollow(anchor, e) /\ anchor' = Append(anchor, e)
<1>1. at[p] \in Roots /\ journal[at[p]] \in Seq(Entry) /\ journal[at[p]] # << >>
      /\ anchor = Front(journal[at[p]]) /\ anchor' = journal[at[p]]
      /\ MayFollow(anchor, Last(journal[at[p]]))
  BY DEF AnchorCas, StoreInv, Committing, TypeOK, Chain
<1>2. Last(journal[at[p]]) \in Entry
      /\ journal[at[p]] = Append(Front(journal[at[p]]), Last(journal[at[p]]))
  BY <1>1, FrontLast
<1>3. QED
  BY <1>1, <1>2

(* Nothing but the compare-and-set writes the anchor. *)
LEMMA OnlyCasWritesAnchor ==
    ASSUME [Next]_vars
    PROVE  (\E p \in Procs : AnchorCas(p)) \/ UNCHANGED anchor
  BY DEF Next, StoreNext, SignerNext, OperatorNext, Step, Call, vars, files,
     Initialize, Load, RefuseAppend, BeginAppend, BeginRecover, WriteJournal,
     AnchorCasStale, PublishHead, RecoverRead, Interrupt, Sign, CopyRoot, RestoreRoot

(* The anchor is a monotonic watermark. *)
THEOREM AnchorMonotonic == Spec => AnchorExtends
<1>1. StoreInv /\ [Next]_vars => [IsPrefix(anchor, anchor')]_vars
  <2>1. SUFFICES ASSUME StoreInv, [Next]_vars
                 PROVE  IsPrefix(anchor, anchor')
    OBVIOUS
  <2>2. anchor \in Seq(Entry)
    BY <2>1 DEF StoreInv, TypeOK, Chain
  <2>3. CASE UNCHANGED anchor
    BY <2>2, <2>3, PrefixRefl
  <2>4. CASE \E p \in Procs : AnchorCas(p)
    BY <2>1, <2>2, <2>4, CasCommits, PrefixAppend, PrefixRefl
  <2>5. QED
    BY <2>1, <2>3, <2>4, OnlyCasWritesAnchor
<1>2. QED
  BY <1>1, StoreInvariant, PTL DEF Spec, AnchorExtends

(* The actions that answer a caller. *)
LEMMA WhoAnswers ==
    ASSUME TypeOK, [Next]_vars
    PROVE  \/ UNCHANGED result
           \/ \E p \in Procs, r \in Roots, m \in Manifests :
                 Initialize(p, r, m) \/ Load(p, r, m)
           \/ \E p \in Procs : PublishHead(p)
  BY DEF Next, StoreNext, SignerNext, OperatorNext, Step, Call, vars, files, local,
     RefuseAppend, BeginAppend, BeginRecover, WriteJournal,
     AnchorCas, AnchorCasStale, RecoverRead, Interrupt, Sign, CopyRoot, RestoreRoot

(* A fresh directory never answers with less than was seen before. *)
LEMMA InitializeAnswers ==
    ASSUME StoreInv, NEW p \in Procs, NEW r \in Roots, NEW m \in Manifests,
           Initialize(p, r, m)
    PROVE  result' = result
<1>1. CASE anchor = << >>
  <2>1. IsPrefix(result[p], << >>) /\ result[p] \in Seq(Entry) /\ << >> \in Seq(Entry)
    BY <1>1 DEF StoreInv, CommittedReads, TypeOK, Chain
  <2>2. Len(result[p]) <= Len(<< >>)
    BY <2>1, PrefixPointwise
  <2>3. result[p] = << >>
    BY <2>1, <2>2
  <2>4. QED
    BY <1>1, <2>3 DEF Initialize, StoreInv, TypeOK
<1>2. CASE anchor # << >>
  BY <1>2 DEF Initialize
<1>3. QED
  BY <1>1, <1>2

(* load() returns at least what anyone was shown before. *)
THEOREM LoadsAreFresh == Spec => FreshLoad
<1>1. ASSUME StoreInv, [Next]_vars
      PROVE  \A p \in Procs : (pc[p] = "idle" /\ result'[p] # result[p])
                => \A q \in Procs : IsPrefix(result[q], result'[p])
  <2>1. SUFFICES ASSUME NEW p \in Procs, pc[p] = "idle", result'[p] # result[p]
                 PROVE  \A q \in Procs : IsPrefix(result[q], result'[p])
    OBVIOUS
  <2>2. TypeOK
    BY <1>1 DEF StoreInv
  <2>3. CASE \E s \in Procs, r \in Roots, m \in Manifests : Load(s, r, m)
    <3>1. PICK s \in Procs, r \in Roots, m \in Manifests : Load(s, r, m)
      BY <2>3
    <3>2. s = p /\ result'[p] = anchor
      BY <2>1, <2>2, <3>1 DEF Load, LoadAccepts, TypeOK
    <3>3. QED
      BY <1>1, <3>2 DEF StoreInv, CommittedReads
  <2>4. CASE \E s \in Procs : PublishHead(s)
    BY <2>1, <2>2, <2>4 DEF PublishHead, TypeOK
  <2>5. CASE \E s \in Procs, r \in Roots, m \in Manifests : Initialize(s, r, m)
    BY <1>1, <2>1, <2>5, InitializeAnswers
  <2>6. QED
    BY <1>1, <2>1, <2>2, <2>3, <2>4, <2>5, WhoAnswers
<1>2. QED
  BY <1>1, StoreInvariant, PTL DEF Spec, FreshLoad

(* Answers are ever longer prefixes of the committed chain. *)
LEMMA AnswerObserves ==
    ASSUME StoreInv, NEW p \in Procs, NEW chain \in Seq(Entry),
           IsPrefix(chain, anchor), Len(result[p]) <= Len(chain),
           result' = [result EXCEPT ![p] = chain], UNCHANGED anchor
    PROVE  Log!Observe(p)
<1>1. Len(chain) \in 0 .. Len(anchor) /\ chain = SubSeq(anchor, 1, Len(chain))
  BY PrefixIsSubSeq DEF StoreInv, TypeOK, Chain
<1>2. Len(chain) \in Len(result[p]) .. Len(anchor)
  BY <1>1 DEF StoreInv, TypeOK, Chain
<1>3. QED
  BY <1>1, <1>2 DEF Log!Observe

(* The store implements the abstract append-only log.                      *)
THEOREM StoreImplementsLog == Spec => ImplementsLog
<1>1. Init => Log!LogInit
  BY DEF Init, Log!LogInit
<1>2. ASSUME StoreInv, [Next]_vars
      PROVE  [Log!LogNext]_(Log!logVars)
  <2>1. TypeOK
    BY <1>2 DEF StoreInv
  <2>2. CASE \E p \in Procs : AnchorCas(p)
    <3>1. PICK p \in Procs : AnchorCas(p)
      BY <2>2
    <3>2. UNCHANGED result
      BY <3>1 DEF AnchorCas
    <3>3. Log!Commit
      BY <1>2, <3>1, <3>2, CasCommits DEF Log!Commit
    <3>4. QED
      BY <3>3 DEF Log!LogNext
  <2>3. CASE \E p \in Procs, r \in Roots, m \in Manifests : Load(p, r, m)
    <3>1. PICK p \in Procs, r \in Roots, m \in Manifests : Load(p, r, m)
      BY <2>3
    <3>2. result' = [result EXCEPT ![p] = anchor] /\ UNCHANGED anchor
      BY <3>1 DEF Load, LoadAccepts
    <3>3. anchor \in Seq(Entry) /\ IsPrefix(anchor, anchor) /\ Len(result[p]) <= Len(anchor)
      BY <1>2, <2>1, PrefixRefl, PrefixPointwise DEF StoreInv, CommittedReads, TypeOK, Chain
    <3>4. QED
      BY <1>2, <3>2, <3>3, AnswerObserves DEF Log!LogNext
  <2>4. CASE \E p \in Procs : PublishHead(p)
    <3>1. PICK p \in Procs : PublishHead(p)
      BY <2>4
    <3>2. /\ result' = [result EXCEPT ![p] = journal[at[p]]] /\ UNCHANGED anchor
          /\ IsPrefix(journal[at[p]], anchor) /\ Len(result[p]) <= Len(journal[at[p]])
      BY <1>2, <3>1 DEF PublishHead, StoreInv, Publishing
    <3>3. journal[at[p]] \in Seq(Entry)
      BY <2>1, <3>1 DEF PublishHead, TypeOK, Chain
    <3>4. QED
      BY <1>2, <3>2, <3>3, AnswerObserves DEF Log!LogNext
  <2>5. CASE /\ UNCHANGED result \/ (\E p \in Procs, r \in Roots, m \in Manifests :
                                       Initialize(p, r, m))
             /\ UNCHANGED anchor
    BY <1>2, <2>5, InitializeAnswers DEF Log!logVars
  <2>6. QED
    BY <1>2, <2>1, <2>2, <2>3, <2>4, <2>5, OnlyCasWritesAnchor, WhoAnswers
<1>3. QED
  BY <1>1, <1>2, StoreInvariant, PTL DEF Spec, ImplementsLog, Log!LogSpec

-----------------------------------------------------------------------------
(* Authorization, and one root that is never copied.                       *)

(* An entry is signed when each key it carries has signed this very event  *)
(* over the chain below it; a chain is recorded when all its entries are.  *)
SignedEntry(signatures, chain, e) ==
    /\ MayFollow(chain, e)
    /\ \A k \in e.keys : [key |-> k, over |-> chain, event |-> e.event] \in signatures

Recorded(signatures, chain) ==
    \A i \in 1 .. Len(chain) : SignedEntry(signatures, SubSeq(chain, 1, i - 1), chain[i])

(* Everything that may come to be committed is authorized already: the     *)
(* journals and their copy, and the entry a process is about to write.     *)
Authorized ==
    /\ Recorded(issued, anchor)
    /\ \A r \in Roots : Recorded(issued, journal[r])
    /\ Recorded(issued, backup.journal)
    /\ \A p \in Procs : pc[p] = "write" => SignedEntry(issued, snap[p], entry[p])

(* Signatures are never withdrawn. *)
LEMMA RecordedGrows ==
    ASSUME NEW signatures, NEW more, signatures \subseteq more,
           NEW chain, Recorded(signatures, chain)
    PROVE  Recorded(more, chain)
  BY DEF Recorded, SignedEntry

(* An empty log records nothing. *)
LEMMA NothingRecorded == \A signatures : Recorded(signatures, << >>)
<1>1. 1 .. Len(<< >>) = {}
  OBVIOUS
<1>2. QED
  BY <1>1 DEF Recorded

(* A signed entry on top of a recorded chain makes a recorded chain. *)
LEMMA RecordedAppend ==
    ASSUME NEW signatures, NEW chain \in Chain, NEW e \in Entry,
           Recorded(signatures, chain), SignedEntry(signatures, chain, e)
    PROVE  Recorded(signatures, Append(chain, e))
<1> DEFINE longer == Append(chain, e)
<1>1. /\ Len(chain) \in Nat /\ Len(longer) = Len(chain) + 1
      /\ longer[Len(chain) + 1] = e
      /\ \A i \in 1 .. Len(chain) : longer[i] = chain[i]
  BY DEF Chain
<1>2. ASSUME NEW i \in 1 .. Len(chain) + 1
      PROVE  SubSeq(longer, 1, i - 1) = SubSeq(chain, 1, i - 1)
  <2>1. i - 1 \in 0 .. Len(chain)
    BY <1>1
  <2>2. longer \in Seq(Entry) /\ chain \in Seq(Entry)
    BY DEF Chain
  <2>3. /\ SubSeq(longer, 1, i - 1) \in Seq(Entry) /\ SubSeq(chain, 1, i - 1) \in Seq(Entry)
        /\ Len(SubSeq(longer, 1, i - 1)) = i - 1 /\ Len(SubSeq(chain, 1, i - 1)) = i - 1
        /\ \A j \in 1 .. i - 1 : /\ SubSeq(longer, 1, i - 1)[j] = longer[j]
                                 /\ SubSeq(chain, 1, i - 1)[j] = chain[j]
    BY <1>1, <2>1, <2>2
  <2>4. \A j \in 1 .. i - 1 : longer[j] = chain[j]
    BY <1>1, <2>1
  <2>5. QED
    BY <2>3, <2>4, SeqEqual
<1>3. SubSeq(chain, 1, Len(chain) + 1 - 1) = chain
  BY DEF Chain
<1>4. ASSUME NEW i \in 1 .. Len(chain) + 1
      PROVE  SignedEntry(signatures, SubSeq(longer, 1, i - 1), longer[i])
  <2>1. CASE i = Len(chain) + 1
    <3>1. longer[i] = e
      BY <1>1, <2>1
    <3>2. SubSeq(longer, 1, i - 1) = chain
      BY <1>2, <1>3, <2>1
    <3>3. QED
      BY <3>1, <3>2
  <2>2. CASE i \in 1 .. Len(chain)
    BY <1>1, <1>2, <2>2 DEF Recorded
  <2>3. QED
    BY <1>1, <2>1, <2>2
<1> HIDE DEF longer
<1>5. QED
  BY <1>1, <1>4 DEF Recorded, longer

(* At first nothing is committed. *)
LEMMA AuthorizedInit == Init => Authorized
  BY NothingRecorded DEF Init, Authorized

(* A step commits only what was authorized. *)
LEMMA AuthorizedStep == StoreInv /\ Authorized /\ [Next]_vars => Authorized'
<1> SUFFICES ASSUME StoreInv, Authorized, [Next]_vars PROVE Authorized'
  OBVIOUS
<1>a. TypeOK
  BY DEF StoreInv
<1>1. ASSUME NEW p \in Procs, NEW r \in Roots, NEW m \in Manifests,
             Initialize(p, r, m) \/ Load(p, r, m) \/ RefuseAppend(p, r, m)
      PROVE  Authorized'
  BY <1>1 DEF Initialize, Load, RefuseAppend, local, Authorized
<1>2. ASSUME NEW p \in Procs, NEW r \in Roots, NEW m \in Manifests, BeginAppend(p, r, m)
      PROVE  Authorized'
  <2>1. PICK event \in Event, sigs \in SUBSET issued :
           /\ Continues(journal[r], event)
           /\ Verified(sigs, journal[r], event)
           /\ Enter(p, r, "write", journal[r], [event |-> event, keys |-> {s.key : s \in sigs}])
    BY <1>2 DEF BeginAppend
  <2> DEFINE e == [event |-> event, keys |-> {s.key : s \in sigs}]
  <2>2. MayFollow(journal[r], e)
    BY <2>1 DEF MayFollow, Verified
  <2>3. ASSUME NEW k \in e.keys
        PROVE  [key |-> k, over |-> journal[r], event |-> e.event] \in issued
    <3>1. PICK s \in sigs : s.key = k
      OBVIOUS
    <3>2. s.over = journal[r] /\ s.event = event /\ s \in issued
      BY <2>1 DEF Verified
    <3>3. s \in Signature
      BY <1>a, <3>2 DEF TypeOK
    <3>4. s = [key |-> s.key, over |-> s.over, event |-> s.event]
      BY <3>3 DEF Signature
    <3>5. QED
      BY <3>1, <3>2, <3>4
  <2>4. SignedEntry(issued, journal[r], e)
    BY <2>2, <2>3 DEF SignedEntry
  <2> HIDE DEF e
  <2>5. /\ pc' = [pc EXCEPT ![p] = "write"] /\ snap' = [snap EXCEPT ![p] = journal[r]]
        /\ entry' = [entry EXCEPT ![p] = e]
    BY <2>1 DEF Enter, e
  <2>6. \A q \in Procs : pc'[q] = "write" => SignedEntry(issued, snap'[q], entry'[q])
    BY <1>a, <2>4, <2>5 DEF Authorized, TypeOK
  <2>7. UNCHANGED <<journal, anchor, backup, issued>>
    BY <1>2 DEF BeginAppend
  <2>8. QED
    BY <2>6, <2>7 DEF Authorized
<1>3. ASSUME NEW p \in Procs, NEW r \in Roots, NEW m \in Manifests, BeginRecover(p, r, m)
      PROVE  Authorized'
  <2>1. /\ UNCHANGED <<journal, anchor, backup, issued>>
        /\ \A q \in Procs : pc'[q] = "write" =>
              pc[q] = "write" /\ snap'[q] = snap[q] /\ entry'[q] = entry[q]
    BY <1>a, <1>3 DEF BeginRecover, Enter, TypeOK
  <2>2. QED
    BY <2>1 DEF Authorized
<1>4. ASSUME NEW p \in Procs, WriteJournal(p)
      PROVE  Authorized'
  <2>1. PICK r \in Roots : r = at[p]
    BY <1>a, <1>4 DEF WriteJournal, TypeOK
  <2>2. snap[p] = journal[r] /\ entry[p] \in Entry /\ journal[r] \in Chain
    BY <1>a, <1>4, <2>1 DEF WriteJournal, StoreInv, Appending, TypeOK
  <2>3. Recorded(issued, Append(snap[p], entry[p]))
    BY <1>4, <2>2, RecordedAppend DEF WriteJournal, Authorized
  <2>4. /\ UNCHANGED <<anchor, backup, issued, snap, entry>>
        /\ journal' = [journal EXCEPT ![r] = Append(snap[p], entry[p])]
        /\ \A q \in Procs : pc'[q] = "write" => pc[q] = "write"
    BY <1>a, <1>4, <2>1 DEF WriteJournal, TypeOK
  <2>5. \A s \in Roots : Recorded(issued, journal'[s])
    BY <1>a, <2>3, <2>4 DEF Authorized, TypeOK
  <2>6. QED
    BY <2>4, <2>5 DEF Authorized
<1>5. ASSUME NEW p \in Procs, AnchorCas(p)
      PROVE  Authorized'
  <2>1. at[p] \in Roots
    BY <1>a, <1>5 DEF AnchorCas, TypeOK
  <2>2. Recorded(issued, anchor')
    BY <1>5, <2>1 DEF AnchorCas, Authorized
  <2>3. /\ UNCHANGED <<journal, backup, issued, snap, entry>>
        /\ \A q \in Procs : pc'[q] = "write" => pc[q] = "write"
    BY <1>a, <1>5 DEF AnchorCas, files, TypeOK
  <2>4. QED
    BY <2>2, <2>3 DEF Authorized
<1>6. ASSUME NEW p \in Procs,
             AnchorCasStale(p) \/ Interrupt(p) \/ PublishHead(p) \/ RecoverRead(p)
      PROVE  Authorized'
  <2>1. /\ UNCHANGED <<journal, anchor, backup, issued>>
        /\ \A q \in Procs : pc'[q] = "write" =>
              pc[q] = "write" /\ snap'[q] = snap[q] /\ entry'[q] = entry[q]
    BY <1>a, <1>6
    DEF AnchorCasStale, Interrupt, PublishHead, RecoverRead, Leave, files, TypeOK
  <2>2. QED
    BY <2>1 DEF Authorized
<1>7. ASSUME NEW k \in Keys, NEW event \in Event, Sign(k, event)
      PROVE  Authorized'
  <2>1. /\ UNCHANGED <<journal, anchor, backup, pc, snap, entry>>
        /\ issued \subseteq issued'
    BY <1>7 DEF Sign, files, local
  <2>2. \A p \in Procs : pc[p] = "write" => SignedEntry(issued', snap[p], entry[p])
    BY <2>1 DEF Authorized, SignedEntry
  <2>3. QED
    BY <2>1, <2>2, RecordedGrows DEF Authorized
<1>8. ASSUME NEW r \in Roots, CopyRoot(r) \/ RestoreRoot(r)
      PROVE  Authorized'
  BY <1>a, <1>8 DEF CopyRoot, RestoreRoot, files, local, Authorized, TypeOK
<1>9. CASE UNCHANGED vars
  BY <1>9 DEF vars, Authorized
<1>10. QED
  BY <1>1, <1>2, <1>3, <1>4, <1>5, <1>6, <1>7, <1>8, <1>9
  DEF Next, StoreNext, SignerNext, OperatorNext, Step, Call

(* Whatever is copied, rolled back or interrupted, each committed          *)
(* transition is the next in order, and each key it carries signed this    *)
(* very event on top of this very chain.                                   *)
THEOREM HistoryIsAuthorized == Spec => []AuthorizedHistory
<1>1. Authorized => AuthorizedHistory
  BY DEF Authorized, AuthorizedHistory, Recorded, SignedEntry
<1>2. QED
  BY <1>1, AuthorizedInit, AuthorizedStep, StoreInvariant, PTL DEF Spec

(* The life of one root: no directory beside it uses the anchor. *)
OneRoot == \A r, s \in Roots : r = s

(* The journal ends at the anchor, or one entry above it. *)
WithinReach ==
    /\ \A r \in Roots : \/ anchor = journal[r]
                        \/ journal[r] # << >> /\ anchor = Front(journal[r])
    /\ \A p \in Procs : pc[p] = "write" => anchor = journal[at[p]]

RootInv == StoreInv /\ Authorized /\ WithinReach

rootVars == <<vars, calm>>

(* The steps of one root are steps of the store. *)
LEMMA OneRootStep == [OneRootNext]_rootVars => [Next]_vars
  BY DEF OneRootNext, Works, Next, StoreNext, rootVars

(* One root is within reach at first. *)
LEMMA RootInvInit == OneRootInit => RootInv
  BY StoreInvInit, AuthorizedInit DEF OneRootInit, RootInv, WithinReach, Init

(* Without copies and rollbacks a step keeps it within reach. *)
LEMMA RootInvStep ==
    ASSUME OneRoot, RootInv, [OneRootNext]_rootVars
    PROVE  RootInv'
<1>a. TypeOK /\ StoreInv
  BY DEF RootInv, StoreInv
<1>b. StoreInv' /\ Authorized'
  BY OneRootStep, StoreInvStep, AuthorizedStep DEF RootInv
<1> SUFFICES WithinReach'
  BY <1>b DEF RootInv
<1>c. \A p, q \in Procs : pc[p] # "idle" /\ pc[q] # "idle" => p = q
  BY <1>a DEF OneRoot, TypeOK
<1>d. \A r \in Roots, p \in Procs : Unlocked(r) => pc[p] = "idle"
  BY <1>a, LifecycleAssumption DEF OneRoot, TypeOK, Unlocked
<1>1. ASSUME NEW p \in Procs, NEW r \in Roots, NEW m \in Manifests,
             Initialize(p, r, m) \/ Load(p, r, m) \/ RefuseAppend(p, r, m)
      PROVE  WithinReach'
  BY <1>1 DEF Initialize, Load, RefuseAppend, local, RootInv, WithinReach
<1>2. ASSUME NEW p \in Procs, NEW r \in Roots, NEW m \in Manifests, BeginAppend(p, r, m)
      PROVE  WithinReach'
  <2>1. anchor = journal[r] /\ UNCHANGED <<anchor, journal>>
    BY <1>2 DEF BeginAppend, LoadAccepts
  <2>2. pc' = [pc EXCEPT ![p] = "write"] /\ at' = [at EXCEPT ![p] = r]
    BY <1>2 DEF BeginAppend, Enter
  <2>3. QED
    BY <1>a, <2>1, <2>2 DEF RootInv, WithinReach, TypeOK
<1>3. ASSUME NEW p \in Procs, NEW r \in Roots, NEW m \in Manifests, BeginRecover(p, r, m)
      PROVE  WithinReach'
  <2>1. /\ UNCHANGED <<anchor, journal>>
        /\ \A q \in Procs : pc'[q] = "write" => pc[q] = "write" /\ at'[q] = at[q]
    BY <1>a, <1>3 DEF BeginRecover, Enter, TypeOK
  <2>2. QED
    BY <2>1 DEF RootInv, WithinReach
<1>4. ASSUME NEW p \in Procs, WriteJournal(p)
      PROVE  WithinReach'
  <2>1. PICK r \in Roots : r = at[p]
    BY <1>a, <1>4 DEF WriteJournal, TypeOK
  <2>2. /\ snap[p] = journal[r] /\ entry[p] \in Entry /\ journal[r] \in Seq(Entry)
        /\ anchor = journal[r]
    BY <1>a, <1>4, <2>1
    DEF WriteJournal, StoreInv, Appending, TypeOK, Chain, RootInv, WithinReach
  <2>3. /\ UNCHANGED anchor
        /\ journal' = [journal EXCEPT ![r] = Append(snap[p], entry[p])]
        /\ pc' = [pc EXCEPT ![p] = "cas"]
    BY <1>4, <2>1 DEF WriteJournal
  <2>4. journal'[r] # << >> /\ anchor' = Front(journal'[r])
    BY <1>a, <2>2, <2>3, FrontOfAppend, AppendFacts DEF TypeOK
  <2>5. \A q \in Procs : pc'[q] # "write"
    BY <1>a, <1>c, <1>4, <2>3 DEF WriteJournal, TypeOK
  <2>6. \A s \in Roots : s = r
    BY DEF OneRoot
  <2>7. QED
    BY <2>4, <2>5, <2>6 DEF WithinReach
<1>5. ASSUME NEW p \in Procs, AnchorCas(p)
      PROVE  WithinReach'
  <2>1. at[p] \in Roots /\ pc[p] = "cas"
    BY <1>a, <1>5 DEF AnchorCas, TypeOK
  <2>2. anchor' = journal[at[p]] /\ journal' = journal /\ pc' = [pc EXCEPT ![p] = "publish"]
    BY <1>5 DEF AnchorCas, files
  <2>3. \A s \in Roots : s = at[p]
    BY <2>1 DEF OneRoot
  <2>4. \A q \in Procs : pc'[q] # "write"
    BY <1>a, <1>c, <2>1, <2>2 DEF TypeOK
  <2>5. QED
    BY <2>2, <2>3, <2>4 DEF WithinReach
<1>6. ASSUME NEW p \in Procs,
             AnchorCasStale(p) \/ Interrupt(p) \/ PublishHead(p) \/ RecoverRead(p)
      PROVE  WithinReach'
  <2>1. /\ UNCHANGED <<journal, anchor>>
        /\ \A q \in Procs : pc'[q] = "write" => pc[q] = "write" /\ at'[q] = at[q]
    BY <1>a, <1>6
    DEF AnchorCasStale, Interrupt, PublishHead, RecoverRead, Leave, files, TypeOK
  <2>2. QED
    BY <2>1 DEF RootInv, WithinReach
<1>7. ASSUME NEW k \in Keys, NEW event \in Event, Sign(k, event)
      PROVE  WithinReach'
  BY <1>7 DEF Sign, files, local, RootInv, WithinReach
<1>8. CASE UNCHANGED vars
  <2>1. UNCHANGED <<anchor, journal, pc, at>>
    BY <1>8 DEF vars
  <2>2. QED
    BY <2>1 DEF RootInv, WithinReach
<1>9. CASE \E p \in Procs : Step(p) \/ Interrupt(p)
  BY <1>4, <1>5, <1>6, <1>9 DEF Step
<1>10. CASE \E p \in Procs, r \in Roots, m \in Manifests : Call(p, r, m)
  BY <1>1, <1>2, <1>3, <1>10 DEF Call
<1>11. CASE SignerNext
  BY <1>7, <1>11 DEF SignerNext
<1>12. [OneRootNext]_rootVars
  OBVIOUS
<1>13. \/ UNCHANGED vars
       \/ \E p \in Procs : Step(p) \/ Interrupt(p)
       \/ \E p \in Procs, r \in Roots, m \in Manifests : Call(p, r, m)
       \/ SignerNext
  BY <1>12 DEF OneRootNext, Works, rootVars
<1>14. QED
  BY <1>8, <1>9, <1>10, <1>11, <1>13

(* Within reach, and authorized, the root is sound. *)
LEMMA RootInvSuffices == RootInv => RootIsSound
<1> SUFFICES ASSUME RootInv PROVE RootIsSound
  OBVIOUS
<1>1. AuthorizedHistory
  BY DEF RootInv, Authorized, AuthorizedHistory, Recorded, SignedEntry
<1>2. ASSUME NEW r \in Roots, NEW m \in Manifests, lock[r] = None, manifest[r] = m
      PROVE  LoadAccepts(r, m) \/ PendingAccepts(r, m)
  <2>1. Replays(journal[r])
    BY DEF RootInv, Authorized, Recorded, SignedEntry, Replays
  <2>2. journal[r] = << >> => head[r] = << >>
    <3>1. IsPrefix(head[r], journal[r]) /\ head[r] \in Seq(Entry) /\ journal[r] \in Seq(Entry)
      BY DEF RootInv, StoreInv, HeadNeverAhead, TypeOK, Chain
    <3>2. Len(head[r]) <= Len(journal[r])
      BY <3>1, PrefixPointwise
    <3>3. QED
      BY <3>1, <3>2
  <2>3. QED
    BY <1>2, <2>1, <2>2 DEF RootInv, WithinReach, LoadAccepts, PendingAccepts
<1>3. QED
  BY <1>1, <1>2 DEF RootIsSound, NeverLockedOut

(* In the life of one root, however processes die, its store is readable   *)
(* or one recovery away from it between two operations, and what it has    *)
(* committed was authorized step by step.                                  *)
THEOREM OneRootIsSound ==
    ASSUME OneRoot
    PROVE  OneRootInit /\ [][OneRootNext]_rootVars => []RootIsSound
<1>1. RootInv /\ [OneRootNext]_rootVars => RootInv'
  BY RootInvStep
<1>2. QED
  BY <1>1, RootInvInit, RootInvSuffices, PTL
=============================================================================
