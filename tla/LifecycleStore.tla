--------------------------- MODULE LifecycleStore ---------------------------
(***************************************************************************)
(* AuthoringLifecycleStore and FileLifecycleAnchor of                      *)
(* src/rexpolicy/tasking/authoring_lifecycle_store.py.                     *)
(*                                                                         *)
(* A store root is a directory: an immutable manifest, a journal of        *)
(* entries 0, 1, 2, ... each carrying the fingerprint of its predecessor,  *)
(* and a head record.  One anchor, in another persistence domain, holds    *)
(* the fingerprint of the last committed entry.  A fingerprint determines  *)
(* the whole chain below it, so here it IS that chain: the head and the    *)
(* anchor are sequences of entries, << >> standing for an absent record.   *)
(*                                                                         *)
(* An append makes three durable steps in order: link the journal file,    *)
(* compare-and-set the anchor, replace the head; the process may stop      *)
(* between any two.  Several processes use several roots that share the    *)
(* anchor (a root may be a restored or copied directory); flock serialises *)
(* the users of one root only, so users of two roots interleave.           *)
(***************************************************************************)
EXTENDS Integers, SequencesExt

CONSTANTS
    Procs,              \* the processes that call the store
    Roots,              \* the directories that are, or may become, a store
    Manifests,          \* immutable manifests: candidate, plan, evidence
    Authorities,        \* authority (and generation boundary) records
    AuthorityKeys,      \* trusted_signers["lifecycle_authority"]
    BoundaryKeys,       \* trusted_signers["generation_boundary"]
    MaxSignatures,      \* bound: signatures ever made
    None                \* Python's None

ASSUME LifecycleAssumption ==
    /\ AuthorityKeys \cap BoundaryKeys = {}
    /\ None \notin Manifests
    /\ None \notin Authorities
    /\ None \notin Procs
    /\ None \notin Roots
    /\ MaxSignatures \in Nat

VARIABLES
    manifest,           \* manifest[r]: manifest.json of root r, or None
    journal,            \* journal[r]: the entries of its journal directory
    head,               \* head[r]: head.json
    anchor,             \* the external anchor
    backup,             \* an operator's copy of a root
    lock,               \* lock[r]: the process holding .lifecycle.lock
    pc,                 \* pc[p]: where p is inside append or recover
    at,                 \* at[p]: the root p works on
    snap,               \* snap[p]: the chain p's next step starts from
    entry,              \* entry[p]: the entry p is appending
    result,             \* result[p]: the snapshot last returned to p
    issued              \* the detached signatures ever made

files == <<manifest, journal, head>>
local == <<pc, at, snap, entry>>
vars == <<manifest, journal, head, anchor, backup, lock, pc, at, snap, entry,
          result, issued>>

-----------------------------------------------------------------------------
(* Lifecycle events and their signatures.                                  *)

(* _TRANSITIONS as the only order in which states can be entered. *)
Order == <<"QUARANTINED_STATIC", "ADMISSION_READY", "ADMITTED_DORMANT", "ACTIVE">>

States == {Order[i] : i \in 1 .. 4}
Keys == AuthorityKeys \cup BoundaryKeys

Event == [manifest : Manifests, state : States, authority : Authorities \cup {None}]

(* A journal entry: its event and the keys whose signatures it carries. *)
Entry == [event : Event, keys : SUBSET Keys]

Chain == Seq(Entry)

(* What a signer signs: signing_payload binds the key, the expected head   *)
(* and the event.                                                          *)
Signature == [key : Keys, over : Chain, event : Event]

NeedsAuthority(state) == state \in {"ADMITTED_DORMANT", "ACTIVE"}

(* LifecycleEvent._from_record_step, and the manifest binding of append:   *)
(* the event continues the chain by exactly one state, names the chain's   *)
(* own candidate, and carries an authority exactly when its state needs it.*)
Continues(chain, event) ==
    /\ Len(chain) < 4
    /\ event.state = Order[Len(chain) + 1]
    /\ (event.authority # None) <=> NeedsAuthority(event.state)
    /\ chain # << >> => event.manifest = chain[1].event.manifest

(* _verify_signatures: the exact signature set of the target state. *)
ExactKeys(state, keys) ==
    \/ /\ ~NeedsAuthority(state)
       /\ keys = {}
    \/ /\ state = "ADMITTED_DORMANT"
       /\ \E a \in AuthorityKeys : keys = {a}
    \/ /\ state = "ACTIVE"
       /\ \E a \in AuthorityKeys, b \in BoundaryKeys : keys = {a, b}


(* Mutant: the payload hash of a signature is not compared with the event. *)
Verified_AnyEvent(sigs, over, event) ==
    /\ ExactKeys(event.state, {s.key : s \in sigs})
    /\ \A s \in sigs : s.over = over

(* The signatures presented are over this very event and this very head. *)
Verified(sigs, over, event) ==
    /\ ExactKeys(event.state, {s.key : s \in sigs})
    /\ \A s \in sigs : s.over = over /\ s.event = event

MayFollow(chain, e) ==
    /\ Continues(chain, e.event)
    /\ ExactKeys(e.event.state, e.keys)

(* _replay_and_check of a journal read back from disk. *)
Replays(chain) ==
    \A i \in 1 .. Len(chain) : MayFollow(SubSeq(chain, 1, i - 1), chain[i])

-----------------------------------------------------------------------------
Init ==
    /\ manifest = [r \in Roots |-> None]
    /\ journal = [r \in Roots |-> << >>]
    /\ head = [r \in Roots |-> << >>]
    /\ anchor = << >>
    /\ backup = [manifest |-> None, journal |-> << >>, head |-> << >>]
    /\ lock = [r \in Roots |-> None]
    /\ pc = [p \in Procs |-> "idle"]
    /\ at = [p \in Procs |-> None]
    /\ snap = [p \in Procs |-> << >>]
    /\ entry = [p \in Procs |-> None]
    /\ result = [p \in Procs |-> << >>]
    /\ issued = {}


(* Mutant: a journal behind the anchor is taken for a valid one. *)
LoadAccepts_RolledBack(r, m) ==
    /\ manifest[r] = m
    /\ Replays(journal[r])
    /\ IsPrefix(journal[r], anchor)

(* Mutant: allow_pending_tail is the default of every load. *)
LoadAccepts_Pending(r, m) ==
    /\ manifest[r] = m
    /\ Replays(journal[r])
    /\ \/ anchor = journal[r]
       \/ journal[r] # << >> /\ anchor = Front(journal[r])

(* _load_locked, strict form: the journal must end exactly at the anchor.  *)
(* An anchor ahead is a truncation or rollback, an anchor at the same      *)
(* sequence with another fingerprint is a fork, an anchor behind is an     *)
(* unanchored tail; a head without a journal is an error.                  *)
LoadAccepts(r, m) ==
    /\ manifest[r] = m
    /\ Replays(journal[r])
    /\ anchor = journal[r]
    /\ journal[r] = << >> => head[r] = << >>


(* _load_locked(allow_pending_tail=True): one more entry than the anchor,  *)
(* extending the anchored one, is accepted too.                            *)
PendingAccepts(r, m) ==
    /\ manifest[r] = m
    /\ Replays(journal[r])
    /\ journal[r] # << >>
    /\ anchor = Front(journal[r])

(* The head is rewritten whenever it lags the committed journal. *)
RepairHead(r) == head' = [head EXCEPT ![r] = journal[r]]

(* flock(LOCK_EX) is granted. *)
Unlocked(r) == lock[r] = None

(* The operation ends and the with-block drops the lock. *)
Leave(p) ==
    /\ lock' = [lock EXCEPT ![at[p]] = None]
    /\ pc' = [pc EXCEPT ![p] = "idle"]
    /\ snap' = [snap EXCEPT ![p] = << >>]
    /\ entry' = [entry EXCEPT ![p] = None]
    /\ at' = [at EXCEPT ![p] = None]

(* The operation holds the lock of r and continues at step `to'. *)
Enter(p, r, to, chain, e) ==
    /\ lock' = [lock EXCEPT ![r] = p]
    /\ pc' = [pc EXCEPT ![p] = to]
    /\ at' = [at EXCEPT ![p] = r]
    /\ snap' = [snap EXCEPT ![p] = chain]
    /\ entry' = [entry EXCEPT ![p] = e]

-----------------------------------------------------------------------------
(* initialize() of a directory without a manifest.  The manifest is linked *)
(* before _load_locked runs, so it stays when the anchor shows that this   *)
(* store already had events elsewhere and the call raises.                 *)
Initialize(p, r, m) ==
    /\ pc[p] = "idle" /\ Unlocked(r)
    /\ manifest[r] = None
    /\ manifest' = [manifest EXCEPT ![r] = m]
    /\ result' = IF anchor = << >> THEN [result EXCEPT ![p] = << >>] ELSE result
    /\ UNCHANGED <<journal, head, anchor, backup, lock, issued, local>>

(* load(), and initialize() of a directory that has its manifest: under    *)
(* the lock only the anchor is shared with other roots, so the call takes  *)
(* effect at its read of the anchor.                                       *)
Load(p, r, m) ==
    /\ pc[p] = "idle" /\ Unlocked(r)
    /\ LoadAccepts(r, m)
    /\ RepairHead(r)
    /\ result' = [result EXCEPT ![p] = journal[r]]
    /\ UNCHANGED <<manifest, journal, anchor, backup, lock, issued, local>>

(* append() refused after _load_locked accepted: a stale expected head, an *)
(* event out of order or signatures that do not verify.  The load has      *)
(* repaired the head already.                                              *)
RefuseAppend(p, r, m) ==
    /\ pc[p] = "idle" /\ Unlocked(r)
    /\ LoadAccepts(r, m)
    /\ RepairHead(r)
    /\ UNCHANGED <<manifest, journal, anchor, backup, lock, issued, local, result>>

(* append() up to its first durable write.  The caller presents the head   *)
(* it last saw, an event built on it, and signatures of its choice.        *)
BeginAppend(p, r, m) ==
    /\ pc[p] = "idle" /\ Unlocked(r)
    /\ LoadAccepts(r, m)
    /\ RepairHead(r)
    /\ result[p] = journal[r]
    /\ \E event \in Event :
          /\ Continues(journal[r], event)
          /\ event.manifest = m
          /\ \E sigs \in SUBSET issued :
                /\ Verified(sigs, journal[r], event)
                /\ Enter(p, r, "write", journal[r],
                         [event |-> event, keys |-> {s.key : s \in sigs}])
    /\ UNCHANGED <<manifest, journal, anchor, backup, result, issued>>


(* _write_new links NNN.json into the journal directory. *)
WriteJournal(p) ==
    /\ pc[p] = "write"
    /\ journal' = [journal EXCEPT ![at[p]] = Append(snap[p], entry[p])]
    /\ pc' = [pc EXCEPT ![p] = "cas"]
    /\ UNCHANGED <<manifest, head, anchor, backup, lock, at, snap, entry, result, issued>>


(* compare_and_set succeeds: the anchor still is what the journal extends. *)
AnchorCas(p) ==
    /\ pc[p] = "cas"
    /\ anchor = snap[p]
    /\ anchor' = journal[at[p]]
    /\ pc' = [pc EXCEPT ![p] = "publish"]
    /\ UNCHANGED <<files, backup, lock, at, snap, entry, result, issued>>


(* compare_and_set raises LifecycleCASMismatch: the tail stays pending. *)
AnchorCasStale(p) ==
    /\ pc[p] = "cas"
    /\ anchor # snap[p]
    /\ Leave(p)
    /\ UNCHANGED <<files, anchor, backup, result, issued>>

(* _replace(head.json), and the snapshot is returned to the caller. *)
PublishHead(p) ==
    /\ pc[p] = "publish"
    /\ RepairHead(at[p])
    /\ result' = [result EXCEPT ![p] = journal[at[p]]]
    /\ Leave(p)
    /\ UNCHANGED <<manifest, journal, anchor, backup, issued>>

(* recover_pending_tail() up to its own read of the anchor. *)
BeginRecover(p, r, m) ==
    /\ pc[p] = "idle" /\ Unlocked(r)
    /\ \/ LoadAccepts(r, m) /\ RepairHead(r)
       \/ PendingAccepts(r, m) /\ UNCHANGED head
    /\ journal[r] # << >>
    /\ Enter(p, r, "recheck", Front(journal[r]), None)
    /\ UNCHANGED <<manifest, journal, anchor, backup, result, issued>>


(* Mutant: recovery trusts the tail it loaded and skips the anchor. *)
RecoverRead_Trusting(p) ==
    /\ pc[p] = "recheck"
    /\ pc' = [pc EXCEPT ![p] = "publish"]
    /\ UNCHANGED <<files, anchor, backup, lock, at, snap, entry, result, issued>>

(* Mutant: recovery only finishes what is anchored already. *)
RecoverRead_PublishOnly(p) ==
    /\ pc[p] = "recheck"
    /\ \/ /\ anchor = journal[at[p]]
          /\ pc' = [pc EXCEPT ![p] = "publish"]
          /\ UNCHANGED <<lock, at, snap, entry>>
       \/ anchor # journal[at[p]] /\ Leave(p)
    /\ UNCHANGED <<files, anchor, backup, result, issued>>

(* The second read: already anchored, still pending, or overtaken by a     *)
(* user of another root.                                                   *)
RecoverRead(p) ==
    /\ pc[p] = "recheck"
    /\ \/ /\ anchor = journal[at[p]]
          /\ pc' = [pc EXCEPT ![p] = "publish"]
          /\ UNCHANGED <<lock, at, snap, entry>>
       \/ /\ anchor = snap[p]
          /\ pc' = [pc EXCEPT ![p] = "cas"]
          /\ UNCHANGED <<lock, at, snap, entry>>
       \/ /\ anchor # journal[at[p]] /\ anchor # snap[p]
          /\ Leave(p)
    /\ UNCHANGED <<files, anchor, backup, result, issued>>


(* The process dies, or an I/O step raises: the kernel or the with-block   *)
(* drops the flock and everything durable stays as it is.                  *)
Interrupt(p) ==
    /\ pc[p] # "idle"
    /\ Leave(p)
    /\ UNCHANGED <<files, anchor, backup, result, issued>>

-----------------------------------------------------------------------------
(* The world around the store.                                             *)

(* A signer authorizes a transition of a chain it finds in a root or at    *)
(* the anchor, committed or not.                                           *)
Sign(k, event) ==
    /\ Cardinality(issued) < MaxSignatures
    /\ \E chain \in {anchor} \cup {journal[r] : r \in Roots} :
          /\ Continues(chain, event)
          /\ issued' = issued \cup {[key |-> k, over |-> chain, event |-> event]}
    /\ IF event.state = "ACTIVE" THEN k \in Keys
       ELSE event.state = "ADMITTED_DORMANT" /\ k \in AuthorityKeys
    /\ UNCHANGED <<files, anchor, backup, lock, local, result>>

(* An operator copies a root (at any time), and puts a copy in the place   *)
(* of a root nobody has open: a rollback, or a second root.                *)
CopyRoot(r) ==
    /\ backup' = [manifest |-> manifest[r], journal |-> journal[r], head |-> head[r]]
    /\ UNCHANGED <<files, anchor, lock, local, result, issued>>

RestoreRoot(r) ==
    /\ Unlocked(r)
    /\ manifest' = [manifest EXCEPT ![r] = backup.manifest]
    /\ journal' = [journal EXCEPT ![r] = backup.journal]
    /\ head' = [head EXCEPT ![r] = backup.head]
    /\ UNCHANGED <<anchor, backup, lock, local, result, issued>>

-----------------------------------------------------------------------------
Step(p) == WriteJournal(p) \/ AnchorCas(p) \/ AnchorCasStale(p)
           \/ PublishHead(p) \/ RecoverRead(p)

Call(p, r, m) ==
    \/ Initialize(p, r, m)
    \/ Load(p, r, m)
    \/ RefuseAppend(p, r, m)
    \/ BeginAppend(p, r, m)
    \/ BeginRecover(p, r, m)

StoreNext ==
    \E p \in Procs :
        \/ Step(p)
        \/ Interrupt(p)
        \/ \E r \in Roots, m \in Manifests : Call(p, r, m)

SignerNext == \E k \in Keys, event \in Event : Sign(k, event)

OperatorNext == \E r \in Roots : CopyRoot(r) \/ RestoreRoot(r)

Next == StoreNext \/ SignerNext \/ OperatorNext

Spec == Init /\ [][Next]_vars

-----------------------------------------------------------------------------
(* Properties.                                                             *)

PcStates == {"idle", "write", "cas", "publish", "recheck"}

(* The types of the state, and flock: a root's lock is held by exactly the *)
(* process that is inside an operation on it.                              *)
TypeOK ==
    /\ manifest \in [Roots -> Manifests \cup {None}]
    /\ journal \in [Roots -> Chain]
    /\ head \in [Roots -> Chain]
    /\ anchor \in Chain
    /\ backup \in [manifest : Manifests \cup {None}, journal : Chain, head : Chain]
    /\ lock \in [Roots -> Procs \cup {None}]
    /\ pc \in [Procs -> PcStates]
    /\ at \in [Procs -> Roots \cup {None}]
    /\ snap \in [Procs -> Chain]
    /\ entry \in [Procs -> Entry \cup {None}]
    /\ result \in [Procs -> Chain]
    /\ issued \subseteq Signature
    /\ \A p \in Procs : pc[p] = "write" => entry[p] \in Entry
    /\ \A p \in Procs : (pc[p] = "idle") <=> (at[p] = None)
    /\ \A p \in Procs, r \in Roots : (at[p] = r) <=> (lock[r] = p)

(* Whatever is interrupted, copied or rolled back, a journal holds at most *)
(* ONE entry that is not committed: everything below its last entry is a   *)
(* prefix of the anchored chain.  recover_pending_tail relies on it.       *)
OnePendingEntry ==
    \A r \in Roots : journal[r] # << >> => IsPrefix(Front(journal[r]), anchor)

(* No caller is ever shown an entry that is not committed, so any two      *)
(* answers, given by any two roots, agree on their common length.          *)
CommittedReads == \A p \in Procs : IsPrefix(result[p], anchor)

(* head.json never runs ahead of the anchor, nor apart from its journal.   *)
HeadNeverAhead ==
    \A r \in Roots : IsPrefix(head[r], anchor) /\ IsPrefix(head[r], journal[r])

(* Every committed transition is the next one in the lifecycle order, and  *)
(* each key it carries signed this very event on top of this very chain.   *)
AuthorizedHistory ==
    \A i \in 1 .. Len(anchor) :
        LET below == SubSeq(anchor, 1, i - 1) IN
        /\ MayFollow(below, anchor[i])
        /\ \A k \in anchor[i].keys :
              [key |-> k, over |-> below, event |-> anchor[i].event] \in issued

(* Why the two facts above survive every step: the same holds of the copy  *)
(* a root may be restored from, and of what each process inside an         *)
(* operation carries from one step to the next.                            *)
BackupCommitted ==
    /\ backup.journal # << >> => IsPrefix(Front(backup.journal), anchor)
    /\ IsPrefix(backup.head, anchor)
    /\ IsPrefix(backup.head, backup.journal)

Appending(p) ==
    pc[p] = "write" =>
        /\ snap[p] = journal[at[p]]
        /\ IsPrefix(snap[p], anchor)
        /\ MayFollow(snap[p], entry[p])
        /\ Len(result[p]) <= Len(snap[p])

Committing(p) ==
    pc[p] \in {"cas", "recheck"} =>
        /\ journal[at[p]] # << >>
        /\ snap[p] = Front(journal[at[p]])
        /\ MayFollow(snap[p], Last(journal[at[p]]))
        /\ Len(result[p]) <= Len(journal[at[p]])

Publishing(p) ==
    pc[p] = "publish" =>
        /\ IsPrefix(journal[at[p]], anchor)
        /\ Len(result[p]) <= Len(journal[at[p]])

(* The inductive invariant behind OnePendingEntry, CommittedReads and      *)
(* HeadNeverAhead.                                                         *)
StoreInv ==
    /\ TypeOK
    /\ OnePendingEntry
    /\ CommittedReads
    /\ HeadNeverAhead
    /\ BackupCommitted
    /\ \A p \in Procs : Appending(p) /\ Committing(p) /\ Publishing(p)

(* The anchor is a monotonic watermark: what is committed stays committed. *)
AnchorExtends == [][IsPrefix(anchor, anchor')]_vars

(* load() is never stale: what it returns contains every snapshot any      *)
(* caller was given before, even when the root it reads was rolled back.   *)
FreshLoad ==
    [][\A p \in Procs :
          (pc[p] = "idle" /\ result'[p] # result[p])
             => \A q \in Procs : IsPrefix(result[q], result'[p])]_vars

(* The store implements the abstract log: the anchored chain is the log.   *)
Log == INSTANCE LifecycleLog WITH
           Readers <- Procs, log <- anchor, view <- result

ImplementsLog == Log!LogSpec
=============================================================================
