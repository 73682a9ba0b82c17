--------------------------- MODULE CheckpointSave ---------------------------
(***************************************************************************)
(* CheckpointManager.save of src/rexpolicy/flywheel/checkpoint.py, the     *)
(* collective commit that every rank of a launch runs at a generation      *)
(* boundary, with the launches, crashes and resumes around it.             *)
(*                                                                         *)
(* Rank zero prepares .partial-generation-g, every rank writes its own     *)
(* state file into it, rank zero adds the shared state, seals it with      *)
(* COMPLETE, renames it to generation-g and moves latest.json.  Four       *)
(* barriers order these steps; what a rank may do wrong between two of     *)
(* them is left behind as an ERROR file that rank zero, or everyone, reads *)
(* after the next.  Content is abstracted to its origin: the number of the *)
(* launch that wrote it.                                                   *)
(***************************************************************************)
EXTENDS Integers, FiniteSets

CONSTANTS
    Ranks,              \* the workers torchrun starts
    Zero,               \* rank zero
    MaxGeneration,      \* bound: --max-generations
    MaxAttempts,        \* bound: launches of the run directory
    None

VARIABLES
    partial,            \* partial[g]: .partial-generation-g, or None
    final,              \* final[g]: generation-g, or None
    latest,             \* the generation latest.json names, or None
    attempt,            \* the number of the current launch
    pc,                 \* pc[r]: where rank r is
    gen,                \* the generation the ranks have completed
    accepted,           \* the gate's verdict on it
    initError,          \* rank zero's initialization_error
    saved,              \* saved[r]: the generation of r's last returned save
    fault               \* history: this launch met an I/O error

disk == <<partial, final, latest>>
vars == <<partial, final, latest, attempt, pc, gen, accepted, initError, saved, fault>>

Generations == 0 .. MaxGeneration
Attempts == 1 .. MaxAttempts

(* A checkpoint directory: who wrote which part of it. *)
Directory == [ranks : [Ranks -> Attempts \cup {None}], errors : SUBSET Ranks,
              state : Attempts \cup {None}, accepted : BOOLEAN,
              error : BOOLEAN, complete : BOOLEAN]

(* What a complete checkpoint is to those who resume from it. *)
Content == [ranks : [Ranks -> Attempts \cup {None}],
            state : Attempts \cup {None}, accepted : BOOLEAN]

ASSUME CheckpointAssumption ==
    /\ Zero \in Ranks
    /\ MaxGeneration \in Nat
    /\ MaxAttempts \in Nat
    /\ None \notin Nat
    /\ None \notin Directory \cup Content

Empty == [ranks |-> [r \in Ranks |-> None], errors |-> {}, state |-> None,
          accepted |-> FALSE, error |-> FALSE, complete |-> FALSE]

Goto(r, to) == pc' = [pc EXCEPT ![r] = to]

-----------------------------------------------------------------------------
Init ==
    /\ partial = [g \in Generations |-> None]
    /\ final = [g \in Generations |-> None]
    /\ latest = None
    /\ attempt = 0
    /\ pc = [r \in Ranks |-> "down"]
    /\ gen = 0
    /\ accepted = TRUE
    /\ initError = FALSE
    /\ saved = [r \in Ranks |-> None]
    /\ fault = FALSE

(* The training loop around save(): every step of it is a collective.      *)

(* A launch starts on every rank: into an empty run directory, where it    *)
(* saves the generation-zero baseline first, or resuming from a checkpoint.*)
Start(g, to) ==
    /\ attempt < MaxAttempts
    /\ \A r \in Ranks : pc[r] = "down"
    /\ attempt' = attempt + 1
    /\ pc' = [r \in Ranks |-> to]
    /\ gen' = g
    /\ accepted' = TRUE
    /\ saved' = [r \in Ranks |-> None]
    /\ fault' = FALSE
    /\ UNCHANGED <<disk, initError>>

LaunchFresh == attempt = 0 /\ Start(0, "enter")

(* load() resumes from any complete checkpoint that was not rejected:      *)
(* latest_checkpoint for --resume-latest, any of them for --resume-from.   *)
Resumable == {g \in Generations : final[g] # None /\ final[g].accepted}

Resume == \E g \in Resumable : Start(g, "train")

(* The next generation is trained; a checkpoint of it may be due.  A run   *)
(* whose candidate was rejected ends instead.                              *)
Train ==
    /\ \A r \in Ranks : pc[r] = "train"
    /\ accepted
    /\ gen < MaxGeneration
    /\ gen' = gen + 1
    /\ accepted' \in BOOLEAN
    /\ pc' \in {[r \in Ranks |-> to] : to \in IF accepted' THEN {"train", "enter"}
                                                          ELSE {"enter"}}
    /\ UNCHANGED <<disk, attempt, initError, saved, fault>>

(* The launch ends: at a generation boundary, or torchrun stops the other  *)
(* workers because one of them died or raised.                             *)
End ==
    /\ \/ \A r \in Ranks : pc[r] = "train"
       \/ \E r \in Ranks : pc[r] \in {"failed", "dead"}
    /\ pc' = [r \in Ranks |-> "down"]
    /\ UNCHANGED <<disk, attempt, gen, accepted, initError, saved, fault>>

-----------------------------------------------------------------------------
(* save().                                                                 *)

(* Mutant: the directory an earlier launch left behind is kept. *)
Prepare_KeepsPartial ==
    /\ pc[Zero] = "enter"
    /\ initError' = (final[gen] # None)
    /\ partial' = IF final[gen] = None /\ partial[gen] = None
                  THEN [partial EXCEPT ![gen] = Empty] ELSE partial
    /\ Goto(Zero, "sync1")
    /\ UNCHANGED <<final, latest, attempt, gen, accepted, saved, fault>>

(* Mutant: rank zero goes on without waiting for the others. *)
Prepare_NoBarrier ==
    /\ pc[Zero] = "enter"
    /\ initError' = (final[gen] # None)
    /\ partial' = IF final[gen] = None THEN [partial EXCEPT ![gen] = Empty] ELSE partial
    /\ Goto(Zero, "receive")
    /\ UNCHANGED <<final, latest, attempt, gen, accepted, saved, fault>>

(* Rank zero prepares the partial directory, whatever an earlier launch    *)
(* left of it, and refuses a generation that is already complete.          *)
Prepare ==
    /\ pc[Zero] = "enter"
    /\ \/ /\ final[gen] # None
          /\ initError' = TRUE
          /\ UNCHANGED partial
       \/ /\ final[gen] = None
          /\ initError' = FALSE
          /\ partial' = [partial EXCEPT ![gen] = Empty]
    /\ Goto(Zero, "sync1")
    /\ UNCHANGED <<final, latest, attempt, gen, accepted, saved, fault>>

(* mkdir, rmtree or fsync raises: the old directory may be there or not. *)
PrepareFails ==
    /\ pc[Zero] = "enter"
    /\ final[gen] = None
    /\ initError' = TRUE
    /\ fault' = TRUE
    /\ \E left \in {partial[gen], None} : partial' = [partial EXCEPT ![gen] = left]
    /\ Goto(Zero, "sync1")
    /\ UNCHANGED <<final, latest, attempt, gen, accepted, saved>>

EnterOther(r) ==
    /\ pc[r] = "enter" /\ r # Zero
    /\ Goto(r, "sync1")
    /\ UNCHANGED <<disk, attempt, gen, accepted, initError, saved, fault>>

(* _broadcast_rank_zero_error: every rank learns rank zero's outcome. *)
Receive(r) ==
    /\ pc[r] = "receive"
    /\ Goto(r, IF initError THEN "failed" ELSE "write")
    /\ UNCHANGED <<disk, attempt, gen, accepted, initError, saved, fault>>

WriteRank(r) ==
    /\ pc[r] = "write"
    /\ partial' = [partial EXCEPT ![gen].ranks[r] = attempt]
    /\ Goto(r, "sync2")
    /\ UNCHANGED <<final, latest, attempt, gen, accepted, initError, saved, fault>>

(* The rank's state cannot be written; its ERROR file says so. *)
WriteRankFails(r) ==
    /\ pc[r] = "write"
    /\ partial' = [partial EXCEPT ![gen].errors = @ \cup {r}]
    /\ fault' = TRUE
    /\ Goto(r, "sync2")
    /\ UNCHANGED <<final, latest, attempt, gen, accepted, initError, saved>>

(* Mutant: only rank zero's own errors stop the commit. *)
Assemble_IgnoresRanks ==
    /\ pc[Zero] = "assemble"
    /\ partial' = [partial EXCEPT ![gen].state = attempt, ![gen].accepted = accepted]
    /\ Goto(Zero, "sync3")
    /\ UNCHANGED <<final, latest, attempt, gen, accepted, initError, saved, fault>>

(* Rank zero adds model, optimizer and checkpoint_state.json, or ERROR.json*)
(* when a rank reported an error or its file is missing.                   *)
Assemble ==
    /\ pc[Zero] = "assemble"
    /\ LET whole == /\ partial[gen].errors = {}
                    /\ \A r \in Ranks : partial[gen].ranks[r] # None
       IN partial' = [partial EXCEPT ![gen] =
                         IF whole THEN [@ EXCEPT !.state = attempt, !.accepted = accepted]
                                  ELSE [@ EXCEPT !.error = TRUE]]
    /\ Goto(Zero, "sync3")
    /\ UNCHANGED <<final, latest, attempt, gen, accepted, initError, saved, fault>>

(* checksums.json and COMPLETE. *)
Seal ==
    /\ pc[Zero] = "seal"
    /\ partial' = [partial EXCEPT ![gen].complete = TRUE]
    /\ Goto(Zero, "rename")
    /\ UNCHANGED <<final, latest, attempt, gen, accepted, initError, saved, fault>>

(* os.replace, which does not replace a directory that has files in it. *)
Rename ==
    /\ pc[Zero] = "rename"
    /\ final[gen] = None
    /\ final' = [final EXCEPT ![gen] = partial[gen]]
    /\ partial' = [partial EXCEPT ![gen] = None]
    /\ Goto(Zero, "point")
    /\ UNCHANGED <<latest, attempt, gen, accepted, initError, saved, fault>>

(* latest.json, for an accepted candidate only. *)
Point ==
    /\ pc[Zero] = "point"
    /\ latest' = IF accepted THEN gen ELSE latest
    /\ Goto(Zero, "sync4")
    /\ UNCHANGED <<partial, final, attempt, gen, accepted, initError, saved, fault>>

(* Writing the shared state, sealing or renaming raises: ERROR.json. *)
CommitFails ==
    /\ pc[Zero] \in {"assemble", "seal", "rename"}
    /\ partial' = [partial EXCEPT ![gen].error = TRUE]
    /\ fault' = TRUE
    /\ Goto(Zero, IF pc[Zero] = "assemble" THEN "sync3" ELSE "sync4")
    /\ UNCHANGED <<final, latest, attempt, gen, accepted, initError, saved>>

(* After the rename an error is swallowed: latest.json stays behind. *)
PointFails ==
    /\ pc[Zero] = "point"
    /\ fault' = TRUE
    /\ Goto(Zero, "sync4")
    /\ UNCHANGED <<disk, attempt, gen, accepted, initError, saved>>

(* The last check, on every rank: the directory is there, or save raises. *)
Check(r) ==
    /\ pc[r] = "check"
    /\ IF final[gen] # None /\ final[gen].complete
       THEN Goto(r, "train") /\ saved' = [saved EXCEPT ![r] = gen]
       ELSE Goto(r, "failed") /\ UNCHANGED saved
    /\ UNCHANGED <<disk, attempt, gen, accepted, initError, fault>>

(* The barrier opens when every rank has arrived, for all of them. *)
Syncs == {"sync1", "sync2", "sync3", "sync4"}

After(r) ==
    CASE pc[r] = "sync1" -> "receive"
      [] pc[r] = "sync2" -> IF r = Zero THEN "assemble" ELSE "sync3"
      [] pc[r] = "sync3" -> IF r = Zero /\ ~partial[gen].error THEN "seal" ELSE "sync4"
      [] pc[r] = "sync4" -> "check"

Barrier ==
    /\ \A r \in Ranks : pc[r] \in Syncs
    /\ pc' = [r \in Ranks |-> After(r)]
    /\ UNCHANGED <<disk, attempt, gen, accepted, initError, saved, fault>>

(* A worker is killed, or an error escapes the handlers above. *)
Die(r) ==
    /\ pc[r] \notin {"down", "dead", "failed"}
    /\ Goto(r, "dead")
    /\ UNCHANGED <<disk, attempt, gen, accepted, initError, saved, fault>>

-----------------------------------------------------------------------------
RankZeroNext == \/ Prepare \/ PrepareFails \/ Assemble \/ Seal \/ Rename \/ Point
                \/ CommitFails \/ PointFails

RankNext(r) == \/ EnterOther(r) \/ Receive(r) \/ WriteRank(r) \/ WriteRankFails(r)
               \/ Check(r) \/ Die(r)

Next == \/ LaunchFresh \/ Resume \/ Train \/ End \/ Barrier \/ RankZeroNext
        \/ \E r \in Ranks : RankNext(r)

Spec == Init /\ [][Next]_vars

-----------------------------------------------------------------------------
(* Properties.                                                             *)

Working == {"train", "enter", "sync1", "receive", "write", "sync2", "assemble",
            "sync3", "seal", "rename", "point", "sync4", "check"}

TypeOK ==
    /\ partial \in [Generations -> Directory \cup {None}]
    /\ final \in [Generations -> Directory \cup {None}]
    /\ latest \in Generations \cup {None}
    /\ attempt \in 0 .. MaxAttempts
    /\ pc \in [Ranks -> Working \cup {"down", "failed", "dead"}]
    /\ gen \in Generations
    /\ accepted \in BOOLEAN
    /\ initError \in BOOLEAN
    /\ saved \in [Ranks -> Generations \cup {None}]
    /\ fault \in BOOLEAN
    /\ attempt = 0 => \A r \in Ranks : pc[r] = "down"

(* A checkpoint whose save returned, on whichever rank, is on disk, and it *)
(* is this launch's own: no rank takes the directory of an earlier launch  *)
(* for the generation it has just saved.                                   *)
AcknowledgedIsOwn ==
    \A r \in Ranks : saved[r] # None =>
        final[saved[r]] # None /\ final[saved[r]].state = attempt

(* When save raises on one rank it raises on all of them: nobody has       *)
(* returned, and nobody is left waiting at a barrier the raising rank will *)
(* never reach.                                                            *)
OrderlyFailure ==
    \A r \in Ranks : pc[r] = "failed" =>
        \A s \in Ranks : pc[s] \in {"receive", "check", "failed", "dead"}

(* What an earlier launch left behind never makes a save fail: it raises   *)
(* only after an I/O error of its own launch, or because that generation   *)
(* is complete already.                                                    *)
FailsOnlyForCause ==
    \A r \in Ranks : pc[r] = "failed" =>
        fault \/ (final[gen] # None /\ final[gen].state # attempt)

(* latest.json names a complete checkpoint that was not rejected. *)
LatestIsAccepted == latest # None => latest \in Resumable

(* The manager implements the write-once registry of whole checkpoints. *)
Summary(d) == [ranks |-> d.ranks, state |-> d.state, accepted |-> d.accepted]

Registry == INSTANCE CheckpointRegistry WITH
    committed <- [g \in Generations |-> IF final[g] = None THEN None
                                                           ELSE Summary(final[g])],
    told <- saved

ImplementsRegistry == Registry!RegistrySpec

-----------------------------------------------------------------------------
(* Why these hold: the inductive invariant.                                *)

At(labels) == \E r \in Ranks : pc[r] \in labels

(* The barriers keep all ranks in one and the same stretch of save(): the  *)
(* labels between two of them.                                             *)
Stretches == {{"enter", "sync1"},
              {"receive", "write", "sync2", "failed"},
              {"assemble", "sync3"},
              {"seal", "rename", "point", "sync4"},
              {"check", "train", "failed"}}

Aligned ==
    /\ \/ \A r \in Ranks : pc[r] = "down"
       \/ \E S \in Stretches : \A r \in Ranks : pc[r] \in S \cup {"dead"}
    /\ \A r \in Ranks : pc[r] \in {"assemble", "seal", "rename", "point"} => r = Zero

(* This launch has committed generation g. *)
Mine(g) == final[g] # None /\ final[g].state = attempt

(* Rank zero found generation-gen complete, or met an error. *)
Cause == fault \/ (final[gen] # None /\ ~Mine(gen))

(* From rank zero's preparation to its rename the directory in use is this *)
(* launch's own, part by part.                                             *)
Opened == \/ At({"write", "sync2", "assemble", "sync3", "seal", "rename"})
          \/ ~initError /\ (pc[Zero] = "sync1" \/ At({"receive"}))

OwnDirectory ==
    Opened =>
        /\ ~initError
        /\ final[gen] = None
        /\ partial[gen] # None
        /\ \A r \in Ranks : partial[gen].ranks[r] \in {None, attempt}
        /\ partial[gen].errors # {} => fault
        /\ partial[gen].error => fault

WrittenOrReported ==
    \A r \in Ranks :
        pc[r] = "sync2" \/ At({"assemble", "sync3"})
            => partial[gen].ranks[r] = attempt \/ r \in partial[gen].errors

(* What rank zero is about to rename. *)
Renaming ==
    /\ pc[Zero] \in {"sync3", "seal", "rename"} /\ ~partial[gen].error =>
          Summary(partial[gen]) = Registry!Whole(attempt, accepted)
    /\ pc[Zero] \in {"seal", "rename"} => ~partial[gen].error
    /\ pc[Zero] = "rename" => partial[gen].complete

(* The generation being saved is new to this launch until it is renamed,   *)
(* and it is renamed before the last check unless an error was met.        *)
Outcome ==
    /\ pc[Zero] = "enter" => ~Mine(gen)
    /\ initError /\ (pc[Zero] = "sync1" \/ At({"receive"})) => Cause
    /\ pc[Zero] = "point" => Mine(gen) /\ final[gen].accepted = accepted
    /\ pc[Zero] = "sync4" \/ At({"check"}) =>
          Mine(gen) \/ (final[gen] = None /\ fault)
    /\ At({"check"}) /\ At({"train"}) => final[gen] # None
    /\ \A r \in Ranks : pc[r] = "failed" =>
          \/ /\ initError /\ Cause
             /\ \A s \in Ranks : pc[s] \in {"receive", "failed", "dead"}
          \/ /\ final[gen] = None /\ fault
             /\ \A s \in Ranks : pc[s] \in {"check", "failed", "dead"}

Committed ==
    \A g \in Generations : final[g] # None =>
        /\ final[g].complete
        /\ final[g].state \in 1 .. attempt
        /\ Mine(g) => g <= gen

SaveInv ==
    /\ TypeOK
    /\ Aligned
    /\ OwnDirectory
    /\ WrittenOrReported
    /\ Renaming
    /\ Outcome
    /\ Committed
    /\ AcknowledgedIsOwn
    /\ LatestIsAccepted
=============================================================================
