------------------------- MODULE AuthoringJobProofs -------------------------
(***************************************************************************)
(* Theorems about AuthoringJob, and at the end about one run of the        *)
(* proposer, which the job takes as one step.  JobInv is inductive: its    *)
(* heart is that only the holder of the flock has read anything, so what   *)
(* it has read is what is there, and that a launch marker comes before the *)
(* proposer's run and stays.  CauseInv says of what is left half done      *)
(* whose work it is, or where a call was cut short, so that a refusal has  *)
(* its cause.                                                              *)
(***************************************************************************)
EXTENDS MCAuthoringJob, FiniteSetTheorems, TLAPS

(* One attempt more than the journal has is an ordinal, if the budget      *)
(* allows it.                                                              *)
LEMMA OrdinalFacts ==
    ASSUME NEW n \in 0 .. MaxAttempts
    PROVE  /\ n \in Nat /\ n <= MaxAttempts
           /\ n < MaxAttempts => n + 1 \in Ordinals
           /\ n > 0 => n \in Ordinals
           /\ 1 .. n \subseteq Ordinals
    BY JobAssumption DEF Ordinals

(* A process outside has read nothing, whatever the journal holds. *)
LEMMA OutsideReads ==
    ASSUME NEW q \in Procs, NEW n \in Nat,
           pc'[q] = "idle", chain'[q] = << >>
    PROVE  Reads(q, n)'
    BY DEF Reads, InFlight

(* While p is inside, the others are outside. *)
LEMMA OthersOutside ==
    ASSUME Locked, NEW p \in Procs, pc[p] # "idle"
    PROVE  \A q \in Procs \ {p} : pc[q] = "idle" /\ chain[q] = << >>
    BY DEF Locked

(* A step that changes neither a launch marker nor a completion nor runs   *)
(* the proposer leaves the journal as it is.                               *)
LEMMA KeptJournal ==
    ASSUME NEW n \in 0 .. MaxAttempts, Journal(n), runs' = runs,
           \A o \in Ordinals : /\ slot'[o].completion = slot[o].completion
                               /\ slot'[o].launched = slot[o].launched
    PROVE  Journal(n)'
    <1>1. Done' = Done
        BY DEF Done
    <1>2. \A o \in Ordinals : o = n + 1 /\ n > 0 => n \in Ordinals
        BY OrdinalFacts
    <1>3. n < MaxAttempts => n + 1 \in Ordinals
        BY OrdinalFacts
    <1> QED
        BY <1>1, <1>2, <1>3 DEF Journal, Terminal

(* The same of the results. *)
LEMMA KeptResult ==
    ASSUME NEW n \in 0 .. MaxAttempts, Resulted(n), UNCHANGED <<result, answer>>,
           \A o \in Ordinals : slot'[o].completion = slot[o].completion
    PROVE  Resulted(n)'
    <1>1. 1 .. n \subseteq Ordinals /\ (n > 0 => n \in Ordinals)
        BY OrdinalFacts
    <1> QED
        BY <1>1 DEF Resulted, Terminal

(* A call that ends, whatever the reason, leaves the invariant true. *)
LEMMA LeaveKeepsInv ==
    ASSUME JobInv, NEW p \in Procs, pc[p] # "idle", NEW how, Leave(p, how),
           how \in {"drift", "ambiguous", "interrupted"},
           UNCHANGED <<files, answer, runs>>, lost' \subseteq Labels
    PROVE  JobInv'
    <1> USE DEF JobInv
    <1>1. TypeOK'
        <2>1. << >> \in Seq(Attempt)
            OBVIOUS
        <2> QED
            BY <2>1 DEF TypeOK, Leave, Goto, files, Labels
    <1>2. \A q \in Procs : pc'[q] = "idle" /\ chain'[q] = << >>
                           /\ inputs'[q] = None /\ got'[q] = None
        BY DEF TypeOK, Locked, Leave, Goto
    <1>3. Locked'
        BY <1>2, JobAssumption DEF Locked, Leave
    <1>4. PICK n \in 0 .. MaxAttempts :
              Journal(n) /\ (\A q \in Procs : Reads(q, n)) /\ Resulted(n)
        OBVIOUS
    <1>5. Journal(n)' /\ Resulted(n)'
        BY <1>4, KeptJournal, KeptResult DEF files
    <1>6. \A q \in Procs : Reads(q, n)'
        BY <1>2, OutsideReads, OrdinalFacts
    <1> QED
        BY <1>1, <1>3, <1>5, <1>6

(* The initial state: an empty journal. *)
LEMMA InitInv == Init => JobInv
    <1> SUFFICES ASSUME Init PROVE JobInv
        OBVIOUS
    <1>1. TypeOK
        <2>1. << >> \in Seq(Attempt) /\ << >> \in Seq(Ordinals)
            OBVIOUS
        <2> QED
            BY <2>1 DEF Init, TypeOK, Slot, Labels
    <1>2. Locked
        BY JobAssumption DEF Init, Locked
    <1>3. Done = 1 .. 0 /\ 0 \in 0 .. MaxAttempts
        BY JobAssumption DEF Init, Done
    <1>4. Journal(0)
        BY <1>3 DEF Journal, Init, Ordinals
    <1>5. \A p \in Procs : Reads(p, 0)
        BY DEF Init, Reads, InFlight
    <1>6. Resulted(0)
        BY DEF Init, Resulted
    <1> QED
        BY <1>1, <1>2, <1>3, <1>4, <1>5, <1>6 DEF JobInv

(* A process enters: it has read nothing yet. *)
LEMMA CallInv ==
    ASSUME JobInv, NEW p \in Procs, NEW in \in Inputs, Call(p, in)
    PROVE  JobInv'
    <1> USE DEF JobInv
    <1>1. TypeOK'
        BY DEF TypeOK, Call, Goto, files, Labels
    <1>2. chain[p] = << >> /\ (\A q \in Procs : pc[q] = "idle")
        BY JobAssumption DEF Call, Locked
    <1>3. \A q \in Procs \ {p} : pc'[q] = "idle" /\ chain'[q] = << >>
        BY <1>2 DEF Call, Goto, TypeOK, Locked
    <1>4. Locked'
        BY <1>2, JobAssumption DEF Call, Goto, Locked, TypeOK
    <1>5. PICK n \in 0 .. MaxAttempts :
              Journal(n) /\ (\A q \in Procs : Reads(q, n)) /\ Resulted(n)
        OBVIOUS
    <1>6. Journal(n)' /\ Resulted(n)'
        BY <1>5, KeptJournal, KeptResult DEF Call, files
    <1>7. Reads(p, n)'
        <2>1. pc'[p] = "open" /\ chain'[p] = << >>
            BY <1>2 DEF Call, Goto, TypeOK
        <2> QED
            BY <2>1, OrdinalFacts DEF Reads, InFlight
    <1>8. \A q \in Procs : Reads(q, n)'
        BY <1>3, <1>7, OutsideReads, OrdinalFacts
    <1> QED
        BY <1>1, <1>4, <1>6, <1>8

(* What is left to show of a step of p that leaves the length of the       *)
(* journal and everybody's results alone and does not end the call.        *)
LEMMA StepOfOne ==
    ASSUME JobInv, NEW n \in 0 .. MaxAttempts,
           NEW p \in Procs, pc[p] # "idle", pc'[p] # "idle",
           UNCHANGED <<lock, inputs>>,
           \A q \in Procs \ {p} : pc'[q] = pc[q] /\ chain'[q] = chain[q]
                                  /\ got'[q] = got[q],
           TypeOK', Journal(n)', Reads(p, n)', Resulted(n)'
    PROVE  JobInv'
    <1> USE DEF JobInv
    <1>1. Locked'
        BY DEF Locked
    <1>2. \A q \in Procs \ {p} : pc'[q] = "idle" /\ chain'[q] = << >>
        BY OthersOutside
    <1>3. \A q \in Procs : Reads(q, n)'
        BY <1>2, OutsideReads, OrdinalFacts
    <1> QED
        BY <1>1, <1>3

(* The steps that only look: the manifest, and the slots one by one. *)
LEMMA LookInv ==
    ASSUME JobInv, NEW p \in Procs,
           \/ Open(p) \/ ExamineCompleted(p) \/ ExamineEnded(p)
           \/ ExamineOpen(p) /\ ValidChain(chain[p])
    PROVE  JobInv'
    <1> USE DEF JobInv
    <1>1. PICK n \in 0 .. MaxAttempts :
              Journal(n) /\ (\A q \in Procs : Reads(q, n)) /\ Resulted(n)
        OBVIOUS
    <1>2. slot' = slot /\ runs' = runs /\ UNCHANGED <<result, answer, lock, inputs>>
        BY DEF Open, ExamineCompleted, ExamineEnded, ExamineOpen, files
    <1>3. Journal(n)' /\ Resulted(n)'
        BY <1>1, <1>2, KeptJournal, KeptResult
    <1>4. chain[p] \in Seq(Attempt) /\ Len(chain[p]) \in Nat /\ Len(chain[p]) <= n
        BY <1>1 DEF Reads, TypeOK
    <1>5. CASE Open(p)
        <2>1. TypeOK'
            BY <1>5 DEF TypeOK, Open, Goto, Labels
        <2>2. pc[p] = "open" /\ pc'[p] = "examine" /\ chain' = chain
            BY <1>5 DEF Open, Goto, TypeOK
        <2>3. Reads(p, n)'
            BY <2>2, <1>1, <1>2 DEF Reads, InFlight
        <2>4. \A q \in Procs \ {p} : pc'[q] = pc[q] /\ chain'[q] = chain[q] /\ got'[q] = got[q]
            BY <1>5 DEF Open, Goto, TypeOK
        <2> QED
            BY <1>2, <1>3, <2>1, <2>2, <2>3, <2>4, StepOfOne
    <1>6. CASE ExamineCompleted(p)
        <2>1. Ordinal(p) \in Ordinals /\ slot[Ordinal(p)].completion # None
            BY <1>6 DEF ExamineCompleted, Drifted
        <2>2. Ordinal(p) \in 1 .. n /\ Ordinal(p) = Len(chain[p]) + 1
            BY <2>1, <1>1 DEF Done, Journal, Ordinal
        <2>3. slot[Ordinal(p)].completion \in Attempt
            BY <2>1 DEF TypeOK, Slot
        <2>4. chain' = [chain EXCEPT ![p] = Append(chain[p], slot[Ordinal(p)].completion)]
              /\ pc' = pc /\ pc[p] = "examine"
            BY <1>6 DEF ExamineCompleted
        <2>5. TypeOK'
            BY <1>6, <2>3, <2>4, <1>4 DEF TypeOK, ExamineCompleted, files
        <2>6. chain'[p] = Append(chain[p], slot[Ordinal(p)].completion)
            BY <2>4 DEF TypeOK
        <2>7. Reads(p, n)'
            <3>1. Len(chain'[p]) = Ordinal(p)
                BY <2>6, <2>2, <1>4, <2>3
            <3>2. \A i \in 1 .. Ordinal(p) : chain'[p][i] = slot[i].completion
                BY <2>6, <2>2, <1>4, <2>3, <1>1 DEF Reads
            <3> QED
                BY <3>1, <3>2, <2>2, <2>4, <1>2 DEF Reads, InFlight
        <2>8. \A q \in Procs \ {p} : pc'[q] = pc[q] /\ chain'[q] = chain[q] /\ got'[q] = got[q]
            BY <1>6, <2>4 DEF ExamineCompleted, TypeOK
        <2> QED
            BY <1>2, <1>3, <2>4, <2>5, <2>7, <2>8, StepOfOne
    <1>7. CASE ExamineEnded(p)
        <2>1. pc[p] = "examine" /\ Ended(p) /\ pc'[p] = "result" /\ chain' = chain
            BY <1>7 DEF ExamineEnded, Goto, TypeOK
        <2>2. Len(chain[p]) = n
            <3>1. Len(chain[p]) > 0
                BY <2>1, <1>4 DEF Ended
            <3>2. Len(chain[p]) \in Ordinals
                BY <3>1, <1>4, OrdinalFacts
            <3> QED
                BY <3>1, <3>2, <2>1, <1>4, <1>1 DEF Journal, Reads, Ended
        <2>3. TypeOK'
            BY <1>7 DEF TypeOK, ExamineEnded, Goto, Labels, files
        <2>4. Reads(p, n)'
            BY <2>1, <2>2, <1>1, <1>2 DEF Reads, InFlight, Ended, Terminal
        <2>5. \A q \in Procs \ {p} : pc'[q] = pc[q] /\ chain'[q] = chain[q] /\ got'[q] = got[q]
            BY <1>7 DEF ExamineEnded, Goto, TypeOK
        <2> QED
            BY <1>2, <1>3, <2>1, <2>3, <2>4, <2>5, StepOfOne
    <1>8. CASE ExamineOpen(p) /\ ValidChain(chain[p])
        <2>1. /\ pc[p] = "examine" /\ ~Ended(p) /\ pc'[p] = "slot" /\ chain' = chain
              /\ Ordinal(p) \in Ordinals /\ ~slot[Ordinal(p)].launched
            BY <1>8 DEF ExamineOpen, Goto, TypeOK, Drifted
        <2>2. Len(chain[p]) = n /\ n < MaxAttempts /\ Ordinal(p) = n + 1
            <3>1. ~(Ordinal(p) <= n)
                BY <2>1, <1>1 DEF Journal
            <3> QED
                BY <3>1, <2>1, <1>4, JobAssumption DEF Ordinal, Ordinals
        <2>3. TypeOK'
            BY <1>8 DEF TypeOK, ExamineOpen, Goto, Labels, files
        <2>4. Reads(p, n)'
            BY <2>1, <2>2, <1>1, <1>2 DEF Reads, InFlight, Ended, Terminal
        <2>5. \A q \in Procs \ {p} : pc'[q] = pc[q] /\ chain'[q] = chain[q] /\ got'[q] = got[q]
            BY <1>8 DEF ExamineOpen, Goto, TypeOK
        <2> QED
            BY <1>2, <1>3, <2>1, <2>3, <2>4, <2>5, StepOfOne
    <1> QED
        BY <1>5, <1>6, <1>7, <1>8

(* The steps up to the commitment to run the proposer: directory, request, *)
(* last look, launch marker.                                               *)
LEMMA CommitInv ==
    ASSUME JobInv, NEW p \in Procs, pc'[p] # "idle",
           MakeSlot(p) \/ PublishRequest(p) \/ CheckMark(p) \/ PublishMark(p)
    PROVE  JobInv'
    <1> USE DEF JobInv
    <1>1. PICK n \in 0 .. MaxAttempts :
              Journal(n) /\ (\A q \in Procs : Reads(q, n)) /\ Resulted(n)
        OBVIOUS
    <1>2. /\ pc[p] \in {"slot", "request", "mark", "launch"}
          /\ Len(chain[p]) = n /\ n < MaxAttempts /\ ~Ended(p) /\ ~slot[n + 1].launched
        BY <1>1 DEF Reads, MakeSlot, PublishRequest, CheckMark, PublishMark
    <1>3. Ordinal(p) = n + 1 /\ n + 1 \in Ordinals
        BY <1>2, OrdinalFacts DEF Ordinal
    <1>4. UNCHANGED <<lock, inputs, chain, got, result, answer, runs, outcome, manifest,
                      payload, described, lost>>
        BY DEF MakeSlot, PublishRequest, CheckMark, PublishMark, Refuse, Leave, Goto,
               files, TypeOK
    <1>5. \A q \in Procs \ {p} : pc'[q] = pc[q] /\ chain'[q] = chain[q] /\ got'[q] = got[q]
        BY <1>4 DEF MakeSlot, PublishRequest, CheckMark, PublishMark, Refuse, Leave, Goto, TypeOK
    <1>6. CASE MakeSlot(p) \/ PublishRequest(p) \/ CheckMark(p)
        <2>1. /\ pc'[p] \in {"request", "mark", "launch"}
              /\ pc' = [pc EXCEPT ![p] = pc'[p]]
              /\ \/ slot' = slot
                 \/ slot' = [slot EXCEPT ![n + 1].dir = TRUE]
                 \/ slot' = [slot EXCEPT ![n + 1].request = chain[p]]
            BY <1>3, <1>6 DEF MakeSlot, PublishRequest, CheckMark, Refuse, Leave, Goto,
                              files, TypeOK
        <2>2. PICK r \in Slot : /\ \/ slot' = slot
                                   \/ slot' = [slot EXCEPT ![n + 1] = r]
                                /\ r.completion = slot[n + 1].completion
                                /\ r.launched = slot[n + 1].launched
            <3>1. slot[n + 1] \in Slot /\ chain[p] \in Seq(Attempt)
                BY <1>3 DEF TypeOK
            <3>2. [slot[n + 1] EXCEPT !.dir = TRUE] \in Slot
                BY <3>1 DEF Slot
            <3>3. [slot[n + 1] EXCEPT !.request = chain[p]] \in Slot
                BY <3>1 DEF Slot
            <3> QED
                BY <2>1, <3>1, <3>2, <3>3 DEF Slot
        <2>3. /\ slot' \in [Ordinals -> Slot]
              /\ \A o \in Ordinals : /\ slot'[o].completion = slot[o].completion
                                     /\ slot'[o].launched = slot[o].launched
            BY <2>2, <1>3 DEF TypeOK
        <2>4. TypeOK'
            <3>1. pc' \in [Procs -> Labels]
                BY <2>1 DEF TypeOK, Labels
            <3> QED
                BY <2>3, <3>1, <1>4 DEF TypeOK
        <2>5. Journal(n)' /\ Resulted(n)'
            BY <2>3, <1>1, <1>4, KeptJournal, KeptResult
        <2>6. \A i \in 1 .. n : i \in Ordinals
            BY OrdinalFacts
        <2>7. Reads(p, n)'
            BY <2>1, <2>3, <2>6, <1>1, <1>2, <1>3, <1>4 DEF Reads, InFlight, Ended, Terminal
        <2> QED
            BY <2>4, <2>5, <2>7, <1>2, <1>4, <1>5, StepOfOne
    <1>7. CASE PublishMark(p)
        <2>1. /\ pc[p] = "launch" /\ pc'[p] = "propose"
              /\ pc' = [pc EXCEPT ![p] = "propose"]
              /\ slot' = [slot EXCEPT ![n + 1].launched = TRUE]
            BY <1>3, <1>7 DEF PublishMark, Goto, TypeOK
        <2>2. /\ slot' \in [Ordinals -> Slot]
              /\ slot'[n + 1].launched
              /\ \A o \in Ordinals : /\ slot'[o].completion = slot[o].completion
                                     /\ o # n + 1 => slot'[o].launched = slot[o].launched
            BY <2>1, <1>3 DEF TypeOK, Slot
        <2>3. TypeOK'
            BY <2>1, <2>2, <1>4 DEF TypeOK, Labels
        <2>4. Len(runs) = n
            BY <1>1, <1>2 DEF Journal
        <2>5. n > 0 => n \in Ordinals /\ ~Terminal(slot[n].completion.status)
            <3>1. n > 0 => chain[p] # << >> /\ chain[p][n] = slot[n].completion
                BY <1>1, <1>2 DEF Reads, TypeOK
            <3> QED
                BY <3>1, <1>2, OrdinalFacts DEF Ended
        <2>6. Journal(n)'
            <3>1. Done' = 1 .. n
                BY <2>2, <1>1 DEF Done, Journal
            <3>2. Len(runs') \in {n, n + 1} /\ (\A i \in 1 .. Len(runs') : runs'[i] = i)
                BY <1>1, <1>4 DEF Journal
            <3>3. \A o \in Ordinals : o <= n => slot'[o].launched
                BY <2>2, <1>1 DEF Journal
            <3>4. \A o \in Ordinals : slot'[o].launched => o <= n + 1
                BY <2>2, <1>1 DEF Journal
            <3>5. n > 0 => ~Terminal(slot'[n].completion.status)
                BY <2>2, <2>5
            <3> QED
                BY <3>1, <3>2, <3>3, <3>4, <3>5, <2>2, <1>1, <1>2, <1>4 DEF Journal, Terminal
        <2>7. Resulted(n)'
            BY <2>2, <1>1, <1>4, KeptResult
        <2>8. \A i \in 1 .. n : i \in Ordinals
            BY OrdinalFacts
        <2>9. Reads(p, n)'
            BY <2>1, <2>2, <2>4, <2>8, <1>1, <1>2, <1>3, <1>4 DEF Reads, InFlight, Ended, Terminal
        <2> QED
            BY <2>1, <2>3, <2>6, <2>7, <2>9, <1>4, <1>5, StepOfOne
    <1> QED
        BY <1>6, <1>7

(* The proposer runs, and its answer goes into the quarantine. *)
LEMMA ProposeInv ==
    ASSUME JobInv, NEW p \in Procs, Propose(p) \/ WritePayload(p) \/ WriteDescriptor(p)
    PROVE  JobInv'
    <1> USE DEF JobInv
    <1>1. PICK n \in 0 .. MaxAttempts :
              Journal(n) /\ (\A q \in Procs : Reads(q, n)) /\ Resulted(n)
        OBVIOUS
    <1>2. /\ pc[p] \in {"propose", "payload", "descriptor"}
          /\ Len(chain[p]) = n /\ n < MaxAttempts /\ ~Ended(p) /\ slot[n + 1].launched
        BY <1>1 DEF Reads, InFlight, Propose, WritePayload, WriteDescriptor
    <1>3. Ordinal(p) = n + 1 /\ n + 1 \in Ordinals
        BY <1>2, OrdinalFacts DEF Ordinal
    <1>4. UNCHANGED <<slot, lock, inputs, chain, result, answer, outcome, manifest, lost>>
        BY DEF Propose, WritePayload, WriteDescriptor, files
    <1>5. Resulted(n)'
        BY <1>1, <1>4, KeptResult
    <1>6. CASE Propose(p)
        <2>1. /\ pc[p] = "propose" /\ pc' = [pc EXCEPT ![p] = "payload"]
              /\ pc'[p] = "payload"
              /\ runs' = Append(runs, n + 1) /\ Len(runs) = n
              /\ UNCHANGED <<payload, described>>
            BY <1>1, <1>3, <1>6 DEF Propose, Goto, Reads, TypeOK, files
        <2>2. PICK st \in Statuses :
                  /\ st = "repair_requested" => n + 1 < MaxAttempts
                  /\ st = "rejected" => ~(n + 1 < MaxAttempts)
                  /\ got' = [got EXCEPT ![p] = [run |-> n + 1, status |-> st]]
            BY <1>3, <1>6, <2>1 DEF Propose, Statuses
        <2>3. [run |-> n + 1, status |-> st] \in Attempt
            BY DEF Attempt
        <2>4. got'[p] = [run |-> n + 1, status |-> st]
            BY <2>2 DEF TypeOK
        <2>5. runs' \in Seq(Ordinals) /\ Len(runs') = n + 1
            BY <2>1, <1>3 DEF TypeOK
        <2>6. TypeOK'
            BY <2>1, <2>2, <2>3, <2>5, <1>4 DEF TypeOK, Labels
        <2>7. \A i \in 1 .. Len(runs') : runs'[i] = i
            BY <2>1, <2>5, <1>1 DEF Journal, TypeOK
        <2>8. Journal(n)'
            BY <2>5, <2>7, <1>1, <1>2, <1>4 DEF Journal, Done, Terminal
        <2>9. got'[p].status = "rejected" => n + 1 = MaxAttempts
            BY <2>2, <2>4, <1>2, JobAssumption
        <2>10. got'[p].status = "repair_requested" => n + 1 < MaxAttempts
            BY <2>2, <2>4
        <2>11. Reads(p, n)'
            BY <2>1, <2>3, <2>4, <2>5, <2>9, <2>10, <1>1, <1>2, <1>4
            DEF Reads, InFlight, Ended, Terminal
        <2>12. \A q \in Procs \ {p} : pc'[q] = pc[q] /\ chain'[q] = chain[q] /\ got'[q] = got[q]
            BY <2>1, <2>2, <1>4 DEF TypeOK
        <2> QED
            BY <2>1, <2>6, <2>8, <2>11, <2>12, <1>4, <1>5, StepOfOne
    <1>7. CASE WritePayload(p) \/ WriteDescriptor(p)
        <2>1. /\ pc[p] \in {"payload", "descriptor"} /\ pc'[p] \in {"descriptor", "complete"}
              /\ pc' = [pc EXCEPT ![p] = pc'[p]]
              /\ UNCHANGED <<got, runs>>
            BY <1>7 DEF WritePayload, WriteDescriptor, Goto, TypeOK
        <2>2. got[p] \in Attempt
            BY <2>1, <1>1 DEF Reads
        <2>3. TypeOK'
            BY <2>1, <2>2, <1>4, <1>7 DEF TypeOK, Labels, WritePayload, WriteDescriptor
        <2>4. Journal(n)'
            BY <2>1, <1>1, <1>4, KeptJournal
        <2>5. Reads(p, n)'
            BY <2>1, <1>1, <1>2, <1>4 DEF Reads, InFlight, Ended, Terminal
        <2>6. \A q \in Procs \ {p} : pc'[q] = pc[q] /\ chain'[q] = chain[q] /\ got'[q] = got[q]
            BY <2>1, <1>4 DEF TypeOK
        <2> QED
            BY <2>1, <2>3, <2>4, <2>5, <2>6, <1>2, <1>4, <1>5, StepOfOne
    <1> QED
        BY <1>6, <1>7

(* The completion: the journal is one attempt longer. *)
LEMMA CompletionInv ==
    ASSUME JobInv, NEW p \in Procs, PublishCompletion(p), pc'[p] # "idle"
    PROVE  JobInv'
    <1> USE DEF JobInv
    <1>1. PICK n \in 0 .. MaxAttempts :
              Journal(n) /\ (\A q \in Procs : Reads(q, n)) /\ Resulted(n)
        OBVIOUS
    <1>0. n \in Nat /\ MaxAttempts \in Nat
        BY JobAssumption
    <1>2. /\ pc[p] = "complete" /\ Len(chain[p]) = n /\ n < MaxAttempts /\ ~Ended(p)
          /\ slot[n + 1].launched /\ Len(runs) = n + 1 /\ got[p] \in Attempt
          /\ got[p].run = n + 1
          /\ got[p].status = "repair_requested" => n + 1 < MaxAttempts
          /\ got[p].status = "rejected" => n + 1 = MaxAttempts
        BY <1>1 DEF Reads, InFlight, PublishCompletion
    <1>3. Ordinal(p) = n + 1 /\ n + 1 \in Ordinals /\ n + 1 \in 0 .. MaxAttempts
        BY <1>2, OrdinalFacts, JobAssumption DEF Ordinal
    <1>4. /\ slot' = [slot EXCEPT ![n + 1].completion = got[p]]
          /\ chain' = [chain EXCEPT ![p] = Append(chain[p], got[p])]
          /\ got' = [got EXCEPT ![p] = None]
          /\ pc' = [pc EXCEPT ![p] = IF Terminal(got[p].status) THEN "result" ELSE "slot"]
          /\ UNCHANGED <<manifest, payload, described, result, lock, inputs, answer,
                         outcome, runs, lost>>
        BY <1>2, <1>3 DEF PublishCompletion, Refuse, Leave, Goto, TypeOK
    <1>5. /\ slot' \in [Ordinals -> Slot]
          /\ slot'[n + 1].completion = got[p] /\ slot'[n + 1].launched
          /\ \A o \in Ordinals : /\ slot'[o].launched = slot[o].launched
                                 /\ o # n + 1 => slot'[o].completion = slot[o].completion
        <2>1. PICK r \in Slot : r = [slot[n + 1] EXCEPT !.completion = got[p]]
            <3>1. slot[n + 1] \in Slot
                BY <1>3 DEF TypeOK
            <3> HIDE DEF JobInv
            <3> QED
                BY <3>1, <1>2 DEF Slot
        <2>2. r.completion = got[p] /\ r.launched = slot[n + 1].launched
            BY <2>1, <1>3 DEF TypeOK, Slot
        <2>3. slot' = [slot EXCEPT ![n + 1] = r]
            BY <2>1, <1>3, <1>4 DEF TypeOK
        <2> QED
            BY <2>2, <2>3, <1>2, <1>3 DEF TypeOK
    <1>6. chain[p] \in Seq(Attempt)
        BY DEF TypeOK
    <1>7. /\ chain'[p] = Append(chain[p], got[p]) /\ chain'[p] \in Seq(Attempt)
          /\ Len(chain'[p]) = n + 1 /\ chain'[p][n + 1] = got[p]
          /\ \A i \in 1 .. n : chain'[p][i] = chain[p][i]
        BY <1>2, <1>4, <1>6 DEF TypeOK
    <1>8. n > 0 => n \in Ordinals /\ ~Terminal(slot[n].completion.status)
        <2>1. n > 0 => chain[p] # << >> /\ chain[p][n] = slot[n].completion
            BY <1>0, <1>1, <1>2 DEF Reads
        <2> QED
            BY <2>1, <1>2, OrdinalFacts DEF Ended
    <1>9. TypeOK'
        <2>1. pc' \in [Procs -> Labels]
            BY <1>4 DEF TypeOK, Labels
        <2>2. chain' \in [Procs -> Seq(Attempt)]
            BY <1>4, <1>7 DEF TypeOK
        <2> QED
            BY <2>1, <2>2, <1>4, <1>5 DEF TypeOK
    <1>10. Journal(n + 1)'
        <2>1. Done' = 1 .. n + 1
            <3>1. got[p] # None
                BY <1>2, JobAssumption
            <3>2. \A o \in Ordinals : o \in Done' <=> o = n + 1 \/ o \in Done
                BY <3>1, <1>3, <1>5 DEF Done
            <3>3. Done' \subseteq Ordinals /\ Done \subseteq Ordinals
                BY DEF Done
            <3>4. Done' = Done \cup {n + 1}
                BY <3>2, <3>3, <1>3
            <3>5. Done = 1 .. n
                BY <1>1 DEF Journal
            <3> QED
                BY <3>4, <3>5, <1>0
        <2>2. Len(runs') = n + 1 /\ (\A i \in 1 .. Len(runs') : runs'[i] = i)
            BY <1>1, <1>2, <1>4 DEF Journal
        <2>3. \A o \in Ordinals : o <= n + 1 =>
                  /\ slot'[o].launched
                  /\ slot'[o].completion.run = o
                  /\ slot'[o].completion.status = "repair_requested" => o < MaxAttempts
                  /\ slot'[o].completion.status = "rejected" => o = MaxAttempts
            <3> TAKE o \in Ordinals
            <3>1. CASE o = n + 1
                BY <3>1, <1>2, <1>5
            <3>2. CASE o # n + 1
                BY <3>2, <1>1, <1>5 DEF Journal, Ordinals
            <3> QED
                BY <3>1, <3>2
        <2>4. \A o \in Ordinals : o < n + 1 => ~Terminal(slot'[o].completion.status)
            <3> SUFFICES ASSUME NEW o \in Ordinals, o < n + 1
                         PROVE  ~Terminal(slot'[o].completion.status)
                OBVIOUS
            <3>1. CASE o = n
                BY <3>1, <1>5, <1>8 DEF Ordinals
            <3>2. CASE o < n
                BY <3>2, <1>0, <1>1, <1>5 DEF Journal, Ordinals
            <3> QED
                BY <3>1, <3>2, <1>0 DEF Ordinals
        <2>5. \A o \in Ordinals : slot'[o].launched => o <= n + 1
            BY <1>1, <1>5 DEF Journal
        <2> QED
            BY <2>1, <2>2, <2>3, <2>4, <2>5 DEF Journal, Terminal, Ordinals
    <1>11. result = None /\ (\A q \in Procs : answer[q] = None)
        <2>1. result = None
            BY <1>1, <1>8 DEF Resulted
        <2> QED
            BY <2>1, <1>1 DEF Resulted
    <1>12. Resulted(n + 1)'
        BY <1>4, <1>11 DEF Resulted
    <1>13. Reads(p, n + 1)'
        <2>1. \A i \in 1 .. n + 1 : chain'[p][i] = slot'[i].completion
            <3> TAKE i \in 1 .. n + 1
            <3>1. CASE i = n + 1
                BY <3>1, <1>5, <1>7
            <3>2. CASE i # n + 1
                <4>1. i \in 1 .. n /\ i \in Ordinals
                    BY <3>2, OrdinalFacts
                <4> QED
                    BY <4>1, <3>2, <1>1, <1>2, <1>5, <1>7 DEF Reads
            <3> QED
                BY <3>1, <3>2
        <2>2. Ended(p)' <=> Terminal(got[p].status)
            <3>1. chain'[p] # << >>
                <4>1. Len(<< >>) = 0
                    OBVIOUS
                <4>2. Len(chain'[p]) # 0
                    <5>1. n + 1 # 0
                        BY <1>0
                    <5> QED
                        BY <5>1, <1>7
                <4> QED
                    BY <4>1, <4>2
            <3>2. chain'[p][Len(chain'[p])] = got[p]
                BY <1>7
            <3> QED
                BY <3>1, <3>2 DEF Ended, Terminal
        <2>3. ~Terminal(got[p].status) => n + 1 < MaxAttempts
            BY <1>2 DEF Attempt, Statuses, Terminal
        <2>4. n + 1 < MaxAttempts => ~slot'[n + 2].launched
            <3>1. n + 1 < MaxAttempts => n + 2 \in Ordinals
                BY JobAssumption DEF Ordinals
            <3> QED
                BY <3>1, <1>1, <1>5 DEF Journal
        <2>5. pc'[p] = IF Terminal(got[p].status) THEN "result" ELSE "slot"
            BY <1>4 DEF TypeOK
        <2>6. n + 1 + 1 = n + 2
            OBVIOUS
        <2> QED
            BY <2>1, <2>2, <2>3, <2>4, <2>5, <2>6, <1>7 DEF Reads, InFlight
    <1>14. \A q \in Procs \ {p} : pc'[q] = pc[q] /\ chain'[q] = chain[q] /\ got'[q] = got[q]
        BY <1>4 DEF TypeOK
    <1> QED
        BY <1>2, <1>3, <1>4, <1>9, <1>10, <1>12, <1>13, <1>14, StepOfOne

(* The result: the whole chain, to whoever asks. *)
LEMMA ResultInv ==
    ASSUME JobInv, NEW p \in Procs, PublishResult(p),
           ValidChain(chain[p]) /\ result \in {None, chain[p]}
    PROVE  JobInv'
    <1> USE DEF JobInv
    <1>1. PICK n \in 0 .. MaxAttempts :
              Journal(n) /\ (\A q \in Procs : Reads(q, n)) /\ Resulted(n)
        OBVIOUS
    <1>2. /\ pc[p] = "result" /\ result' = chain[p]
          /\ answer' = [answer EXCEPT ![p] = chain[p]]
          /\ Leave(p, "answered")
          /\ UNCHANGED <<manifest, slot, payload, described, runs, lost>>
        BY DEF PublishResult
    <1>3. chain[p] \in Seq(Attempt) /\ Len(chain[p]) = n /\ Ended(p)
        BY <1>1, <1>2 DEF TypeOK, Reads
    <1>4. TypeOK'
        <2>1. << >> \in Seq(Attempt)
            OBVIOUS
        <2> QED
            BY <2>1, <1>2, <1>3 DEF TypeOK, Leave, Goto, Labels
    <1>5. \A q \in Procs : pc'[q] = "idle" /\ chain'[q] = << >>
                           /\ inputs'[q] = None /\ got'[q] = None
        BY <1>2 DEF TypeOK, Locked, Leave, Goto
    <1>6. Locked'
        BY <1>2, <1>5, JobAssumption DEF Locked, Leave
    <1>7. Journal(n)'
        BY <1>1, <1>2, KeptJournal
    <1>8. Resulted(n)'
        <2>1. \A q \in Procs : answer'[q] # None => answer'[q] = chain[p]
            BY <1>1, <1>2 DEF Resulted, TypeOK
        <2> QED
            BY <2>1, <1>1, <1>2, <1>3 DEF Resulted, Reads, Ended
    <1>9. \A q \in Procs : Reads(q, n)'
        BY <1>5, OutsideReads, OrdinalFacts
    <1> QED
        BY <1>4, <1>6, <1>7, <1>8, <1>9

(* A step that ends the call by refusing it. *)
LEMMA RefuseInv ==
    ASSUME JobInv, NEW p \in Procs, pc[p] # "idle",
           NEW how \in {"drift", "ambiguous"}, Refuse(p, how)
    PROVE  JobInv'
    BY LeaveKeepsInv DEF Refuse, JobInv, TypeOK

LEMMA StepInv ==
    ASSUME JobInv, NEW p \in Procs, Step(p)
    PROVE  JobInv'
    <1>1. CASE Open(p) \/ ExamineCompleted(p) \/ ExamineEnded(p)
        BY <1>1, LookInv
    <1>2. CASE OpenDrifted(p) \/ ExamineDrifted(p) \/ ExamineAmbiguous(p)
        BY <1>2, RefuseInv DEF OpenDrifted, ExamineDrifted, ExamineAmbiguous
    <1>3. CASE ExamineOpen(p)
        BY <1>3, LookInv, RefuseInv DEF ExamineOpen
    <1>4. CASE MakeSlot(p)
        <2>1. pc'[p] # "idle"
            BY <1>4 DEF MakeSlot, Goto, JobInv, TypeOK
        <2> QED
            BY <2>1, <1>4, CommitInv
    <1>5. CASE PublishRequest(p)
        <2>1. pc'[p] # "idle" \/ Refuse(p, "drift")
            BY <1>5 DEF PublishRequest, Goto, JobInv, TypeOK
        <2>2. pc[p] # "idle"
            BY <1>5 DEF PublishRequest
        <2> QED
            BY <2>1, <2>2, <1>5, CommitInv, RefuseInv
    <1>6. CASE CheckMark(p)
        <2>1. pc'[p] # "idle" \/ Refuse(p, "ambiguous")
            BY <1>6 DEF CheckMark, Goto, JobInv, TypeOK
        <2>2. pc[p] # "idle"
            BY <1>6 DEF CheckMark
        <2> QED
            BY <2>1, <2>2, <1>6, CommitInv, RefuseInv
    <1>7. CASE PublishMark(p)
        <2>1. pc'[p] # "idle"
            BY <1>7 DEF PublishMark, Goto, JobInv, TypeOK
        <2> QED
            BY <2>1, <1>7, CommitInv
    <1>8. CASE Propose(p) \/ WritePayload(p) \/ WriteDescriptor(p)
        BY <1>8, ProposeInv
    <1>9. CASE PublishCompletion(p)
        <2>1. pc'[p] # "idle" \/ Refuse(p, "drift")
            BY <1>9 DEF PublishCompletion, Goto, JobInv, TypeOK
        <2>2. pc[p] # "idle"
            BY <1>9 DEF PublishCompletion
        <2> QED
            BY <2>1, <2>2, <1>9, CompletionInv, RefuseInv
    <1>10. CASE PublishResult(p)
        BY <1>10, ResultInv, RefuseInv DEF PublishResult
    <1> QED
        BY <1>1, <1>2, <1>3, <1>4, <1>5, <1>6, <1>7, <1>8, <1>9, <1>10 DEF Step

LEMMA InterruptInv ==
    ASSUME JobInv, NEW p \in Procs, Interrupt(p)
    PROVE  JobInv'
    <1>1. lost' \subseteq Labels
        BY DEF Interrupt, JobInv, TypeOK
    <1> QED
        BY <1>1, LeaveKeepsInv DEF Interrupt

LEMMA StutterInv == JobInv /\ UNCHANGED vars => JobInv'
    <1> SUFFICES ASSUME JobInv, UNCHANGED vars PROVE JobInv'
        OBVIOUS
    <1> USE DEF vars, files, local, JobInv
    <1>1. TypeOK' /\ Locked'
        BY DEF TypeOK, Locked
    <1>2. PICK n \in 0 .. MaxAttempts :
              Journal(n) /\ (\A q \in Procs : Reads(q, n)) /\ Resulted(n)
        OBVIOUS
    <1>3. Journal(n)' /\ Resulted(n)'
        BY <1>2, KeptJournal, KeptResult
    <1>4. \A q \in Procs : Reads(q, n)'
        BY <1>2 DEF Reads, Ended, Terminal, InFlight
    <1> QED
        BY <1>1, <1>3, <1>4

LEMMA NextInv == JobInv /\ [Next]_vars => JobInv'
    BY StepInv, InterruptInv, CallInv, StutterInv DEF Next

(* In every reachable state, for any number of processes, inputs and       *)
(* attempts, the files are one chain of attempts with at most one launch   *)
(* beyond it, and whoever is inside works at its end.                      *)
THEOREM JobInvariant == Spec => []JobInv
    BY InitInv, NextInv, PTL DEF Spec

(* The proposer is never run twice for one attempt, however often the job  *)
(* is interrupted and resumed.                                             *)
THEOREM ProposerRunsOnce == Spec => []OncePerAttempt
    <1>1. JobInv => OncePerAttempt
        BY DEF JobInv, Journal, OncePerAttempt
    <1> QED
        BY <1>1, JobInvariant, PTL

(* What the journal holds, as a sequence. *)
LEMMA CompletedFacts ==
    ASSUME TypeOK, NEW n \in 0 .. MaxAttempts, Journal(n)
    PROVE  /\ Completed \in Seq(Attempt)
           /\ Len(Completed) = n
           /\ \A i \in 1 .. n : Completed[i] = slot[i].completion
    <1>1. Done = 1 .. n /\ n \in Nat /\ 1 .. n \subseteq Ordinals
        BY OrdinalFacts DEF Journal
    <1>2. \A i \in 1 .. n : slot[i].completion \in Attempt
        BY <1>1 DEF TypeOK, Slot, Done
    <1>3. Completed = [i \in 1 .. n |-> slot[i].completion]
        BY <1>1 DEF Completed
    <1> QED
        BY <1>1, <1>2, <1>3

LEMMA SameSequence ==
    ASSUME NEW S, NEW a \in Seq(S), NEW b \in Seq(S), Len(a) = Len(b),
           \A i \in 1 .. Len(a) : a[i] = b[i]
    PROVE  a = b
    OBVIOUS

(* All answers are the whole chain, and it has ended. *)
THEOREM AnswersFinal == Spec => []AnswersAreFinal
    <1>1. JobInv => AnswersAreFinal
        <2> SUFFICES ASSUME JobInv, NEW p \in Procs, answer[p] # None
                     PROVE  /\ answer[p] = Completed
                            /\ answer[p] = result
                            /\ Terminal(answer[p][Len(answer[p])].status)
            BY DEF AnswersAreFinal
        <2>1. PICK n \in 0 .. MaxAttempts : Journal(n) /\ Resulted(n)
            BY DEF JobInv
        <2>2. /\ answer[p] = result /\ result \in Seq(Attempt) /\ Len(result) = n /\ n > 0
              /\ \A i \in 1 .. n : result[i] = slot[i].completion
              /\ Terminal(slot[n].completion.status)
            BY <2>1 DEF JobInv, TypeOK, Resulted
        <2>3. result = Completed
            BY <2>1, <2>2, CompletedFacts, SameSequence DEF JobInv
        <2> QED
            BY <2>2, <2>3, OrdinalFacts
    <1> QED
        BY <1>1, JobInvariant, PTL

(* The number of completed attempts is the length of the chain. *)
LEMMA DoneFacts ==
    ASSUME NEW n \in 0 .. MaxAttempts, Journal(n)
    PROVE  Cardinality(Done) = n
    BY OrdinalFacts, FS_Interval DEF Journal

-----------------------------------------------------------------------------
(* The refinement of AuthoringChain.                                       *)

LEMMA InitChain == Init => Chain!ChainInit
    <1> SUFFICES ASSUME Init PROVE Chain!ChainInit
        OBVIOUS
    <1>1. Done = {}
        BY DEF Init, Done
    <1>2. Completed = << >>
        BY <1>1 DEF Completed
    <1>3. ~(Len(runs) > Cardinality(Done))
        BY <1>1, FS_EmptySet DEF Init
    <1> QED
        BY <1>2, <1>3 DEF Init, Chain!ChainInit

(* A step that changes neither the completions nor the runs nor an answer  *)
(* is invisible.                                                           *)
LEMMA Invisible ==
    ASSUME runs' = runs, answer' = answer,
           \A o \in Ordinals : slot'[o].completion = slot[o].completion
    PROVE  UNCHANGED Chain!chainVars
    <1>1. Done' = Done
        BY DEF Done
    <1>2. Completed' = Completed
        BY <1>1 DEF Completed, Done
    <1> QED
        BY <1>1, <1>2 DEF Chain!chainVars

(* A proposer run starts the next attempt. *)
LEMMA ProposeStarts ==
    ASSUME JobInv, NEW p \in Procs, Propose(p)
    PROVE  Chain!StartAttempt
    <1>1. PICK n \in 0 .. MaxAttempts : Journal(n) /\ Reads(p, n)
        BY DEF JobInv
    <1>2. /\ n < MaxAttempts /\ ~Ended(p) /\ Len(chain[p]) = n /\ Len(runs) = n
          /\ \A i \in 1 .. n : chain[p][i] = slot[i].completion
        BY <1>1 DEF Propose, Reads, InFlight
    <1>3. n \in Nat /\ runs \in Seq(Ordinals) /\ chain[p] \in Seq(Attempt)
          /\ n + 1 \in Ordinals
        BY <1>2, OrdinalFacts DEF JobInv, TypeOK
    <1>4. Completed = chain[p]
        BY <1>1, <1>2, <1>3, CompletedFacts, SameSequence DEF JobInv
    <1>5. Cardinality(Done) = n
        BY <1>1, DoneFacts
    <1>6. UNCHANGED <<slot, answer>> /\ Len(runs') = n + 1
        BY <1>2, <1>3 DEF Propose, files, Ordinal
    <1>7. UNCHANGED <<Completed, Done>>
        BY <1>6 DEF Completed, Done
    <1>8. Chain!Open
        BY <1>2, <1>4 DEF Chain!Open, Chain!Terminal, Ended, Terminal
    <1> QED
        BY <1>2, <1>3, <1>5, <1>6, <1>7, <1>8 DEF Chain!StartAttempt

(* A completion ends it. *)
LEMMA CompletionEnds ==
    ASSUME JobInv, NEW p \in Procs, PublishCompletion(p), pc'[p] # "idle"
    PROVE  Chain!EndAttempt
    <1>1. PICK n \in 0 .. MaxAttempts : Journal(n) /\ Reads(p, n)
        BY DEF JobInv
    <1>2. /\ n < MaxAttempts /\ Len(chain[p]) = n /\ Len(runs) = n + 1
          /\ got[p] \in Attempt /\ got[p].run = n + 1
          /\ got[p].status = "repair_requested" => n + 1 < MaxAttempts
          /\ got[p].status = "rejected" => n + 1 = MaxAttempts
        BY <1>1 DEF PublishCompletion, Reads, InFlight
    <1>3. n \in Nat /\ n + 1 \in Ordinals /\ n + 1 \in 0 .. MaxAttempts
          /\ Ordinal(p) = n + 1
        BY <1>2, OrdinalFacts, JobAssumption DEF Ordinal
    <1>4. slot' = [slot EXCEPT ![n + 1].completion = got[p]] /\ UNCHANGED <<answer, runs>>
        BY <1>3 DEF PublishCompletion, Refuse, Leave, Goto, JobInv, TypeOK
    <1>5. got[p] # None /\ slot[n + 1].completion = None
        BY <1>1, <1>2, <1>3, JobAssumption DEF Journal, Done
    <1>6. /\ slot'[n + 1].completion = got[p]
          /\ \A o \in Ordinals : o # n + 1 => slot'[o].completion = slot[o].completion
        BY <1>3, <1>4 DEF JobInv, TypeOK, Slot
    <1>7. Done = 1 .. n /\ Done' = 1 .. n + 1 /\ 1 .. n \subseteq Ordinals
        <2>1. Done = 1 .. n /\ 1 .. n \subseteq Ordinals
            BY <1>1, OrdinalFacts DEF Journal
        <2>2. Done' = Done \cup {n + 1}
            BY <1>3, <1>5, <1>6 DEF Done
        <2> QED
            BY <2>1, <2>2, <1>3
    <1>8. Cardinality(Done) = n /\ Cardinality(Done') = n + 1
        BY <1>3, <1>7, FS_Interval
    <1>9. /\ Completed \in Seq(Attempt) /\ Len(Completed) = n
          /\ \A i \in 1 .. n : Completed[i] = slot[i].completion
        BY <1>1, CompletedFacts DEF JobInv
    <1>10. Completed' = Append(Completed, got[p])
        <2>1. Completed' = [i \in 1 .. n + 1 |-> slot'[i].completion]
            BY <1>7 DEF Completed
        <2>2. \A i \in 1 .. n : slot'[i].completion = Completed[i]
            BY <1>3, <1>6, <1>7, <1>9
        <2>3. slot'[n + 1].completion = got[p]
            BY <1>6
        <2>4. \A i \in 1 .. n + 1 : i \in 1 .. n \/ i = n + 1
            BY <1>3
        <2>5. \A i \in 1 .. n + 1 : slot'[i].completion \in Attempt
            BY <2>2, <2>3, <2>4, <1>2, <1>9
        <2>6. Completed' \in Seq(Attempt) /\ Len(Completed') = n + 1
            BY <2>1, <2>5, <1>3
        <2>7. Append(Completed, got[p]) \in Seq(Attempt)
              /\ Len(Append(Completed, got[p])) = n + 1
              /\ \A i \in 1 .. n : Append(Completed, got[p])[i] = Completed[i]
              /\ Append(Completed, got[p])[n + 1] = got[p]
            BY <1>2, <1>3, <1>9
        <2>8. \A i \in 1 .. n + 1 : Completed'[i] = Append(Completed, got[p])[i]
            BY <2>1, <2>2, <2>3, <2>4, <2>7
        <2> QED
            BY <2>6, <2>7, <2>8, SameSequence
    <1>11. got[p] = [run |-> Len(Completed) + 1, status |-> got[p].status]
           /\ got[p].status \in {"candidate", "repair_requested", "rejected"}
        BY <1>2, <1>9 DEF Attempt, Statuses
    <1>12. (Len(runs) > Cardinality(Done)) /\ ~(Len(runs') > Cardinality(Done'))
        BY <1>2, <1>3, <1>4, <1>8
    <1> QED
        BY <1>2, <1>4, <1>9, <1>10, <1>11, <1>12 DEF Chain!EndAttempt

(* A result answers. *)
LEMMA ResultAnswers ==
    ASSUME JobInv, NEW p \in Procs, PublishResult(p),
           ValidChain(chain[p]) /\ result \in {None, chain[p]}
    PROVE  Chain!Answer(p)
    <1>1. PICK n \in 0 .. MaxAttempts : Journal(n) /\ Reads(p, n)
        BY DEF JobInv
    <1>2. /\ Ended(p) /\ Len(chain[p]) = n /\ chain[p] \in Seq(Attempt)
          /\ \A i \in 1 .. n : chain[p][i] = slot[i].completion
        BY <1>1 DEF PublishResult, Reads, JobInv, TypeOK
    <1>3. Completed = chain[p]
        BY <1>1, <1>2, CompletedFacts, SameSequence DEF JobInv
    <1>4. UNCHANGED <<slot, runs>> /\ answer' = [answer EXCEPT ![p] = chain[p]]
        BY DEF PublishResult
    <1>5. UNCHANGED <<Completed, Done>>
        BY <1>4 DEF Completed, Done
    <1> QED
        BY <1>2, <1>3, <1>4, <1>5 DEF Chain!Answer, Chain!Finished, Chain!Terminal, Ended,
                                      Terminal

LEMMA StepChain ==
    ASSUME JobInv, NEW p \in Procs, Step(p)
    PROVE  Chain!ChainNext \/ UNCHANGED Chain!chainVars
    <1>1. CASE Refuse(p, "drift") \/ Refuse(p, "ambiguous")
        BY <1>1, Invisible DEF Refuse, files
    <1>2. CASE \/ Open(p) \/ OpenDrifted(p) \/ ExamineDrifted(p) \/ ExamineAmbiguous(p)
               \/ ExamineCompleted(p) \/ ExamineOpen(p) \/ ExamineEnded(p)
               \/ CheckMark(p) \/ WritePayload(p) \/ WriteDescriptor(p)
        <2>1. UNCHANGED <<slot, runs, answer>>
            BY <1>2 DEF Open, OpenDrifted, ExamineDrifted, ExamineAmbiguous, ExamineCompleted,
                        ExamineOpen, ExamineEnded, CheckMark, WritePayload,
                        WriteDescriptor, Refuse, files
        <2> QED
            BY <2>1, Invisible
    <1>3. CASE (MakeSlot(p) \/ PublishRequest(p) \/ PublishMark(p)) /\ ~Refuse(p, "drift")
        <2>1. /\ UNCHANGED <<runs, answer>>
              /\ \/ slot' = [slot EXCEPT ![Ordinal(p)].dir = TRUE]
                 \/ slot' = [slot EXCEPT ![Ordinal(p)].request = chain[p]]
                 \/ slot' = [slot EXCEPT ![Ordinal(p)].launched = TRUE]
            BY <1>3 DEF MakeSlot, PublishRequest, PublishMark
        <2>2. slot \in [Ordinals -> Slot]
            BY DEF JobInv, TypeOK
        <2>3. ASSUME NEW o \in Ordinals PROVE slot'[o].completion = slot[o].completion
            <3>1. slot[o] \in Slot
                BY <2>2
            <3>2. CASE slot' = [slot EXCEPT ![Ordinal(p)].dir = TRUE]
                BY <3>1, <3>2, <2>2 DEF Slot
            <3>3. CASE slot' = [slot EXCEPT ![Ordinal(p)].request = chain[p]]
                BY <3>1, <3>3, <2>2 DEF Slot
            <3>4. CASE slot' = [slot EXCEPT ![Ordinal(p)].launched = TRUE]
                BY <3>1, <3>4, <2>2 DEF Slot
            <3> QED
                BY <2>1, <3>2, <3>3, <3>4
        <2> QED
            BY <2>1, <2>3, Invisible
    <1>4. CASE Propose(p)
        BY <1>4, ProposeStarts DEF Chain!ChainNext
    <1>5. CASE PublishCompletion(p) /\ ~Refuse(p, "drift")
        <2>1. pc'[p] # "idle"
            BY <1>5 DEF PublishCompletion, Goto, JobInv, TypeOK
        <2> QED
            BY <2>1, <1>5, CompletionEnds DEF Chain!ChainNext
    <1>6. CASE PublishResult(p) /\ ~Refuse(p, "drift")
        BY <1>6, ResultAnswers DEF PublishResult, Chain!ChainNext
    <1> QED
        BY <1>1, <1>2, <1>3, <1>4, <1>5, <1>6 DEF Step

(* The job directory, for all its files, processes and crashes, behaves    *)
(* like the one chain of AuthoringChain.                                   *)
THEOREM JobImplementsChain == Spec => ImplementsChain
    <1>1. JobInv /\ [Next]_vars => [Chain!ChainNext]_Chain!chainVars
        <2> SUFFICES ASSUME JobInv, [Next]_vars
                     PROVE  Chain!ChainNext \/ UNCHANGED Chain!chainVars
            OBVIOUS
        <2>1. CASE UNCHANGED vars
            BY <2>1, Invisible DEF vars, files, local
        <2>2. ASSUME NEW p \in Procs, NEW in \in Inputs, Call(p, in)
              PROVE  UNCHANGED Chain!chainVars
            BY <2>2, Invisible DEF Call, files
        <2>3. ASSUME NEW p \in Procs, Interrupt(p)
              PROVE  UNCHANGED Chain!chainVars
            BY <2>3, Invisible DEF Interrupt, files
        <2> QED
            BY <2>1, <2>2, <2>3, StepChain DEF Next
    <1> QED
        BY InitChain, <1>1, JobInvariant, PTL DEF Spec, ImplementsChain, Chain!ChainSpec

-----------------------------------------------------------------------------
(* Why a call may be refused.                                              *)

(* The attempts before attempt o. *)
Prior(o) == [i \in 1 .. o - 1 |-> slot[i].completion]

(* What the directory of attempt o says follows from what is before it: its *)
(* request is for the chain of earlier attempts, all completed and to be    *)
(* repaired, and its completion is in the quarantine.                       *)
Follows(o) ==
    /\ slot[o].request # None => slot[o].dir /\ slot[o].request = Prior(o)
    /\ slot[o].launched => slot[o].request # None
    /\ slot[o].completion # None => Quarantined(slot[o].completion)
    /\ slot[o].dir => \A i \in 1 .. o - 1 : /\ slot[i].completion # None
                                            /\ ~Terminal(slot[i].completion.status)

(* A directory without its request, or a launch without its completion, is *)
(* somebody's work or what is left of a call that was cut short there.     *)
Explained(o) ==
    /\ slot[o].dir /\ slot[o].request = None =>
           "request" \in lost \/ \E p \in Procs : pc[p] = "request"
    /\ slot[o].launched /\ slot[o].completion = None =>
           lost \cap InFlight # {} \/ \E p \in Procs : pc[p] \in InFlight

(* What p has behind it in the attempt it is at. *)
Prepared(p) ==
    /\ pc[p] = "request" => slot[Ordinal(p)].dir
    /\ pc[p] \in {"mark", "launch"} \cup InFlight => slot[Ordinal(p)].request # None
    /\ pc[p] = "descriptor" => got[p] \in payload
    /\ pc[p] = "complete" => got[p] \in payload \cap described

CauseInv ==
    /\ \A o \in Ordinals : Follows(o) /\ Explained(o)
    /\ \A p \in Procs : Prepared(p)

(* What p has read is the chain before the attempt it is at, and a chain of *)
(* attempts that were to be repaired, but perhaps for the last.             *)
LEMMA Chained ==
    ASSUME JobInv, NEW n \in 0 .. MaxAttempts, Journal(n), NEW p \in Procs, Reads(p, n)
    PROVE  /\ Len(chain[p]) \in Nat /\ Len(chain[p]) <= n
           /\ Ordinal(p) = Len(chain[p]) + 1
           /\ chain[p] = Prior(Ordinal(p))
           /\ Ended(p) => Len(chain[p]) = n
           /\ ValidChain(chain[p])
    <1> DEFINE m == Len(chain[p])
    <1>1. chain[p] \in Seq(Attempt) /\ m \in Nat /\ m <= n
        BY DEF JobInv, TypeOK, Reads
    <1>2. \A i \in 1 .. m : i \in Ordinals /\ chain[p][i] = slot[i].completion
        BY <1>1, OrdinalFacts DEF Reads
    <1>3. Ordinal(p) = m + 1 /\ 1 .. Ordinal(p) - 1 = 1 .. m
        BY <1>1 DEF Ordinal
    <1>4. chain[p] = [i \in 1 .. m |-> chain[p][i]]
        BY <1>1
    <1>5. chain[p] = Prior(Ordinal(p))
        BY <1>2, <1>3, <1>4 DEF Prior
    <1>6. Ended(p) => m = n
        <2> SUFFICES ASSUME Ended(p), m < n PROVE FALSE
            BY <1>1, OrdinalFacts
        <2>1. m # 0 /\ Terminal(chain[p][m].status)
            BY <1>1 DEF Ended
        <2>2. m \in 1 .. m
            BY <1>1, <2>1
        <2> QED
            BY <1>1, <1>2, <2>1, <2>2, OrdinalFacts DEF Journal
    <1>7. ValidChain(chain[p])
        <2>1. ASSUME NEW i \in 1 .. m - 1 PROVE chain[p][i].status = "repair_requested"
            <3>1. i \in 1 .. m /\ i < n /\ i <= n
                BY <1>1, OrdinalFacts
            <3>2. ~Terminal(slot[i].completion.status)
                BY <1>2, <3>1 DEF Journal
            <3>3. chain[p][i] \in Attempt
                BY <1>1, <3>1
            <3> QED
                BY <1>2, <3>1, <3>2, <3>3 DEF Attempt, Statuses, Terminal
        <2>2. ASSUME NEW i \in 1 .. m, NEW j \in 1 .. m, chain[p][i] = chain[p][j] PROVE i = j
            <3>1. i <= n /\ j <= n
                BY <1>1, OrdinalFacts
            <3> QED
                BY <1>2, <2>2, <3>1 DEF Journal
        <2> QED
            BY <2>1, <2>2 DEF ValidChain
    <1> QED
        BY <1>1, <1>3, <1>5, <1>6, <1>7

(* Nothing is beyond the first attempt that is not completed. *)
LEMMA NothingBeyond ==
    ASSUME JobInv, CauseInv, NEW n \in 0 .. MaxAttempts, Journal(n),
           NEW o \in Ordinals, slot[o].dir
    PROVE  /\ o <= n + 1
           /\ n > 0 /\ o = n + 1 => ~Terminal(slot[n].completion.status)
    <1>1. o \in Nat /\ n \in Nat
        BY OrdinalFacts, JobAssumption DEF Ordinals
    <1>2. \A i \in 1 .. o - 1 : slot[i].completion # None /\ ~Terminal(slot[i].completion.status)
        BY DEF CauseInv, Follows
    <1>3. ~(n + 1 < o)
        <2> SUFFICES ASSUME n + 1 < o PROVE FALSE
            OBVIOUS
        <2>1. n + 1 \in 1 .. o - 1 /\ n + 1 \in Ordinals
            BY <1>1, JobAssumption DEF Ordinals
        <2>2. n + 1 \in Done
            BY <1>2, <2>1 DEF Done
        <2> QED
            BY <1>1, <2>2 DEF Journal
    <1> QED
        BY <1>1, <1>2, <1>3

(* Where a call can be refused, and why. *)
LEMMA Causes ==
    ASSUME JobInv, CauseInv, NEW p \in Procs, pc[p] # "idle"
    PROVE  /\ ExamineDrifted(p) => "request" \in lost
           /\ ExamineAmbiguous(p) => lost \cap InFlight # {}
           /\ ValidChain(chain[p])
           /\ pc[p] = "request" => slot[Ordinal(p)].request \in {None, chain[p]}
           /\ pc[p] = "mark" => ~slot[Ordinal(p)].launched
           /\ pc[p] = "complete" => slot[Ordinal(p)].completion = None
           /\ pc[p] = "result" => result \in {None, chain[p]}
    <1>1. PICK n \in 0 .. MaxAttempts :
              Journal(n) /\ (\A q \in Procs : Reads(q, n)) /\ Resulted(n)
        BY DEF JobInv
    <1> DEFINE m == Len(chain[p])
    <1>2. /\ m \in Nat /\ m <= n /\ Ordinal(p) = m + 1
          /\ chain[p] = Prior(Ordinal(p)) /\ chain[p] \in Seq(Attempt)
          /\ Ended(p) => m = n
          /\ ValidChain(chain[p])
        BY <1>1, Chained DEF JobInv, TypeOK
    <1> HIDE DEF m
    <1>3. \A q \in Procs : q # p => pc[q] = "idle"
        BY OthersOutside DEF JobInv
    <1>4. n \in Nat /\ n <= MaxAttempts /\ MaxAttempts \in Nat /\ 1 .. n \subseteq Ordinals
        BY OrdinalFacts, JobAssumption
    <1>5. ASSUME ExamineDrifted(p) PROVE "request" \in lost
        <2>1. pc[p] = "examine" /\ Drifted(p)
            BY <1>5 DEF ExamineDrifted
        <2>2. CASE Ended(p)
            <3>1. PICK o \in Ordinals : o > Len(chain[p]) /\ slot[o].dir
                BY <2>1, <2>2 DEF Drifted
            <3>2. m = n /\ o > n /\ o \in Nat
                BY <1>2, <2>2, <3>1, JobAssumption DEF m, Ordinals
            <3>3. o = n + 1 /\ (n > 0 => ~Terminal(slot[n].completion.status))
                BY <1>1, <1>4, <3>1, <3>2, NothingBeyond
            <3>4. n > 0 /\ Terminal(chain[p][n].status) /\ n \in 1 .. Len(chain[p])
                BY <1>2, <1>4, <2>2, <3>2 DEF Ended, m
            <3> QED
                BY <1>1, <3>3, <3>4 DEF Reads
        <2>3. CASE ~Ended(p)
            <3> DEFINE o == Ordinal(p)
            <3>1. o \in Ordinals
                <4> SUFFICES ASSUME o \notin Ordinals PROVE FALSE
                    OBVIOUS
                <4>1. m = n /\ n = MaxAttempts /\ n > 0
                    BY <1>2, <1>4, JobAssumption DEF Ordinals
                <4>2. n \in Ordinals /\ n \in 1 .. Len(chain[p]) /\ chain[p] # << >>
                    BY <1>2, <1>4, <4>1 DEF m
                <4>3. /\ slot[n].completion.status = "repair_requested" => n < MaxAttempts
                      /\ chain[p][n] = slot[n].completion
                    BY <1>1, <1>4, <4>2 DEF Journal, Reads
                <4>4. chain[p][n] \in Attempt
                    BY <1>2, <4>2
                <4> QED
                    BY <2>3, <4>1, <4>2, <4>3, <4>4 DEF Ended, m, Terminal, Attempt, Statuses
            <3> HIDE DEF o
            <3>2. Follows(o) /\ Explained(o)
                BY <3>1 DEF CauseInv
            <3>3. \/ slot[o].dir /\ slot[o].request = None
                  \/ slot[o].completion # None /\ ~(slot[o].launched /\ Loads(p, o))
                BY <2>1, <2>3, <3>1 DEF Drifted, o
            <3>4. CASE slot[o].dir /\ slot[o].request = None
                BY <1>3, <2>1, <3>2, <3>4 DEF Explained
            <3>5. CASE slot[o].completion # None
                <4>1. o \in Done
                    BY <3>1, <3>5 DEF Done
                <4>2. o <= n
                    BY <1>1, <1>4, <4>1 DEF Journal
                <4>3. slot[o].launched /\ (slot[o].completion.status = "rejected" => o = MaxAttempts)
                    BY <1>1, <3>1, <4>2 DEF Journal
                <4>4. slot[o].request = chain[p] /\ Quarantined(slot[o].completion)
                    BY <1>2, <3>2, <3>5, <4>3 DEF Follows, o
                <4> QED
                    BY <3>3, <3>4, <4>3, <4>4 DEF Loads
            <3> QED
                BY <3>3, <3>4, <3>5
        <2> QED
            BY <2>2, <2>3
    <1>6. ASSUME ExamineAmbiguous(p) PROVE lost \cap InFlight # {}
        <2>1. /\ pc[p] = "examine" /\ Ordinal(p) \in Ordinals
              /\ slot[Ordinal(p)].launched /\ slot[Ordinal(p)].completion = None
            BY <1>6 DEF ExamineAmbiguous, Ambiguous, Drifted
        <2>2. ~ \E q \in Procs : pc[q] \in InFlight
            BY <1>3, <2>1 DEF InFlight
        <2> QED
            BY <2>1, <2>2 DEF CauseInv, Explained
    <1>7. ASSUME pc[p] \in {"request", "mark", "complete"}
          PROVE  /\ Ordinal(p) = n + 1 /\ Ordinal(p) \in Ordinals
                 /\ pc[p] = "request" => slot[Ordinal(p)].request \in {None, chain[p]}
                 /\ pc[p] = "mark" => ~slot[Ordinal(p)].launched
                 /\ slot[Ordinal(p)].completion = None
        <2>1. m = n /\ n < MaxAttempts /\ (pc[p] = "mark" => ~slot[n + 1].launched)
            BY <1>1, <1>7 DEF Reads, m, InFlight
        <2>2. Ordinal(p) = n + 1 /\ n + 1 \in Ordinals
            BY <1>2, <1>4, <2>1 DEF Ordinals
        <2>3. n + 1 \notin Done
            BY <1>1, <1>4 DEF Journal
        <2>4. Follows(n + 1)
            BY <2>2 DEF CauseInv
        <2> QED
            BY <1>2, <2>1, <2>2, <2>3, <2>4 DEF Follows, Done
    <1>8. ASSUME pc[p] = "result" PROVE result \in {None, chain[p]}
        <2> SUFFICES ASSUME result # None PROVE result = chain[p]
            OBVIOUS
        <2>1. /\ result \in Seq(Attempt) /\ Len(result) = n
              /\ \A i \in 1 .. n : result[i] = slot[i].completion
            BY <1>1 DEF Resulted, JobInv, TypeOK
        <2>2. Len(chain[p]) = n /\ \A i \in 1 .. n : chain[p][i] = slot[i].completion
            BY <1>1, <1>8 DEF Reads
        <2> QED
            BY <1>2, <2>1, <2>2, SameSequence
    <1> QED
        BY <1>2, <1>5, <1>6, <1>7, <1>8

(* The steps that leave the slots alone. *)
LEMMA QuietCause ==
    ASSUME JobInv, CauseInv, slot' = slot,
           payload \subseteq payload', described \subseteq described', lost \subseteq lost',
           \A q \in Procs : /\ pc[q] = "request" => pc'[q] = "request" \/ "request" \in lost'
                            /\ pc[q] \in InFlight => pc'[q] \in InFlight \/ lost' \cap InFlight # {}
                            /\ Prepared(q)'
    PROVE  CauseInv'
    <1>1. ASSUME NEW o \in Ordinals PROVE Follows(o)' /\ Explained(o)'
        <2>1. Follows(o) /\ Explained(o)
            BY DEF CauseInv
        <2>2. Follows(o)'
            BY <2>1 DEF Follows, Prior, Quarantined
        <2>3. Explained(o)'
            BY <2>1 DEF Explained
        <2> QED
            BY <2>2, <2>3
    <1> QED
        BY <1>1 DEF CauseInv

(* A call that ends where nothing is left half done, or is cut short. *)
LEMMA LeaveCause ==
    ASSUME JobInv, CauseInv, NEW p \in Procs, pc[p] # "idle", NEW how, Leave(p, how),
           slot' = slot,
           payload \subseteq payload', described \subseteq described', lost \subseteq lost',
           pc[p] \in {"request"} \cup InFlight => pc[p] \in lost'
    PROVE  CauseInv'
    <1>1. \A q \in Procs : pc'[q] = IF q = p THEN "idle" ELSE pc[q]
        BY DEF Leave, Goto, JobInv, TypeOK
    <1>2. \A q \in Procs : pc'[q] = "idle"
        BY <1>1, OthersOutside DEF JobInv, Leave, Locked
    <1>3. \A q \in Procs : Prepared(q)'
        BY <1>2 DEF Prepared, InFlight
    <1>4. \A q \in Procs : /\ pc[q] = "request" => pc'[q] = "request" \/ "request" \in lost'
                           /\ pc[q] \in InFlight => pc'[q] \in InFlight \/ lost' \cap InFlight # {}
        BY <1>1
    <1> QED
        BY <1>3, <1>4, QuietCause

(* A step on the first attempt that is not completed. *)
LEMMA ChangeCause ==
    ASSUME JobInv, CauseInv, NEW p \in Procs,
           \/ MakeSlot(p)
           \/ PublishMark(p)
           \/ PublishRequest(p) /\ slot[Ordinal(p)].request \in {None, chain[p]}
           \/ PublishCompletion(p) /\ slot[Ordinal(p)].completion = None
    PROVE  CauseInv'
    <1>1. PICK n \in 0 .. MaxAttempts : Journal(n) /\ (\A q \in Procs : Reads(q, n))
        BY DEF JobInv
    <1>2. pc[p] \in {"slot", "launch", "request", "complete"}
        BY DEF MakeSlot, PublishMark, PublishRequest, PublishCompletion
    <1>3. /\ Len(chain[p]) = n /\ n < MaxAttempts /\ ~Ended(p) /\ n \in Nat
          /\ Ordinal(p) = n + 1 /\ chain[p] = Prior(n + 1) /\ n + 1 \in Ordinals
        <2>1. Len(chain[p]) = n /\ n < MaxAttempts /\ ~Ended(p)
            BY <1>1, <1>2 DEF Reads, InFlight
        <2> QED
            BY <1>1, <2>1, Chained, OrdinalFacts
    <1> DEFINE c == n + 1
    <1>4. \A i \in 1 .. n : /\ i \in Ordinals /\ slot[i].completion # None
                            /\ ~Terminal(slot[i].completion.status)
        <2> SUFFICES ASSUME NEW i \in 1 .. n
                     PROVE  /\ i \in Ordinals /\ slot[i].completion # None
                            /\ ~Terminal(slot[i].completion.status)
            OBVIOUS
        <2>1. i \in Ordinals /\ i \in Done
            BY <1>1, OrdinalFacts DEF Journal
        <2>2. CASE i < n
            BY <1>1, <2>1, <2>2 DEF Journal, Done
        <2>3. CASE i = n
            <3>1. chain[p] # << >> /\ chain[p][Len(chain[p])] = slot[n].completion
                BY <1>1, <1>3, <2>3 DEF Reads
            <3> QED
                BY <1>3, <2>1, <2>3, <3>1 DEF Ended, Done
        <2> QED
            BY <1>3, <2>2, <2>3
    <1>5. slot[c].completion = None
        BY <1>1, <1>3 DEF Journal, Done
    <1>6. \A q \in Procs : q # p => pc'[q] = "idle" /\ pc[q] = "idle"
        <2>1. \A q \in Procs : q # p => pc[q] = "idle" /\ pc'[q] = pc[q]
            BY <1>2, OthersOutside
               DEF JobInv, TypeOK, Goto, MakeSlot, PublishMark, PublishRequest, PublishCompletion
        <2> QED
            BY <2>1
    <1>7. \A q \in Procs : q # p => Prepared(q)'
        BY <1>6 DEF Prepared, InFlight
    <1>8. /\ \A o \in Ordinals : o # c => slot'[o] = slot[o]
          /\ payload' = payload /\ described' = described /\ lost' = lost
        BY <1>3, JobInv DEF JobInv, TypeOK, MakeSlot, PublishMark, PublishRequest,
                            PublishCompletion, Goto
    <1>9. \A o \in Ordinals : o \in Nat /\ o >= 1 /\ 1 .. o - 1 \subseteq Ordinals
        BY JobAssumption DEF Ordinals
    <1>10. ASSUME NEW o \in Ordinals, o < c PROVE Follows(o)' /\ Explained(o)'
        <2>1. slot'[o] = slot[o] /\ Follows(o)
            BY <1>8, <1>10 DEF CauseInv
        <2>2. \A i \in 1 .. o - 1 : slot'[i] = slot[i]
            BY <1>3, <1>8, <1>9, <1>10
        <2>3. Prior(o)' = Prior(o)
            BY <2>2 DEF Prior
        <2>4. slot[o].completion # None /\ slot[o].launched
            <3>1. o \in 1 .. n
                BY <1>3, <1>9, <1>10
            <3> QED
                BY <1>1, <1>4, <3>1 DEF Journal
        <2> QED
            BY <1>8, <2>1, <2>2, <2>3, <2>4 DEF Follows, Explained, Quarantined
    <1>11. ASSUME NEW o \in Ordinals, o > c PROVE Follows(o)' /\ Explained(o)'
        <2>1. slot'[o] = slot[o] /\ Follows(o)
            BY <1>3, <1>8, <1>9, <1>11 DEF CauseInv
        <2>2. ~slot[o].dir
            BY <1>1, <1>3, <1>9, <1>11, NothingBeyond
        <2>3. slot[o].completion = None
            BY <1>1, <1>3, <1>9, <1>11 DEF Journal, Done
        <2> QED
            BY <2>1, <2>2, <2>3 DEF Follows, Explained
    <1>12. Prior(c)' = Prior(c)
        BY <1>3, <1>4, <1>8 DEF Prior
    <1>13. Follows(c) /\ Explained(c) /\ Prepared(p)
        BY <1>3 DEF CauseInv
    <1>14. Follows(c)' /\ Explained(c)' /\ Prepared(p)'
        <2>1. \A i \in 1 .. c - 1 : /\ slot'[i].completion # None
                                    /\ ~Terminal(slot'[i].completion.status)
            BY <1>3, <1>4, <1>8
        <2>2. CASE MakeSlot(p)
            <3>1. /\ slot'[c] = [slot[c] EXCEPT !.dir = TRUE]
                  /\ pc'[p] = "request" /\ chain' = chain
                BY <1>3, <2>2 DEF MakeSlot, Goto, JobInv, TypeOK
            <3>2. /\ slot'[c].dir /\ slot'[c].request = slot[c].request
                  /\ slot'[c].launched = slot[c].launched
                  /\ slot'[c].completion = slot[c].completion
                BY <1>3, <3>1 DEF JobInv, TypeOK, Slot
            <3>3. ~slot[c].launched
                BY <1>1, <2>2 DEF MakeSlot, Reads
            <3>4. Follows(c)'
                BY <1>5, <1>12, <1>13, <2>1, <3>2, <3>3 DEF Follows
            <3>5. Explained(c)'
                BY <3>1, <3>2, <3>3 DEF Explained
            <3>6. Prepared(p)'
                BY <1>3, <3>1, <3>2 DEF Prepared, Ordinal, InFlight
            <3> QED
                BY <3>4, <3>5, <3>6
        <2>3. CASE PublishRequest(p) /\ slot[Ordinal(p)].request \in {None, chain[p]}
            <3>1. /\ slot'[c] = [slot[c] EXCEPT !.request = chain[p]]
                  /\ pc[p] = "request" /\ pc'[p] = "mark" /\ chain' = chain
                BY <1>3, <2>3 DEF PublishRequest, Goto, JobInv, TypeOK
            <3>2. /\ slot'[c].dir = slot[c].dir /\ slot'[c].request = chain[p]
                  /\ slot'[c].launched = slot[c].launched
                  /\ slot'[c].completion = slot[c].completion
                BY <1>3, <3>1 DEF JobInv, TypeOK, Slot
            <3>3. slot[c].dir /\ chain[p] # None /\ ~slot[c].launched
                BY <1>1, <1>3, <1>13, <3>1, JobAssumption DEF Prepared, JobInv, TypeOK, Reads
            <3>4. Follows(c)'
                BY <1>3, <1>5, <1>12, <2>1, <3>2, <3>3 DEF Follows
            <3>5. Explained(c)'
                BY <3>2, <3>3 DEF Explained
            <3>6. Prepared(p)'
                BY <1>3, <3>1, <3>2, <3>3 DEF Prepared, Ordinal, InFlight
            <3> QED
                BY <3>4, <3>5, <3>6
        <2>4. CASE PublishMark(p)
            <3>1. /\ slot'[c] = [slot[c] EXCEPT !.launched = TRUE]
                  /\ pc[p] = "launch" /\ pc'[p] = "propose" /\ chain' = chain
                BY <1>3, <2>4 DEF PublishMark, Goto, JobInv, TypeOK
            <3>2. /\ slot'[c].dir = slot[c].dir /\ slot'[c].request = slot[c].request
                  /\ slot'[c].launched
                  /\ slot'[c].completion = slot[c].completion
                BY <1>3, <3>1 DEF JobInv, TypeOK, Slot
            <3>3. slot[c].request # None /\ slot[c].dir
                BY <1>3, <1>13, <3>1 DEF Prepared, Follows
            <3>4. Follows(c)'
                BY <1>5, <1>12, <1>13, <2>1, <3>2, <3>3 DEF Follows
            <3>5. Explained(c)'
                BY <3>1, <3>2, <3>3 DEF Explained, InFlight
            <3>6. Prepared(p)'
                BY <1>3, <3>1, <3>2, <3>3 DEF Prepared, Ordinal, InFlight
            <3> QED
                BY <3>4, <3>5, <3>6
        <2>5. CASE PublishCompletion(p) /\ slot[Ordinal(p)].completion = None
            <3>1. /\ slot'[c] = [slot[c] EXCEPT !.completion = got[p]]
                  /\ pc[p] = "complete" /\ pc'[p] \in {"result", "slot"}
                BY <1>3, <2>5 DEF PublishCompletion, Goto, JobInv, TypeOK
            <3>2. /\ slot'[c].dir = slot[c].dir /\ slot'[c].request = slot[c].request
                  /\ slot'[c].launched = slot[c].launched
                  /\ slot'[c].completion = got[p]
                BY <1>3, <3>1 DEF JobInv, TypeOK, Slot
            <3>3. /\ slot[c].request # None /\ slot[c].dir /\ got[p] \in payload \cap described
                  /\ got[p] # None
                <4>1. got[p] \in Attempt
                    BY <1>1, <3>1 DEF Reads
                <4> QED
                    BY <1>3, <1>13, <3>1, <4>1, JobAssumption DEF Prepared, Follows, InFlight
            <3>4. Follows(c)'
                BY <1>8, <1>12, <1>13, <2>1, <3>2, <3>3 DEF Follows, Quarantined
            <3>5. Explained(c)'
                BY <3>2, <3>3 DEF Explained
            <3>6. Prepared(p)'
                BY <3>1 DEF Prepared, InFlight
            <3> QED
                BY <3>4, <3>5, <3>6
        <2> QED
            BY <2>2, <2>3, <2>4, <2>5
    <1>15. ASSUME NEW o \in Ordinals PROVE Follows(o)' /\ Explained(o)'
        <2>1. o < c \/ o = c \/ o > c
            BY <1>3, <1>9
        <2> QED
            BY <1>10, <1>11, <1>14, <2>1
    <1> QED
        BY <1>7, <1>14, <1>15 DEF CauseInv

(* A step inside a call that touches no slot. *)
LEMMA LookCause ==
    ASSUME JobInv, CauseInv, NEW p \in Procs,
           \/ Open(p) \/ ExamineCompleted(p) \/ ExamineEnded(p)
           \/ ExamineOpen(p) /\ ValidChain(chain[p])
           \/ CheckMark(p) /\ ~slot[Ordinal(p)].launched
           \/ Propose(p) \/ WritePayload(p) \/ WriteDescriptor(p)
    PROVE  CauseInv'
    <1>1. /\ slot' = slot /\ payload \subseteq payload' /\ described \subseteq described'
          /\ lost' = lost
        BY DEF Open, ExamineCompleted, ExamineEnded, ExamineOpen, CheckMark, Propose,
               WritePayload, WriteDescriptor, files
    <1>2. pc[p] # "idle" /\ \A q \in Procs : q # p => pc'[q] = pc[q]
        BY DEF Open, ExamineCompleted, ExamineEnded, ExamineOpen, CheckMark, Propose,
               WritePayload, WriteDescriptor, Goto, JobInv, TypeOK
    <1>3. \A q \in Procs : q # p => pc[q] = "idle" /\ pc'[q] = "idle" /\ Prepared(q)'
        BY <1>2, OthersOutside DEF JobInv, Prepared, InFlight
    <1>4. /\ pc[p] # "request"
          /\ pc[p] \in InFlight => pc'[p] \in InFlight
          /\ Prepared(p)'
        <2>1. CASE \/ Open(p) \/ ExamineCompleted(p) \/ ExamineEnded(p)
                   \/ ExamineOpen(p) /\ ValidChain(chain[p])
            <3>1. pc[p] \in {"open", "examine"} /\ pc'[p] \in {"examine", "slot", "result"}
                BY <2>1 DEF Open, ExamineCompleted, ExamineEnded, ExamineOpen, Goto, JobInv,
                            TypeOK
            <3> QED
                BY <3>1 DEF Prepared, InFlight
        <2>2. CASE CheckMark(p) /\ ~slot[Ordinal(p)].launched
            <3>1. pc[p] = "mark" /\ pc'[p] = "launch" /\ chain' = chain
                BY <2>2 DEF CheckMark, Goto, JobInv, TypeOK
            <3> QED
                BY <1>1, <3>1 DEF Prepared, InFlight, Ordinal, CauseInv
        <2>3. CASE Propose(p)
            <3>1. pc[p] = "propose" /\ pc'[p] = "payload" /\ chain' = chain
                BY <2>3 DEF Propose, Goto, JobInv, TypeOK
            <3> QED
                BY <1>1, <3>1 DEF Prepared, InFlight, Ordinal, CauseInv
        <2>4. CASE WritePayload(p)
            <3>1. /\ pc[p] = "payload" /\ pc'[p] = "descriptor" /\ chain' = chain /\ got' = got
                  /\ got[p] \in payload'
                BY <2>4 DEF WritePayload, Goto, JobInv, TypeOK
            <3> QED
                BY <1>1, <3>1 DEF Prepared, InFlight, Ordinal, CauseInv
        <2>5. CASE WriteDescriptor(p)
            <3>1. /\ pc[p] = "descriptor" /\ pc'[p] = "complete" /\ chain' = chain /\ got' = got
                  /\ got[p] \in described'
                BY <2>5 DEF WriteDescriptor, Goto, JobInv, TypeOK
            <3> QED
                BY <1>1, <3>1 DEF Prepared, InFlight, Ordinal, CauseInv
        <2> QED
            BY <2>1, <2>2, <2>3, <2>4, <2>5
    <1>5. \A q \in Procs : /\ pc[q] = "request" => pc'[q] = "request" \/ "request" \in lost'
                           /\ pc[q] \in InFlight => pc'[q] \in InFlight \/ lost' \cap InFlight # {}
                           /\ Prepared(q)'
        BY <1>3, <1>4 DEF InFlight
    <1> QED
        BY <1>1, <1>5, QuietCause

(* Every step of a call keeps the causes, and refuses only for one. *)
LEMMA StepCause ==
    ASSUME JobInv, CauseInv, NEW p \in Procs, Step(p)
    PROVE  /\ CauseInv'
           /\ pc'[p] = "idle" /\ outcome'[p] = "drift" =>
                  inputs[p] # manifest \/ "request" \in lost
           /\ pc'[p] = "idle" /\ outcome'[p] = "ambiguous" => lost \cap InFlight # {}
    <1>0. /\ pc \in [Procs -> Labels] /\ outcome \in [Procs -> {"none", "answered", "drift",
                                                               "ambiguous", "interrupted"}]
          /\ pc[p] # "idle"
        BY DEF JobInv, TypeOK, Step, Open, OpenDrifted, ExamineDrifted, ExamineAmbiguous,
               ExamineCompleted, ExamineOpen, ExamineEnded, MakeSlot, PublishRequest, CheckMark,
               PublishMark, Propose, WritePayload, WriteDescriptor, PublishCompletion,
               PublishResult
    <1>1. CASE \/ Open(p) \/ ExamineCompleted(p) \/ ExamineEnded(p)
               \/ ExamineOpen(p) \/ CheckMark(p)
               \/ Propose(p) \/ WritePayload(p) \/ WriteDescriptor(p)
        <2>1. CheckMark(p) => ~slot[Ordinal(p)].launched
            BY <1>0, Causes DEF CheckMark
        <2>2. ValidChain(chain[p])
            BY <1>0, Causes
        <2>3. CauseInv'
            BY <1>1, <2>1, <2>2, LookCause
        <2>4. pc'[p] # "idle"
            BY <1>0, <1>1, <2>1, <2>2
               DEF Open, ExamineCompleted, ExamineEnded, ExamineOpen, CheckMark, Propose,
                   WritePayload, WriteDescriptor, Goto
        <2> QED
            BY <2>3, <2>4
    <1>2. CASE MakeSlot(p) \/ PublishRequest(p) \/ PublishMark(p) \/ PublishCompletion(p)
        <2>1. /\ PublishRequest(p) => slot[Ordinal(p)].request \in {None, chain[p]}
              /\ PublishCompletion(p) => slot[Ordinal(p)].completion = None
            BY <1>0, Causes DEF PublishRequest, PublishCompletion
        <2>2. CauseInv'
            BY <1>2, <2>1, ChangeCause
        <2>3. pc'[p] # "idle"
            BY <1>0, <1>2, <2>1
               DEF MakeSlot, PublishRequest, PublishMark, PublishCompletion, Goto
        <2> QED
            BY <2>2, <2>3
    <1>3. CASE OpenDrifted(p) \/ ExamineDrifted(p) \/ ExamineAmbiguous(p)
        <2>1. PICK how \in {"drift", "ambiguous"} :
                  /\ Refuse(p, how) /\ pc[p] \in {"open", "examine"}
                  /\ how = "drift" => inputs[p] # manifest \/ "request" \in lost
                  /\ how = "ambiguous" => lost \cap InFlight # {}
            BY <1>0, <1>3, Causes DEF OpenDrifted, ExamineDrifted, ExamineAmbiguous
        <2>2. Leave(p, how) /\ UNCHANGED <<slot, payload, described, lost>>
            BY <2>1 DEF Refuse, files
        <2>3. CauseInv'
            BY <2>1, <2>2, LeaveCause DEF InFlight
        <2>4. outcome'[p] = how
            BY <1>0, <2>2 DEF Leave
        <2> QED
            BY <2>1, <2>3, <2>4
    <1>4. CASE PublishResult(p)
        <2>1. pc[p] = "result" /\ ValidChain(chain[p]) /\ result \in {None, chain[p]}
            BY <1>0, <1>4, Causes DEF PublishResult
        <2>2. Leave(p, "answered") /\ UNCHANGED <<slot, payload, described, lost>>
            BY <1>4, <2>1 DEF PublishResult
        <2>3. CauseInv'
            BY <2>1, <2>2, LeaveCause DEF InFlight
        <2>4. outcome'[p] = "answered"
            BY <1>0, <2>2 DEF Leave
        <2> QED
            BY <2>3, <2>4
    <1> QED
        BY <1>1, <1>2, <1>3, <1>4 DEF Step

(* What may be said of a refusal. *)
OfCause(p) ==
    /\ pc[p] # "idle" /\ outcome'[p] = "drift" /\ pc'[p] = "idle" =>
           inputs[p] # manifest \/ "request" \in lost
    /\ pc[p] # "idle" /\ outcome'[p] = "ambiguous" /\ pc'[p] = "idle" =>
           lost \cap InFlight # {}

(* So does every other step, and a process that is inside when another one *)
(* moves would be a second one.                                            *)
LEMMA NextCause ==
    ASSUME JobInv, CauseInv, [Next]_vars
    PROVE  CauseInv' /\ [\A p \in Procs : OfCause(p)]_vars
    <1>0. pc \in [Procs -> Labels] /\ outcome \in [Procs -> {"none", "answered", "drift",
                                                           "ambiguous", "interrupted"}]
        BY DEF JobInv, TypeOK
    <1>1. CASE UNCHANGED vars
        <2>1. slot' = slot /\ UNCHANGED <<payload, described, lost, pc, chain, got>>
            BY <1>1 DEF vars, files, local
        <2>2. \A q \in Procs : Prepared(q)'
            BY <2>1 DEF CauseInv, Prepared, Ordinal
        <2>3. CauseInv'
            BY <2>1, <2>2, QuietCause
        <2> QED
            BY <1>1, <2>3
    <1>2. ASSUME NEW p \in Procs, Step(p) PROVE CauseInv' /\ \A q \in Procs : OfCause(q)
        <2>1. pc[p] # "idle"
            BY <1>2 DEF Step, Open, OpenDrifted, ExamineDrifted, ExamineAmbiguous,
                   ExamineCompleted, ExamineOpen, ExamineEnded, MakeSlot, PublishRequest,
                   CheckMark, PublishMark, Propose, WritePayload, WriteDescriptor,
                   PublishCompletion, PublishResult
        <2>2. \A q \in Procs : q # p => OfCause(q)
            BY <2>1, OthersOutside DEF JobInv, OfCause
        <2> QED
            BY <1>2, <2>2, StepCause DEF OfCause
    <1>3. ASSUME NEW p \in Procs, Interrupt(p) PROVE CauseInv' /\ \A q \in Procs : OfCause(q)
        <2>1. /\ pc[p] # "idle" /\ Leave(p, "interrupted") /\ lost' = lost \cup {pc[p]}
              /\ UNCHANGED <<slot, payload, described>>
            BY <1>3 DEF Interrupt, files
        <2>2. CauseInv'
            BY <2>1, LeaveCause
        <2>3. outcome'[p] = "interrupted"
            BY <1>0, <2>1 DEF Leave
        <2>4. \A q \in Procs : OfCause(q)
            BY <2>1, <2>3, OthersOutside DEF JobInv, OfCause
        <2> QED
            BY <2>2, <2>4
    <1>4. ASSUME NEW p \in Procs, NEW in \in Inputs, Call(p, in)
          PROVE  CauseInv' /\ \A q \in Procs : OfCause(q)
        <2>1. /\ \A q \in Procs : pc[q] = "idle" /\ pc'[q] \in {"idle", "open"}
              /\ UNCHANGED <<slot, payload, described, lost>>
            BY <1>0, <1>4, JobAssumption DEF Call, Goto, JobInv, Locked, files
        <2>2. \A q \in Procs : Prepared(q)'
            BY <2>1 DEF Prepared, InFlight
        <2>3. CauseInv'
            BY <2>1, <2>2, QuietCause DEF InFlight
        <2> QED
            BY <2>1, <2>3 DEF OfCause
    <1> QED
        BY <1>1, <1>2, <1>3, <1>4 DEF Next

(* At first there is nothing to explain. *)
LEMMA InitCause == Init => CauseInv
    BY DEF Init, CauseInv, Follows, Explained, Prepared, InFlight

(* With the pinned inputs a call is refused only where an earlier one was  *)
(* cut short between a launch and its completion, or between a directory   *)
(* and its request: for any number of processes and any budget, and        *)
(* whatever else is interrupted, the job goes on.                          *)
THEOREM RefusalsHaveCauses == Spec => RefusedOnlyForCause
    <1>1. JobInv /\ CauseInv /\ [Next]_vars
              => (JobInv /\ CauseInv)' /\ [\A p \in Procs : OfCause(p)]_vars
        BY NextInv, NextCause
    <1>2. Init => JobInv /\ CauseInv
        BY InitInv, InitCause
    <1>3. [\A p \in Procs : OfCause(p)]_vars
              => [\A p \in Procs :
                    /\ pc[p] # "idle" /\ outcome'[p] = "drift" /\ pc'[p] = "idle" =>
                           inputs[p] # manifest \/ "request" \in lost
                    /\ pc[p] # "idle" /\ outcome'[p] = "ambiguous" /\ pc'[p] = "idle" =>
                           lost \cap InFlight # {}]_vars
        BY DEF OfCause
    <1> QED
        BY <1>1, <1>2, <1>3, PTL DEF Spec, RefusedOnlyForCause

-----------------------------------------------------------------------------
(* Beside a run of the proposer the job does what it does by itself, so    *)
(* that what is proved of AuthoringJob is true of MCAuthoringJob's         *)
(* behaviours, with calls that are cut short until the calm and with those *)
(* of one operator from then on.                                           *)
THEOREM JobRunsAlone == LiveSpec => Spec
    <1>1. PartsInit => Init
        BY DEF PartsInit
    <1>2. [PartsNext]_<<part, jobVars, runVars>> => [Next]_vars
        BY DEF PartsNext, CalmingNext, jobVars
    <1> QED
        BY <1>1, <1>2, PTL DEF LiveSpec, Spec

-----------------------------------------------------------------------------
(* One run of the proposer.                                                *)

(* Nobody holds a pipe: its end can be read. *)
Closed(s) == \A p \in Run!Family : s \notin holds[p]

RunTypes ==
    /\ sandboxed \in BOOLEAN /\ escaped \in BOOLEAN /\ late \in BOOLEAN
    /\ alive \subseteq Run!Family /\ holds \in [Run!Family -> SUBSET Run!Pipes]
    /\ exit \in {"running", "zero", "nonzero", "killed"}
    /\ pipe \in [Run!Pipes -> Nat] /\ written \in [Run!Pipes -> Nat]
    /\ kept \in [Run!Pipes -> Nat]
    /\ open \subseteq Run!Pipes /\ ready \subseteq open
    /\ runPc \in {"reading", "handling", "waiting", "stopping", "returned", "raised"}
    /\ status \in Run!Outcomes \cup {None}

(* The processes: the dead hold nothing, a sandbox ends with its leader,   *)
(* which keeps both pipes, and only the end of the call kills.             *)
Processes ==
    /\ \A p \in Run!Family \ alive : holds[p] = {}
    /\ "leader" \in alive <=> exit = "running"
    /\ sandboxed => /\ ~escaped
                    /\ IF "leader" \in alive THEN holds["leader"] = Run!Pipes ELSE alive = {}
    /\ exit = "killed" => Run!AtEnd /\ ("helper" \in alive => escaped)
    /\ Run!AtEnd => "leader" \notin alive

(* The bytes of a pipe: while the limit is not passed, what was written is *)
(* kept or still to be read; a pipe that was given up is at its end.       *)
Bytes(s) ==
    /\ pipe[s] <= written[s]
    /\ kept[s] <= Limit + 1
    /\ kept[s] <= Limit => kept[s] + pipe[s] = written[s]
    /\ s \notin open => pipe[s] = 0 /\ Closed(s)
    /\ s \in ready => pipe[s] > 0 \/ Closed(s)

(* The verdict, and where the caller is with it. *)
Verdict ==
    /\ runPc \in {"reading", "handling", "waiting"} =>
          status = None /\ \A s \in Run!Pipes : kept[s] <= Limit
    /\ runPc = "waiting" => open = {}
    /\ status = "timeout" => late
    /\ status = "stdout_limit" => kept["stdout"] = Limit + 1
    /\ status = "stderr_limit" => kept["stderr"] = Limit + 1
    /\ status \in {"completed", "nonzero_exit"} =>
          /\ runPc = "returned" /\ open = {}
          /\ \A s \in Run!Pipes : kept[s] <= Limit
          /\ exit = IF status = "completed" THEN "zero" ELSE "nonzero"

RunKnown == RunTypes /\ Processes /\ (\A s \in Run!Pipes : Bytes(s)) /\ Verdict

LEMMA RunStarts == ASSUME Run!ProposerAssumption, Run!Init PROVE RunKnown
    <1> USE DEF Run!ProposerAssumption, Run!Init, Run!Family, Run!Pipes
    <1>1. RunTypes
        BY DEF RunTypes
    <1>2. Processes
        BY DEF Processes, Run!AtEnd
    <1>3. \A s \in Run!Pipes : Bytes(s)
        BY DEF Bytes, Closed
    <1>4. Verdict
        BY DEF Verdict, Run!Outcomes
    <1> QED
        BY <1>1, <1>2, <1>3, <1>4 DEF RunKnown

(* The invariant says what is to be shown. *)
LEMMA RunIsTrue ==
    ASSUME RunKnown
    PROVE  Run!TypeOK /\ Run!StatusIsTrue /\ Run!NobodyIsLeft
    <1> USE DEF RunKnown, Run!Pipes, Run!Family
    <1>1. Run!TypeOK
        BY DEF Run!TypeOK, RunTypes, Processes, Bytes
    <1>2. Run!StatusIsTrue
        BY DEF Run!StatusIsTrue, RunTypes, Bytes, Closed, Verdict
    <1>3. Run!NobodyIsLeft
        BY DEF Run!NobodyIsLeft, RunTypes, Processes
    <1> QED
        BY <1>1, <1>2, <1>3

(* Processes that die take their ends of the pipes with them. *)
LEMMA Dying ==
    ASSUME RunTypes, Processes, NEW D \in SUBSET alive, Run!Die(D), sandboxed' = sandboxed
    PROVE  /\ alive' \subseteq alive /\ holds' \in [Run!Family -> SUBSET Run!Pipes]
           /\ \A p \in Run!Family : holds'[p] \subseteq holds[p]
           /\ \A p \in Run!Family \ alive' : holds'[p] = {}
           /\ "leader" \in alive' <=> "leader" \in alive /\ "leader" \notin D
           /\ "helper" \in alive' => "helper" \notin D
           /\ sandboxed => IF "leader" \in alive' THEN holds'["leader"] = Run!Pipes
                                                  ELSE alive' = {}
    BY DEF RunTypes, Processes, Run!Die, Run!Doomed, Run!Family, Run!Pipes

(* What the proposer does while the caller does nothing. *)
LEMMA ProposerKeeps ==
    ASSUME RunKnown, Run!Proposer
    PROVE  RunKnown'
    <1> USE DEF RunKnown
    <1>1. CASE \E p \in Run!Family : Run!Exit(p)
        <2> PICK p \in Run!Family : Run!Exit(p)
            BY <1>1
        <2>1. /\ UNCHANGED <<sandboxed, escaped, pipe, written, kept, open, ready, late,
                             runPc, status>>
              /\ {p} \in SUBSET alive /\ Run!Die({p})
              /\ IF p = "leader" THEN exit' \in {"zero", "nonzero"} ELSE exit' = exit
            BY DEF Run!Exit
        <2>2. /\ alive' \subseteq alive /\ holds' \in [Run!Family -> SUBSET Run!Pipes]
              /\ \A q \in Run!Family : holds'[q] \subseteq holds[q]
              /\ \A q \in Run!Family \ alive' : holds'[q] = {}
              /\ "leader" \in alive' <=> "leader" \in alive /\ "leader" # p
              /\ sandboxed => IF "leader" \in alive' THEN holds'["leader"] = Run!Pipes
                                                     ELSE alive' = {}
            BY <2>1, Dying
        <2>3. RunTypes'
            BY <2>1, <2>2 DEF RunTypes
        <2>4. Processes'
            BY <2>1, <2>2 DEF Processes, RunTypes, Run!AtEnd
        <2>5. ASSUME NEW s \in Run!Pipes PROVE Bytes(s)'
            BY <2>1, <2>2 DEF Bytes, Closed
        <2>6. Verdict'
            BY <2>1, <2>2 DEF Verdict, Processes, RunTypes
        <2> QED
            BY <2>3, <2>4, <2>5, <2>6
    <1>2. CASE \E p \in Run!Family, t \in Run!Pipes : Run!Write(p, t)
        <2> PICK p \in Run!Family, t \in Run!Pipes : Run!Write(p, t)
            BY <1>2
        <2>1. /\ UNCHANGED <<sandboxed, escaped, alive, holds, exit, kept, open, ready, late,
                             runPc, status>>
              /\ t \in holds[p] /\ ~Run!AtEnd
              /\ pipe' = [pipe EXCEPT ![t] = @ + 1]
              /\ written' = [written EXCEPT ![t] = @ + 1]
            BY DEF Run!Write, Run!family
        <2>2. RunTypes'
            BY <2>1 DEF RunTypes
        <2>3. Processes'
            BY <2>1 DEF Processes, Run!AtEnd
        <2>4. ASSUME NEW s \in Run!Pipes PROVE Bytes(s)'
            BY <2>1 DEF Bytes, Closed, RunTypes
        <2>5. Verdict'
            BY <2>1 DEF Verdict
        <2> QED
            BY <2>2, <2>3, <2>4, <2>5
    <1>3. CASE \E p \in Run!Family, t \in Run!Pipes : Run!CloseEnd(p, t)
        <2> PICK p \in Run!Family, t \in Run!Pipes : Run!CloseEnd(p, t)
            BY <1>3
        <2>1. /\ UNCHANGED <<sandboxed, escaped, alive, exit, pipe, written, kept, open, ready,
                             late, runPc, status>>
              /\ p \in alive /\ (sandboxed => p # "leader")
              /\ holds' = [holds EXCEPT ![p] = @ \ {t}]
            BY DEF Run!CloseEnd
        <2>2. RunTypes'
            BY <2>1 DEF RunTypes
        <2>3. Processes'
            BY <2>1 DEF Processes, RunTypes, Run!AtEnd, Run!Family
        <2>4. ASSUME NEW s \in Run!Pipes PROVE Bytes(s)'
            BY <2>1 DEF Bytes, Closed, RunTypes
        <2>5. Verdict'
            BY <2>1 DEF Verdict
        <2> QED
            BY <2>2, <2>3, <2>4, <2>5
    <1> QED
        BY <1>1, <1>2, <1>3 DEF Run!Proposer

(* Select and its timeout. *)
LEMMA SelectKeeps ==
    ASSUME Run!ProposerAssumption, RunKnown, Run!Select \/ Run!TimeOut \/ Run!StartWait
    PROVE  RunKnown'
    <1> USE DEF RunKnown
    <1>1. /\ UNCHANGED <<sandboxed, escaped, alive, holds, exit, pipe, written, kept, open, late>>
          /\ runPc = "reading" /\ runPc' \in {"handling", "stopping", "waiting"}
          /\ ready' \subseteq open /\ status' \in {None, "timeout"}
          /\ \A s \in ready' \ ready : Run!Readable(s)
          /\ status' = "timeout" => late /\ runPc' = "stopping"
          /\ runPc' = "waiting" => open = {}
          /\ runPc' # "stopping" => status' = status
        BY DEF Run!Select, Run!TimeOut, Run!StartWait, Run!family, RunTypes, Verdict,
               Run!ProposerAssumption, Run!Outcomes
    <1>2. RunTypes'
        BY <1>1 DEF RunTypes, Run!Outcomes
    <1>3. Processes'
        BY <1>1 DEF Processes, Run!AtEnd
    <1>4. ASSUME NEW s \in Run!Pipes PROVE Bytes(s)'
        BY <1>1 DEF Bytes, Closed, Run!Readable
    <1>5. Verdict'
        BY <1>1 DEF Verdict, Run!ProposerAssumption, Run!Outcomes
    <1> QED
        BY <1>2, <1>3, <1>4, <1>5

(* What is read is kept, up to one byte beyond the limit. *)
LEMMA ReadKeeps ==
    ASSUME Run!ProposerAssumption, RunKnown, NEW t \in Run!Pipes, Run!ReadBytes(t)
    PROVE  RunKnown'
    <1> USE DEF RunKnown
    <1>1. PICK n \in 1 .. pipe[t] : /\ pipe' = [pipe EXCEPT ![t] = @ - n]
                                    /\ kept' = [kept EXCEPT ![t] = Run!Min({@ + n, Limit + 1})]
        BY DEF Run!ReadBytes
    <1>2. /\ UNCHANGED <<sandboxed, escaped, alive, holds, exit, written, open, late>>
          /\ runPc = "handling" /\ t \in ready /\ runPc' \in {"reading", "handling", "stopping"}
          /\ ready' \subseteq ready /\ t \notin ready'
          /\ IF kept'[t] > Limit
             THEN /\ runPc' = "stopping"
                  /\ status' = IF t = "stdout" THEN "stdout_limit" ELSE "stderr_limit"
             ELSE runPc' # "stopping" /\ status' = status
        BY DEF Run!ReadBytes, Run!Handled, Run!family
    <1>3. n \in Nat /\ n <= pipe[t] /\ n > 0 /\ pipe[t] \in Nat /\ kept[t] \in Nat
          /\ Limit \in Nat /\ kept[t] <= Limit /\ kept[t] + pipe[t] = written[t]
        BY <1>1, <1>2 DEF RunTypes, Verdict, Bytes, Run!ProposerAssumption
    <1>4. LET m == kept[t] + n
          IN  Run!Min({m, Limit + 1}) = IF m <= Limit THEN m ELSE Limit + 1
        <2> DEFINE m == kept[t] + n
        <2>1. m \in Nat /\ Limit + 1 \in Nat
            BY <1>3
        <2> HIDE DEF m
        <2>2. Run!Min({m, Limit + 1}) = IF m <= Limit THEN m ELSE Limit + 1
            BY <2>1, <1>3 DEF Run!Min
        <2> QED
            BY <2>2 DEF m
    <1>5. /\ pipe' \in [Run!Pipes -> Nat] /\ kept' \in [Run!Pipes -> Nat]
          /\ pipe'[t] = pipe[t] - n
          /\ kept'[t] = IF kept[t] + n <= Limit THEN kept[t] + n ELSE Limit + 1
          /\ \A s \in Run!Pipes \ {t} : pipe'[s] = pipe[s] /\ kept'[s] = kept[s]
        <2>1. kept'[t] = Run!Min({kept[t] + n, Limit + 1})
            BY <1>1 DEF RunTypes
        <2>2. kept'[t] = IF kept[t] + n <= Limit THEN kept[t] + n ELSE Limit + 1
            BY <2>1, <1>4
        <2>3. kept'[t] \in Nat
            BY <2>2, <1>3
        <2>4. kept' = [kept EXCEPT ![t] = kept'[t]]
            BY <1>1, <2>1 DEF RunTypes
        <2>5. kept' \in [Run!Pipes -> Nat] /\ \A s \in Run!Pipes \ {t} : kept'[s] = kept[s]
            BY <2>3, <2>4 DEF RunTypes
        <2>6. pipe' \in [Run!Pipes -> Nat] /\ pipe'[t] = pipe[t] - n
              /\ \A s \in Run!Pipes \ {t} : pipe'[s] = pipe[s]
            BY <1>1, <1>3 DEF RunTypes
        <2> QED
            BY <2>2, <2>5, <2>6
    <1>6. RunTypes'
        BY <1>2, <1>5 DEF RunTypes, Run!Outcomes
    <1>7. Processes'
        BY <1>2 DEF Processes, Run!AtEnd
    <1>8. ASSUME NEW s \in Run!Pipes PROVE Bytes(s)'
        <2>1. CASE s = t
            BY <1>2, <1>3, <1>5, <2>1 DEF Bytes, RunTypes
        <2>2. CASE s # t
            BY <1>2, <1>5, <2>2 DEF Bytes, Closed
        <2> QED
            BY <2>1, <2>2
    <1>9. Verdict'
        <2>1. status = None /\ \A s \in Run!Pipes : kept[s] <= Limit
            BY <1>2 DEF Verdict
        <2>2. None \notin Run!Outcomes
            BY DEF Run!ProposerAssumption
        <2>3. CASE kept'[t] > Limit
            BY <1>2, <1>3, <1>5, <2>3 DEF Verdict, Run!Pipes
        <2>4. CASE ~(kept'[t] > Limit)
            <3>1. \A s \in Run!Pipes : kept'[s] <= Limit
                BY <1>3, <1>5, <2>1, <2>4
            <3> QED
                BY <1>2, <2>1, <2>2, <2>4, <3>1 DEF Verdict, Run!Outcomes
        <2> QED
            BY <2>3, <2>4
    <1> QED
        BY <1>6, <1>7, <1>8, <1>9

(* A pipe is given up at its end. *)
LEMMA EndKeeps ==
    ASSUME RunKnown, NEW t \in Run!Pipes, Run!ReadEnd(t)
    PROVE  RunKnown'
    <1> USE DEF RunKnown
    <1>1. /\ UNCHANGED <<sandboxed, escaped, alive, holds, exit, pipe, written, kept, late, status>>
          /\ runPc = "handling" /\ t \in ready /\ pipe[t] = 0
          /\ runPc' \in {"reading", "handling"}
          /\ open' = open \ {t} /\ ready' = ready \ {t}
        BY DEF Run!ReadEnd, Run!Handled, Run!family
    <1>2. RunTypes'
        BY <1>1 DEF RunTypes
    <1>3. Processes'
        BY <1>1 DEF Processes, Run!AtEnd
    <1>4. ASSUME NEW s \in Run!Pipes PROVE Bytes(s)'
        BY <1>1 DEF Bytes, Closed, RunTypes
    <1>5. Verdict'
        BY <1>1 DEF Verdict
    <1> QED
        BY <1>2, <1>3, <1>4, <1>5

(* The group is killed, unless its leader has ended. *)
LEMMA TerminateKeeps ==
    ASSUME RunKnown, ~Run!AtEnd, Run!Terminate, runPc' \in {"returned", "raised"},
           UNCHANGED <<sandboxed, escaped, pipe, written, kept, open, ready, late, status>>
    PROVE  RunKnown'
    <1> USE DEF RunKnown
    <1>1. /\ alive' \subseteq alive /\ holds' \in [Run!Family -> SUBSET Run!Pipes]
          /\ \A p \in Run!Family : holds'[p] \subseteq holds[p]
          /\ \A p \in Run!Family \ alive' : holds'[p] = {}
          /\ "leader" \notin alive' /\ exit' \in {exit, "killed"} /\ exit' # "running"
          /\ exit' = "killed" /\ "helper" \in alive' => escaped
          /\ sandboxed => alive' = {}
        <2>1. CASE "leader" \notin alive
            BY <2>1 DEF Run!Terminate, Run!family, Processes, RunTypes
        <2>2. CASE "leader" \in alive
            <3>1. /\ Run!Die(Run!Group \cap alive) /\ exit' = "killed"
                  /\ Run!Group \cap alive \in SUBSET alive
                  /\ "leader" \in Run!Group \cap alive
                  /\ ~escaped => Run!Group = Run!Family
                BY <2>2 DEF Run!Terminate, Run!Group, Run!Family
            <3>2. /\ alive' \subseteq alive /\ holds' \in [Run!Family -> SUBSET Run!Pipes]
                  /\ \A p \in Run!Family : holds'[p] \subseteq holds[p]
                  /\ \A p \in Run!Family \ alive' : holds'[p] = {}
                  /\ "leader" \notin alive'
                  /\ "helper" \in alive' => "helper" \notin Run!Group \cap alive
                  /\ sandboxed => alive' = {}
                BY <3>1, Dying
            <3> QED
                BY <3>1, <3>2 DEF Run!Family
        <2> QED
            BY <2>1, <2>2
    <1>2. RunTypes'
        BY <1>1 DEF RunTypes
    <1>3. Processes'
        BY <1>1 DEF Processes, Run!AtEnd
    <1>4. ASSUME NEW s \in Run!Pipes PROVE Bytes(s)'
        BY <1>1 DEF Bytes, Closed
    <1>5. Verdict'
        BY DEF Verdict, Run!AtEnd
    <1> QED
        BY <1>2, <1>3, <1>4, <1>5

(* The leader has ended, and both pipes had before it was waited for. *)
LEMMA WaitKeeps ==
    ASSUME RunKnown, Run!Wait
    PROVE  RunKnown'
    <1> USE DEF RunKnown
    <1>1. /\ UNCHANGED <<sandboxed, escaped, alive, holds, exit, pipe, written, kept, open, ready,
                         late>>
          /\ runPc = "waiting" /\ "leader" \notin alive /\ runPc' = "returned"
          /\ status' = IF exit = "zero" THEN "completed" ELSE "nonzero_exit"
        BY DEF Run!Wait, Run!family
    <1>2. RunTypes'
        BY <1>1 DEF RunTypes, Run!Outcomes
    <1>3. Processes'
        BY <1>1 DEF Processes, Run!AtEnd
    <1>4. ASSUME NEW s \in Run!Pipes PROVE Bytes(s)'
        BY <1>1 DEF Bytes, Closed
    <1>5. exit \in {"zero", "nonzero"}
        BY <1>1 DEF RunTypes, Processes, Run!AtEnd
    <1>6. Verdict'
        BY <1>1, <1>5 DEF Verdict
    <1> QED
        BY <1>2, <1>3, <1>4, <1>6

LEMMA RunStays == RunKnown /\ UNCHANGED runVars => RunKnown'
    BY DEF RunKnown, RunTypes, Processes, Bytes, Closed, Verdict, runVars, Run!AtEnd

LEMMA RunSteps ==
    ASSUME Run!ProposerAssumption, RunKnown, Run!Next
    PROVE  RunKnown'
    <1>1. CASE Run!Select \/ Run!TimeOut \/ Run!StartWait
        BY <1>1, SelectKeeps
    <1>2. CASE \E s \in Run!Pipes : Run!ReadBytes(s) \/ Run!ReadEnd(s)
        BY <1>2, ReadKeeps, EndKeeps
    <1>3. CASE Run!Stop
        BY <1>3, TerminateKeeps DEF Run!Stop, Run!AtEnd
    <1>4. CASE Run!Wait
        BY <1>4, WaitKeeps
    <1>5. CASE Run!Interrupt
        BY <1>5, TerminateKeeps DEF Run!Interrupt
    <1>6. CASE Run!Proposer
        BY <1>6, ProposerKeeps
    <1>7. CASE Run!DeadlinePasses
        <2>1. /\ UNCHANGED <<sandboxed, escaped, alive, holds, exit, pipe, written, kept, open,
                             ready, runPc, status>>
              /\ late' = TRUE
            BY <1>7 DEF Run!DeadlinePasses, Run!family
        <2> QED
            BY <2>1 DEF RunKnown, RunTypes, Processes, Bytes, Closed, Verdict, Run!AtEnd
    <1>8. CASE Run!Over
        BY <1>8, RunStays DEF Run!Over, Run!vars, Run!family, runVars
    <1> QED
        BY <1>1, <1>2, <1>3, <1>4, <1>5, <1>6, <1>7, <1>8 DEF Run!Next, Run!Caller

(* What run_proposer says of a run is so, whatever the proposer and its    *)
(* helper do and whenever: an answer that counts is all they ever wrote,   *)
(* of a leader that ended by itself, and nobody of the group or the        *)
(* sandbox outlives the call but for what has left the group or lost its   *)
(* leader; for any limit and any amount of output.                         *)
THEOREM ProposerAnswersAreTrue ==
    ASSUME Run!ProposerAssumption
    PROVE  LiveSpec => []ProposerIsTrue
    <1> DEFINE Inv == part = "proposer" => RunKnown
    <1>1. PartsInit => Inv
        BY RunStarts DEF PartsInit
    <1>2. Inv /\ [PartsNext]_<<part, jobVars, runVars>> => Inv'
        <2> SUFFICES ASSUME Inv, [PartsNext]_<<part, jobVars, runVars>>, part' = "proposer"
                     PROVE  RunKnown'
            OBVIOUS
        <2>1. part = "proposer" /\ (Run!Next \/ UNCHANGED runVars)
            BY DEF PartsNext
        <2> QED
            BY <2>1, RunSteps, RunStays
    <1>3. Inv => ProposerIsTrue
        BY RunIsTrue DEF ProposerIsTrue
    <1> QED
        BY <1>1, <1>2, <1>3, PTL DEF LiveSpec
=============================================================================
