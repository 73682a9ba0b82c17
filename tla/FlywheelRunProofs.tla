-------------------------- MODULE FlywheelRunProofs --------------------------
(***************************************************************************)
(* The safety of the generation loop, for any number of launches, any      *)
(* targets and any cadence of checkpoints and evaluations.                 *)
(***************************************************************************)
EXTENDS FlywheelRun, SequenceTheorems, WellFoundedInduction, TLAPS

-----------------------------------------------------------------------------
(* Numbers: the largest of a bounded set, and counting modulo the cadence. *)

LEMMA LeastNatural ==
    ASSUME NEW T, T \subseteq Nat, T # {}
    PROVE  \E x \in T : \A y \in T : x <= y
<1>1. \E x \in T : \A y \in T : ~ (<<y, x>> \in OpToRel(<, Nat))
  BY NatLessThanWellFounded, WFMin
<1>2. \A x, y \in Nat : <<y, x>> \in OpToRel(<, Nat) <=> y < x
  BY DEF OpToRel
<1>3. PICK x \in T : \A y \in T : ~ (<<y, x>> \in OpToRel(<, Nat))
  BY <1>1
<1>4. \A y \in T : ~ (y < x)
  BY <1>2, <1>3
<1>5. \A y \in T : x <= y
  BY <1>4
<1> QED BY <1>5

LEMMA MaxFacts ==
    ASSUME NEW T, NEW n \in Nat, T \subseteq 0 .. n, T # {}
    PROVE  Max(T) \in T /\ \A x \in T : x <= Max(T)
<1> DEFINE U == {n - x : x \in T}
<1>1. U \subseteq Nat /\ U # {}
  <2>1. \A x \in T : n - x \in Nat
    BY \A x \in 0 .. n : n - x \in Nat
  <2> QED BY <2>1
<1>2. PICK u \in U : \A v \in U : u <= v
  BY <1>1, LeastNatural
<1>3. PICK x \in T : u = n - x
  OBVIOUS
<1>4. \A y \in T : n - x <= n - y
  BY <1>2, <1>3
<1>5. \A y \in T : x >= y
  BY <1>4
<1>6. \E z \in T : \A y \in T : z >= y
  BY <1>5
<1>7. Max(T) \in T /\ \A y \in T : Max(T) >= y
  BY <1>6 DEF Max
<1> QED BY <1>7

LEMMA Quotient ==
    ASSUME NEW c \in Nat \ {0}, NEW n \in Nat
    PROVE  \E q \in Nat, r \in 0 .. c - 1 : n = c * q + r
<1> DEFINE T == {x \in Nat : \E q \in Nat : n = c * q + x}
<1>1. n \in T
  <2>1. n = c * 0 + n
    OBVIOUS
  <2> QED BY <2>1
<1>2. PICK r \in T : \A x \in T : r <= x
  BY <1>1, LeastNatural
<1>3. PICK q \in Nat : n = c * q + r
  OBVIOUS
<1>4. r < c
  <2> SUFFICES ASSUME r >= c PROVE FALSE
    OBVIOUS
  <2>1. c * (q + 1) = c * q + c
    OBVIOUS
  <2> DEFINE m == c * q
  <2>2. m \in Nat
    OBVIOUS
  <2>3. n = (m + c) + (r - c)
    <3> HIDE DEF m
    <3>1. n = m + r
      BY <1>3 DEF m
    <3> QED BY <2>2, <3>1
  <2>4. n = c * (q + 1) + (r - c) /\ r - c \in Nat
    BY <2>1, <2>3
  <2>5. r - c \in T
    BY <2>4
  <2> QED BY <1>2, <2>5
<1> QED BY <1>3, <1>4

LEMMA Remainder ==
    ASSUME NEW c \in Nat \ {0}, NEW n \in Nat, NEW q \in Int, NEW r \in 0 .. c - 1,
           n = c * q + r
    PROVE  n % c = r
BY SMTT(60)

(* Between two multiples of c the remainder counts. *)
LEMMA RemainderSucc ==
    ASSUME NEW c \in Nat \ {0}, NEW n \in Nat
    PROVE  /\ n % c \in 0 .. c - 1
           /\ (n + 1) % c # 0 => (n + 1) % c = (n % c) + 1
<1>1. PICK q \in Nat, r \in 0 .. c - 1 : n = c * q + r
  BY Quotient
<1>2. n % c = r
  BY <1>1, Remainder
<1> DEFINE m == c * q
<1>3. m \in Nat /\ n = m + r
  BY <1>1
<1>4. CASE r + 1 < c
  <2>1. n + 1 = m + (r + 1)
    <3> HIDE DEF m
    <3> QED BY <1>3
  <2>2. n + 1 \in Nat /\ r + 1 \in 0 .. c - 1 /\ q \in Int
    BY <1>4
  <2>3. (n + 1) % c = r + 1
    BY ONLY <2>1, <2>2, Remainder
  <2> QED BY <1>2, <2>3
<1>5. CASE r + 1 = c
  <2>1. c * (q + 1) = m + c
    OBVIOUS
  <2>2. n + 1 = m + c
    <3> HIDE DEF m
    <3> QED BY <1>3, <1>5
  <2>3. n + 1 = c * (q + 1) + 0
    BY <2>1, <2>2
  <2>4. n + 1 \in Nat /\ 0 \in 0 .. c - 1 /\ q + 1 \in Int
    OBVIOUS
  <2>5. (n + 1) % c = 0
    BY ONLY <2>3, <2>4, Remainder
  <2> QED BY <1>2, <2>5
<1> QED BY <1>4, <1>5

LEMMA ZeroRemainder == ASSUME NEW c \in Nat \ {0} PROVE 0 % c = 0
<1>1. 0 = c * 0 + 0
  OBVIOUS
<1> QED BY <1>1, Remainder

-----------------------------------------------------------------------------
(* Prefixes. *)

LEMMA PrefixPointwise ==
    ASSUME NEW S, NEW s \in Seq(S), NEW t \in Seq(S)
    PROVE  IsPrefix(s, t)
             <=> (Len(s) <= Len(t) /\ \A i \in 1 .. Len(s) : s[i] = t[i])
<1>1. CASE Len(s) > Len(t)
  BY <1>1 DEF IsPrefix
<1>2. CASE Len(s) <= Len(t)
  <2> DEFINE a == SubSeq(s, 1, Len(s))
             b == SubSeq(t, 1, Len(s))
  <2>1. /\ a \in Seq(S) /\ Len(a) = Len(s) /\ \A i \in 1 .. Len(s) : a[i] = s[i]
        /\ b \in Seq(S) /\ Len(b) = Len(s) /\ \A i \in 1 .. Len(s) : b[i] = t[i]
    BY <1>2
  <2>2. a = b <=> \A i \in 1 .. Len(s) : s[i] = t[i]
    BY <2>1, SeqEqual
  <2> QED BY <1>2, <2>2 DEF IsPrefix
<1> QED BY <1>1, <1>2

LEMMA PrefixRefl ==
    ASSUME NEW S, NEW s \in Seq(S)
    PROVE  IsPrefix(s, s)
BY PrefixPointwise

LEMMA PrefixTrans ==
    ASSUME NEW S, NEW s \in Seq(S), NEW t \in Seq(S), NEW u \in Seq(S),
           IsPrefix(s, t), IsPrefix(t, u)
    PROVE  IsPrefix(s, u)
BY PrefixPointwise

LEMMA PrefixAppend ==
    ASSUME NEW S, NEW s \in Seq(S), NEW t \in Seq(S), NEW e \in S
    PROVE  /\ IsPrefix(s, t) => IsPrefix(s, Append(t, e))
           /\ IsPrefix(s, Append(t, e)) =>
                 IsPrefix(s, t) \/ (Len(s) = Len(t) + 1 /\ s[Len(s)] = e)
<1>1. /\ Append(t, e) \in Seq(S) /\ Len(Append(t, e)) = Len(t) + 1
      /\ \A i \in 1 .. Len(t) : Append(t, e)[i] = t[i]
      /\ Append(t, e)[Len(t) + 1] = e
      /\ Len(s) \in Nat /\ Len(t) \in Nat
  OBVIOUS
<1>2. IsPrefix(s, t) <=> (Len(s) <= Len(t) /\ \A i \in 1 .. Len(s) : s[i] = t[i])
  BY PrefixPointwise
<1>3. IsPrefix(s, Append(t, e)) <=>
          (Len(s) <= Len(t) + 1 /\ \A i \in 1 .. Len(s) : s[i] = Append(t, e)[i])
  <2> DEFINE u == Append(t, e)
  <2>1. u \in Seq(S) /\ Len(u) = Len(t) + 1
    BY <1>1
  <2> HIDE DEF u
  <2>2. IsPrefix(s, u) <=> (Len(s) <= Len(u) /\ \A i \in 1 .. Len(s) : s[i] = u[i])
    BY <2>1, PrefixPointwise
  <2>3. IsPrefix(s, u) <=> (Len(s) <= Len(t) + 1 /\ \A i \in 1 .. Len(s) : s[i] = u[i])
    BY ONLY <2>1, <2>2
  <2> QED BY <2>3 DEF u
<1>4. CASE Len(s) <= Len(t)
  <2>1. \A i \in 1 .. Len(s) : Append(t, e)[i] = t[i]
    BY <1>1, <1>4
  <2>2. Len(s) <= Len(t) + 1
    BY <1>1, <1>4
  <2>3. IsPrefix(s, Append(t, e)) <=> IsPrefix(s, t)
    BY <1>2, <1>3, <1>4, <2>1, <2>2
  <2> QED BY <2>3
<1>5. CASE ~(Len(s) <= Len(t))
  <2>1. ~IsPrefix(s, t)
    BY <1>2, <1>5
  <2>2. IsPrefix(s, Append(t, e)) => Len(s) = Len(t) + 1
    BY <1>1, <1>3, <1>5
  <2>3. IsPrefix(s, Append(t, e)) => s[Len(s)] = e
    BY <1>1, <1>3, <2>2
  <2> QED BY <2>1, <2>2, <2>3
<1> QED BY <1>4, <1>5

-----------------------------------------------------------------------------
(* Generations, models and checkpoints. *)

Launches == 1 .. MaxLaunches

LEMMA GenerationsFacts ==
    /\ Max(Limits) \in Limits /\ Max(Limits) \in Nat
    /\ \A n \in Limits : n \in Nat /\ n > 0 /\ n \in Generations
    /\ 0 \in Generations
    /\ \A g \in Generations : g \in Nat
    /\ \A n \in Limits : \A g \in Nat : g <= n => g \in Generations
<1>1. PICK n \in Limits : \A m \in Limits : m <= n
  BY RunAssumption
<1>2. \A m \in Limits : m \in Nat /\ m > 0
  BY RunAssumption
<1>3. \E l \in Limits : \A m \in Limits : l >= m
  BY <1>1, <1>2
<1>4. Max(Limits) \in Limits /\ \A m \in Limits : Max(Limits) >= m
  BY <1>3 DEF Max
<1> QED BY <1>2, <1>4 DEF Generations

(* A model is a sequence of launches. *)
LEMMA ModelIsSeq ==
    ASSUME NEW m \in Models
    PROVE  /\ m \in Seq(Launches) /\ m \in Seq(Nat)
           /\ Len(m) \in Generations /\ DOMAIN m = 1 .. Len(m)
           /\ \A i \in 1 .. Len(m) : m[i] \in Nat
<1>1. PICK n \in Generations : m \in [1 .. n -> Launches]
  BY DEF Models, Launches
<1>2. n \in Nat
  BY GenerationsFacts
<1>3. m \in Seq(Launches)
  BY <1>1, <1>2
<1>7. Len(m) = n
  BY <1>1, <1>2, <1>3, LenProperties
<1>4. \A i \in 1 .. n : m[i] \in Nat
  BY <1>1 DEF Launches
<1>5. m \in [1 .. n -> Nat]
  BY <1>1, <1>4
<1>6. m \in Seq(Nat)
  BY <1>2, <1>5
<1> QED BY <1>1, <1>3, <1>4, <1>6, <1>7

LEMMA SeqIsModel ==
    ASSUME NEW m \in Seq(Launches), Len(m) \in Generations
    PROVE  m \in Models
<1>1. m \in [1 .. Len(m) -> Launches]
  BY LenProperties
<1> QED BY <1>1 DEF Models, Launches

LEMMA NoTraining == << >> \in Models /\ Len(<< >>) = 0
<1>1. << >> \in Seq(Launches) /\ Len(<< >>) = 0
  BY EmptySeq
<1> QED BY <1>1, SeqIsModel, GenerationsFacts

LEMMA MoreTraining ==
    ASSUME NEW m \in Models, NEW l \in Launches, Len(m) + 1 \in Generations
    PROVE  /\ Append(m, l) \in Models /\ Len(Append(m, l)) = Len(m) + 1
           /\ \A i \in 1 .. Len(m) : Append(m, l)[i] = m[i]
           /\ Append(m, l)[Len(m) + 1] = l
<1>1. m \in Seq(Launches)
  BY ModelIsSeq
<1>2. /\ Append(m, l) \in Seq(Launches) /\ Len(Append(m, l)) = Len(m) + 1
      /\ \A i \in 1 .. Len(m) : Append(m, l)[i] = m[i]
      /\ Append(m, l)[Len(m) + 1] = l
  BY <1>1
<1> QED BY <1>2, SeqIsModel

-----------------------------------------------------------------------------
(* The inductive invariant.                                                *)

Running == pc \notin {"down", "clearing"}

Exists(g) == g \in Generations /\ ckpt[g] # None

(* The gate has turned down what the launch holds. *)
TurnedDown == pc \in {"saved", "verdict"} /\ ~accepted

(* Where the launch is, and what that says of its memory.                  *)
Position ==
    /\ launches = 0 => pc = "down" /\ lastGoodFile = None
                          /\ \A g \in Generations : ckpt[g] = None
    /\ pc # "down" => limit \in Limits
    /\ pc = "baseline" =>
          /\ gen = 0 /\ model = << >> /\ archive = {} /\ lastGood \in {None, << >>}
          /\ lastGoodFile = None /\ \A g \in Generations : ckpt[g] = None
    /\ pc = "clearing" => source \in AcceptedCheckpoints
    /\ pc \in {"baseline", "top", "update"} => gen < limit
    /\ Running => gen <= limit
    /\ pc \in {"gate", "boundary", "save", "saved", "verdict"} =>
          gen >= 1 /\ model[gen] = launches
    /\ pc = "update" => pending \subseteq {<<launches, gen + 1>>}
    /\ pc \in {"boundary", "save", "saved"} /\ accepted /\ EvaluationDue => lastGood = model
    /\ pc = "saved" =>
          /\ ckpt[gen] # None /\ ckpt[gen].model = model /\ ckpt[gen].lastGood = lastGood
          /\ ckpt[gen].accepted = accepted

(* A shard comes from the launch that trained that generation. *)
ArchiveOf(a, m) == \A s \in a : s[2] \in DOMAIN m /\ m[s[2]] = s[1]

Archives ==
    /\ \A g \in Generations : Exists(g) => ArchiveOf(ckpt[g].archive, ckpt[g].model)
    /\ Running => ArchiveOf(archive, model)

LastGoods ==
    /\ \A g \in Generations : Exists(g) /\ ckpt[g].lastGood # None =>
          IsPrefix(ckpt[g].lastGood, ckpt[g].model)
    /\ LastGoodIsAncestor

(* A STOP is there before it is counted, and kept until the run ends.      *)
Stops ==
    /\ sinceStop <= 1
    /\ pc \in {"baseline", "clearing", "top", "update"} => sinceStop = 0
    /\ pc \in {"gate", "boundary"} /\ sinceStop = 1 => stop
    /\ pc \in {"save", "saved", "verdict"} /\ sinceStop = 1 => stopAfter

(* The generations since the checkpoint of an ancestor are those since the *)
(* last multiple of the cadence at most.  Of a generation that is finished *)
(* and not yet saved, or that is rejected, this is known of the one before.*)
Near(n) ==
    \E g \in AcceptedCheckpoints :
        n - g <= n % CheckpointEvery /\ IsPrefix(ckpt[g].model, model)

Anchored ==
    /\ pc \in {"top", "update"} => Near(gen)
    /\ pc \in {"gate", "boundary", "save"} => Near(gen - 1)
    /\ pc \in {"saved", "verdict"} => IF accepted THEN Near(gen) ELSE Near(gen - 1)

(* A number of a launch in a model is one of a launch there was; that of   *)
(* the running launch is in its own model and its own checkpoints only.    *)
Trainers ==
    /\ \A g \in Generations : Exists(g) => \A i \in 1 .. g :
          /\ ckpt[g].model[i] <= launches
          /\ pc # "down" /\ ckpt[g].model[i] = launches => Running /\ g <= gen
    /\ Running => \A i \in 1 .. gen : model[i] <= launches

(* A candidate the gate turned down. *)
Bad(r) == Exists(r) /\ ~ckpt[r].accepted

(* The last launch of a rejected model is over, or is just ending, and     *)
(* nothing is trained on from there.                                       *)
Apart(r) ==
    /\ r >= 1
    /\ \A g \in AcceptedCheckpoints : ~IsPrefix(ckpt[r].model, ckpt[g].model)
    /\ Running /\ ~TurnedDown => ~IsPrefix(ckpt[r].model, model)
    /\ pc # "down" /\ ~TurnedDown => ckpt[r].model[r] < launches

Rejected == \A r \in Generations : Bad(r) => Apart(r)

Line ==
    /\ OneLine
    /\ ~rewound /\ pc = "clearing" => \A g \in AcceptedCheckpoints : g <= source
    /\ ~rewound /\ Running =>
          \A g \in AcceptedCheckpoints : g <= gen /\ IsPrefix(ckpt[g].model, model)

RunInv ==
    /\ TypeOK /\ Position /\ Archives /\ LastGoods /\ Stops /\ Anchored
    /\ Trainers /\ Rejected /\ Line

-----------------------------------------------------------------------------
(* The initial state. *)

LEMMA InitInv == Init => RunInv
<1> SUFFICES ASSUME Init PROVE RunInv
  OBVIOUS
<1>1. \A g \in Generations : ckpt[g] = None
  BY DEF Init
<1>2. TypeOK
  <2>1. DOMAIN ckpt = Generations /\ launches \in 0 .. MaxLaunches
    BY RunAssumption DEF Init
  <2>2. gen \in Generations /\ model \in Models
    BY GenerationsFacts, NoTraining DEF Init
  <2> QED BY <1>1, <2>1, <2>2 DEF Init, TypeOK
<1>3. Position
  BY <1>1 DEF Init, Position, Running
<1>4. Archives /\ Trainers /\ Rejected
  BY <1>1 DEF Init, Archives, Trainers, Rejected, Bad, Exists, Running
<1>5. LastGoods
  BY <1>1 DEF Init, LastGoods, LastGoodIsAncestor, Exists
<1>6. Stops
  BY DEF Init, Stops
<1>7. Anchored
  BY DEF Init, Anchored
<1>8. Line
  BY <1>1 DEF Init, Line, OneLine, AcceptedCheckpoints, Running
<1> QED BY <1>2, <1>3, <1>4, <1>5, <1>6, <1>7, <1>8 DEF RunInv

-----------------------------------------------------------------------------
(* Types. *)

LEMMA NewCheckpoint ==
    ASSUME TypeOK, limit \in Limits, NEW a \in BOOLEAN
    PROVE  LET c == [model |-> model, accepted |-> a, lastGood |-> lastGood,
                     archive |-> archive, limit |-> limit]
           IN  c \in Checkpoints /\ c # None
<1> DEFINE c == [model |-> model, accepted |-> a, lastGood |-> lastGood,
                 archive |-> archive, limit |-> limit]
<1>1. c \in Checkpoints
  BY DEF TypeOK, Checkpoints
<1> QED BY <1>1, NoneAssumption

(* What every way to resume has in common. *)
Resume(n, g) ==
    /\ Launch("clearing", n, g, Ranks)
    /\ UNCHANGED memory
    /\ g \in AcceptedCheckpoints
    /\ rewound' \in BOOLEAN
    /\ ~rewound' => ~rewound /\ \A h \in AcceptedCheckpoints : h <= g

LEMMA ResumesAlike ==
    ASSUME TypeOK, NEW n \in Limits, ResumeLatest(n) \/ \E h \in Generations : ResumeFrom(n, h)
    PROVE  \E g \in Generations : Resume(n, g)
<1>1. Resumable = AcceptedCheckpoints
  BY DEF Resumable, AcceptedCheckpoints
<1>2. Resumable \subseteq 0 .. Max(Limits) /\ Max(Limits) \in Nat
  BY GenerationsFacts DEF Resumable, Generations
<1>3. Resumable # {} => Max(Resumable) \in Resumable /\ \A h \in Resumable : h <= Max(Resumable)
  BY <1>2, MaxFacts
<1>4. CASE ResumeLatest(n)
  <2>1. Resume(n, Max(Resumable))
    BY <1>1, <1>3, <1>4 DEF ResumeLatest, Resume, TypeOK
  <2> QED BY <1>3, <1>4, <2>1 DEF ResumeLatest, Resumable
<1>5. ASSUME NEW h \in Generations, ResumeFrom(n, h)
      PROVE  Resume(n, h)
  <2>1. h \in Resumable /\ Launch("clearing", n, h, Ranks) /\ UNCHANGED memory
    BY <1>5 DEF ResumeFrom
  <2>2. rewound' = (rewound \/ h # Max(Resumable))
    BY <1>5 DEF ResumeFrom
  <2>3. ~rewound' => ~rewound /\ h = Max(Resumable)
    BY <2>2
  <2>4. ~rewound' => ~rewound /\ \A k \in AcceptedCheckpoints : k <= h
    BY <1>1, <1>3, <2>1, <2>3
  <2>5. rewound' \in BOOLEAN
    BY <2>2
  <2> QED BY <1>1, <2>1, <2>4, <2>5 DEF Resume
<1> QED BY <1>4, <1>5

(* The cases of a step. *)
LEMMA Cases ==
    ASSUME TypeOK, [Next]_vars
    PROVE  \/ SaveBaseline \/ Load \/ Collect \/ Update \/ Gate \/ Boundary \/ Save
           \/ WriteLastGood \/ Verdict
           \/ LoadRefused \/ StopBefore \/ SaveRefused
           \/ (\E r \in Ranks : ClearStop(r))
           \/ (\E n \in Limits : LaunchFresh(n))
           \/ (\E n \in Limits, g \in Generations : Resume(n, g))
           \/ Fail \/ Kill \/ TouchStop \/ Signal \/ UNCHANGED vars
BY ResumesAlike DEF Next, Loop, Start

(* The run directory and the launch keep their types. *)
LEMMA TypePreserved == ASSUME TypeOK, Position, [Next]_vars PROVE TypeOK'
<1> USE NoTraining, GenerationsFacts
<1>1. CASE SaveBaseline
  <2>1. pc = "baseline" /\ limit \in Limits /\ gen = 0 /\ model = << >>
    BY <1>1 DEF SaveBaseline, Position
  <2> DEFINE c == [model |-> model, accepted |-> TRUE, lastGood |-> lastGood,
                   archive |-> archive, limit |-> limit]
  <2>2. c \in Checkpoints /\ Len(c.model) = 0
    BY <2>1, NewCheckpoint
  <2>3. ckpt' = [ckpt EXCEPT ![0] = c]
    BY <1>1 DEF SaveBaseline
  <2>4. DOMAIN ckpt' = Generations /\ \A g \in Generations : ckpt'[g] # None =>
            ckpt'[g] \in Checkpoints /\ Len(ckpt'[g].model) = g
    BY <2>2, <2>3 DEF TypeOK
  <2> QED BY <1>1, <2>1, <2>4 DEF SaveBaseline, TypeOK, Goto, launch, memory
<1>2. CASE Load
  <2>1. source \in Generations /\ ckpt[source] \in Checkpoints /\ Len(ckpt[source].model) = source
    BY <1>2 DEF Load, Position, AcceptedCheckpoints, TypeOK
  <2>2. /\ ckpt[source].model \in Models /\ ckpt[source].lastGood \in Models \cup {None}
        /\ ckpt[source].archive \subseteq (1 .. MaxLaunches) \X Generations
    BY <2>1 DEF Checkpoints
  <2> QED BY <1>2, <2>1, <2>2 DEF Load, TypeOK, Goto, Ends, disk, launch
<1>3. CASE Collect
  <2>1. launches \in 1 .. MaxLaunches /\ gen + 1 \in Generations
    BY <1>3 DEF Collect, Position, TypeOK
  <2>2. pending' \subseteq (1 .. MaxLaunches) \X Generations
    BY <1>3, <2>1 DEF Collect
  <2> QED BY <1>3, <2>2 DEF Collect, TypeOK, Goto, disk, launch
<1>4. CASE Update
  <2>1. launches \in Launches /\ gen + 1 \in Generations /\ gen = Len(model)
    BY <1>4 DEF Update, Position, TypeOK, Launches
  <2>2. model' \in Models /\ Len(model') = gen + 1
    BY <1>4, <2>1, MoreTraining DEF Update, TypeOK
  <2>3. sinceStop' \in Nat /\ archive' \subseteq (1 .. MaxLaunches) \X Generations
    BY <1>4 DEF Update, TypeOK
  <2> QED BY <1>4, <2>1, <2>2, <2>3 DEF Update, TypeOK, Goto, disk, launch
<1>5. CASE Gate
  <2>1. accepted' \in BOOLEAN /\ lastGood' \in Models \cup {None}
    BY <1>5 DEF Gate, TypeOK
  <2> QED BY <1>5, <2>1 DEF Gate, TypeOK, Goto, disk, launch
<1>6. CASE Boundary
  <2>1. stopAfter' \in BOOLEAN
    BY <1>6 DEF Boundary, StopRequested, TypeOK
  <2> QED BY <1>6, <2>1 DEF Boundary, TypeOK, Goto, disk, launch
<1>7. CASE Save
  <2>1. pc = "save" /\ limit \in Limits /\ gen = Len(model) /\ gen \in Generations
    BY <1>7 DEF Save, Position, TypeOK
  <2> DEFINE c == [model |-> model, accepted |-> accepted, lastGood |-> lastGood,
                   archive |-> archive, limit |-> limit]
  <2>2. c \in Checkpoints /\ Len(c.model) = gen
    BY <2>1, NewCheckpoint DEF TypeOK
  <2>3. ckpt' = [ckpt EXCEPT ![gen] = c]
    BY <1>7 DEF Save
  <2>4. DOMAIN ckpt' = Generations /\ \A g \in Generations : ckpt'[g] # None =>
            ckpt'[g] \in Checkpoints /\ Len(ckpt'[g].model) = g
    BY <2>1, <2>2, <2>3 DEF TypeOK
  <2> QED BY <1>7, <2>1, <2>4 DEF Save, TypeOK, Goto, launch, memory
<1>8. CASE WriteLastGood
  BY <1>8 DEF WriteLastGood, TypeOK, Goto, launch, memory
<1>9. CASE Verdict
  BY <1>9 DEF Verdict, TypeOK, Goto, Ends, disk, launch, memory
<1>10. CASE LoadRefused \/ StopBefore \/ SaveRefused
  BY <1>10 DEF LoadRefused, StopBefore, SaveRefused, TypeOK, Ends, disk, launch, memory
<1>11. ASSUME NEW r \in Ranks, ClearStop(r) PROVE TypeOK'
  BY <1>11 DEF ClearStop, TypeOK, disk, memory
<1>12. ASSUME NEW n \in Limits, LaunchFresh(n) PROVE TypeOK'
  <2>1. launches' \in 0 .. MaxLaunches /\ lastGood' \in Models \cup {None}
    BY <1>12, RunAssumption DEF LaunchFresh, Launch, TypeOK
  <2> QED BY <1>12, <2>1 DEF LaunchFresh, Launch, TypeOK, Goto, disk
<1>13. ASSUME NEW n \in Limits, NEW g \in Generations, Resume(n, g) PROVE TypeOK'
  <2>1. launches' \in 0 .. MaxLaunches
    BY <1>13, RunAssumption DEF Resume, Launch, TypeOK
  <2> QED BY <1>13, <2>1 DEF Resume, Launch, TypeOK, Goto, disk, memory
<1>14. CASE Fail \/ Kill
  <2>1. /\ pc' = "down" /\ gen' = 0 /\ model' = << >> /\ archive' = {} /\ pending' = {}
        /\ lastGood' = None /\ accepted' = TRUE /\ stopAfter' = FALSE /\ fault' \in BOOLEAN
        /\ UNCHANGED <<disk, stop, launch, signalled, sinceStop>>
    BY <1>14 DEF Fail, Kill, Forget, Ends, TypeOK
  <2> QED BY <2>1 DEF TypeOK, disk, launch
<1>15. CASE TouchStop
  BY <1>15 DEF TouchStop, TypeOK, disk, launch, memory
<1>16. CASE Signal
  BY <1>16 DEF Signal, TypeOK, disk, launch, memory
<1>17. CASE UNCHANGED vars
  BY <1>17 DEF vars, TypeOK, disk, launch, memory
<1> QED BY <1>1, <1>2, <1>3, <1>4, <1>5, <1>6, <1>7, <1>8, <1>9, <1>10, <1>11, <1>12,
           <1>13, <1>14, <1>15, <1>16, <1>17, Cases

-----------------------------------------------------------------------------
(* Where the launch is. *)

LEMMA PositionPreserved == ASSUME TypeOK, Position, [Next]_vars PROVE Position'
<1> USE GenerationsFacts
<1>1. CASE SaveBaseline
  <2>1. pc = "baseline" /\ pc' = "top"
    BY <1>1 DEF SaveBaseline, Goto
  <2>2. launches # 0 /\ limit \in Limits /\ gen = 0
    BY <2>1 DEF Position
  <2>3. launches' = launches /\ limit' = limit /\ gen' = gen
    BY <1>1 DEF SaveBaseline, launch, memory
  <2>4. 0 < limit
    BY <2>2
  <2> QED BY <2>1, <2>2, <2>3, <2>4 DEF Position, Running
<1>2. CASE Load
  <2>1. pc = "clearing" /\ pc' \in {"down", "top"} /\ launches # 0 /\ source \in Generations
    BY <1>2 DEF Load, Goto, Ends, Position, AcceptedCheckpoints
  <2>2. gen' = source /\ limit' = limit /\ limit \in Nat /\ source \in Nat
    BY <1>2, <2>1 DEF Load, Position, launch
  <2>3. pc' = "top" => ~(source + 1 > limit)
    BY <1>2 DEF Load, Goto, Ends
  <2>4. pc' = "top" => gen' < limit'
    BY <2>2, <2>3
  <2>5. pc' = "top" => gen' <= limit'
    BY <2>2, <2>4
  <2> QED BY <1>2, <2>1, <2>4, <2>5 DEF Load, Position, TypeOK, Running, launch, disk
<1>3. CASE Collect
  BY <1>3 DEF Collect, Goto, Position, TypeOK, Running, launch, disk
<1>4. CASE Update
  <2>1. launches \in Launches /\ gen + 1 \in Generations /\ gen = Len(model)
    BY <1>4 DEF Update, Position, TypeOK, Launches
  <2>2. model'[gen + 1] = launches
    BY <1>4, <2>1, MoreTraining DEF Update, TypeOK
  <2>3. gen + 1 <= limit /\ gen + 1 >= 1
    BY <1>4, <2>1 DEF Update, Position
  <2> QED BY <1>4, <2>1, <2>2, <2>3 DEF Update, Goto, Position, Running, launch, disk
<1>5. CASE Gate
  <2>1. EvaluationDue' <=> EvaluationDue
    BY <1>5 DEF Gate, EvaluationDue, launch
  <2>2. accepted' /\ EvaluationDue => lastGood' = model
    BY <1>5 DEF Gate
  <2>3. pc = "gate" /\ pc' = "boundary" /\ model' = model
    BY <1>5 DEF Gate, Goto
  <2> QED BY <1>5, <2>1, <2>2, <2>3 DEF Gate, Position, Running, launch, disk
<1>6. CASE Boundary
  <2>1. EvaluationDue' <=> EvaluationDue
    BY <1>6 DEF Boundary, EvaluationDue, launch
  <2>2. pc = "boundary" /\ pc' \in {"save", "verdict"}
    BY <1>6 DEF Boundary, Goto
  <2> QED BY <1>6, <2>1, <2>2 DEF Boundary, Position, Running, launch, disk
<1>7. CASE Save
  <2>1. EvaluationDue' <=> EvaluationDue
    BY <1>7 DEF Save, EvaluationDue, launch, memory
  <2>2. pc = "save" /\ pc' = "saved" /\ gen \in Generations /\ limit \in Limits
    BY <1>7 DEF Save, Goto, Position, TypeOK
  <2> DEFINE c == [model |-> model, accepted |-> accepted, lastGood |-> lastGood,
                   archive |-> archive, limit |-> limit]
  <2>3. c # None
    BY <2>2, NewCheckpoint DEF TypeOK
  <2>4. ckpt'[gen] = c
    BY <1>7, <2>2 DEF Save, TypeOK
  <2> QED BY <1>7, <2>1, <2>2, <2>3, <2>4 DEF Save, Position, Running, launch, memory
<1>8. CASE WriteLastGood
  <2>1. pc = "saved" /\ pc' = "verdict" /\ launches # 0
    BY <1>8 DEF WriteLastGood, Goto, Position
  <2> QED BY <1>8, <2>1 DEF WriteLastGood, Position, Running, launch, memory
<1>9. CASE Verdict
  <2>1. pc = "verdict" /\ pc' \in {"down", "top"} /\ launches # 0 /\ limit \in Limits
    BY <1>9 DEF Verdict, Goto, Ends, Position
  <2>2. pc' = "top" => gen < limit
    BY <1>9, <2>1 DEF Verdict, Goto, Ends, Position, Running, TypeOK
  <2> QED BY <1>9, <2>1, <2>2 DEF Verdict, Position, Running, TypeOK, launch, memory, disk
<1>10. CASE LoadRefused \/ StopBefore \/ SaveRefused
  <2>1. pc # "down" /\ pc' = "down" /\ launches' = launches
    BY <1>10 DEF LoadRefused, StopBefore, SaveRefused, Ends, launch
  <2> QED BY <2>1 DEF Position, Running
<1>11. ASSUME NEW r \in Ranks, ClearStop(r) PROVE Position'
  BY <1>11 DEF ClearStop, Position, Running, AcceptedCheckpoints, EvaluationDue, disk, memory
<1>12. ASSUME NEW n \in Limits, LaunchFresh(n) PROVE Position'
  <2>1. launches = 0 /\ launches' = 1 /\ pc' = "baseline" /\ limit' = n
    BY <1>12 DEF LaunchFresh, Launch, Goto
  <2> QED BY <1>12, <2>1 DEF LaunchFresh, Launch, Position, Running, disk
<1>13. ASSUME NEW n \in Limits, NEW g \in Generations, Resume(n, g) PROVE Position'
  <2>1. launches' = launches + 1 /\ pc' = "clearing" /\ limit' = n /\ source' = g /\ ckpt' = ckpt
    BY <1>13 DEF Resume, Launch, Goto, disk
  <2>2. g \in AcceptedCheckpoints'
    BY <1>13, <2>1 DEF Resume, AcceptedCheckpoints
  <2> QED BY <2>1, <2>2 DEF Position, Running, TypeOK
<1>14. CASE Fail \/ Kill
  <2>1. pc # "down" /\ pc' = "down" /\ launches' = launches
    BY <1>14 DEF Fail, Kill, Ends, launch
  <2> QED BY <2>1 DEF Position, Running
<1>15. CASE TouchStop \/ Signal \/ UNCHANGED vars
  <2>1. UNCHANGED <<disk, launch, memory, pc>>
    BY <1>15 DEF TouchStop, Signal, vars
  <2> QED BY <2>1 DEF Position, Running, AcceptedCheckpoints, EvaluationDue, disk, launch, memory
<1> QED BY <1>1, <1>2, <1>3, <1>4, <1>5, <1>6, <1>7, <1>8, <1>9, <1>10, <1>11, <1>12,
           <1>13, <1>14, <1>15, Cases

-----------------------------------------------------------------------------
(* Steps that only end the launch, and steps the run directory and what    *)
(* the launch holds do not notice.                                         *)

Ending == pc # "down" /\ pc' = "down" /\ UNCHANGED <<disk, launch>>

Quiet == UNCHANGED <<disk, memory, pc, launches, limit, source, rewound>>

LEMMA MainCases ==
    ASSUME TypeOK, [Next]_vars
    PROVE  \/ SaveBaseline \/ Load \/ Collect \/ Update \/ Gate \/ Boundary \/ Save
           \/ WriteLastGood \/ Verdict
           \/ (\E n \in Limits : LaunchFresh(n))
           \/ (\E n \in Limits, g \in Generations : Resume(n, g))
           \/ Ending \/ Quiet
<1>1. LoadRefused \/ StopBefore \/ SaveRefused \/ Fail \/ Kill => Ending
  BY DEF LoadRefused, StopBefore, SaveRefused, Fail, Kill, Ends, Ending
<1>2. ASSUME NEW r \in Ranks, ClearStop(r) PROVE Quiet
  BY <1>2 DEF ClearStop, Quiet
<1>3. TouchStop \/ Signal \/ UNCHANGED vars => Quiet
  BY DEF TouchStop, Signal, vars, Quiet, launch
<1> QED BY <1>1, <1>2, <1>3, Cases

-----------------------------------------------------------------------------
(* STOP. *)

LEMMA StopsPreserved == ASSUME TypeOK, Position, Stops, [Next]_vars PROVE Stops'
<1>1. CASE SaveBaseline \/ Load \/ Collect
  <2>1. /\ pc \in {"baseline", "clearing", "top"} /\ pc' \in {"down", "top", "update"}
        /\ sinceStop' = sinceStop
    BY <1>1 DEF SaveBaseline, Load, Collect, Goto, Ends
  <2> QED BY <2>1 DEF Stops
<1>2. CASE Update
  <2>1. sinceStop = 0 /\ pc' = "gate" /\ stop' = stop
    BY <1>2 DEF Update, Goto, Stops
  <2>2. sinceStop' = IF stop THEN 1 ELSE 0
    BY <1>2, <2>1 DEF Update
  <2> QED BY <2>1, <2>2 DEF Stops
<1>3. CASE Gate
  BY <1>3 DEF Gate, Goto, Stops
<1>4. CASE Boundary
  <2>1. /\ pc = "boundary" /\ pc' \in {"save", "verdict"}
        /\ sinceStop' = sinceStop /\ stopAfter' = (stop \/ signalled)
    BY <1>4 DEF Boundary, Goto, StopRequested
  <2>2. sinceStop' = 1 => stopAfter'
    BY <2>1 DEF Stops
  <2>3. sinceStop' <= 1
    BY <2>1 DEF Stops
  <2> QED BY <2>1, <2>2, <2>3 DEF Stops
<1>5. CASE Save \/ WriteLastGood
  <2>1. /\ pc \in {"save", "saved"} /\ pc' \in {"saved", "verdict"}
        /\ sinceStop' = sinceStop /\ stopAfter' = stopAfter
    BY <1>5 DEF Save, WriteLastGood, Goto, memory
  <2> QED BY <2>1 DEF Stops
<1>6. CASE Verdict
  <2>1. pc = "verdict" /\ pc' \in {"down", "top"} /\ sinceStop' = sinceStop
    BY <1>6 DEF Verdict, Goto, Ends
  <2>2. pc' = "top" => ~stopAfter
    BY <1>6 DEF Verdict, Goto, Ends
  <2>3. pc' = "top" => sinceStop # 1
    BY <2>1, <2>2 DEF Stops
  <2>4. pc' = "top" => sinceStop = 0
    BY <2>3 DEF Stops, TypeOK
  <2> QED BY <2>1, <2>4 DEF Stops
<1>7. CASE LoadRefused \/ StopBefore \/ SaveRefused \/ Fail \/ Kill
  <2>1. pc' = "down" /\ sinceStop' = sinceStop
    BY <1>7 DEF LoadRefused, StopBefore, SaveRefused, Fail, Kill, Ends
  <2> QED BY <2>1 DEF Stops
<1>8. ASSUME NEW r \in Ranks, ClearStop(r) PROVE Stops'
  BY <1>8 DEF ClearStop, Stops
<1>9. ASSUME NEW n \in Limits, LaunchFresh(n) \/ \E g \in Generations : Resume(n, g)
      PROVE  Stops'
  <2>1. pc' \in {"baseline", "clearing"} /\ sinceStop' = 0
    BY <1>9 DEF LaunchFresh, Resume, Launch, Goto
  <2> QED BY <2>1 DEF Stops
<1>10. CASE TouchStop
  BY <1>10 DEF TouchStop, Stops, memory
<1>11. CASE Signal
  BY <1>11 DEF Signal, Stops, memory
<1>12. CASE UNCHANGED vars
  BY <1>12 DEF vars, Stops, memory
<1> QED BY <1>1, <1>2, <1>3, <1>4, <1>5, <1>6, <1>7, <1>8, <1>9, <1>10, <1>11, <1>12, Cases

-----------------------------------------------------------------------------
(* What a checkpoint holds. *)

LEMMA InCheckpoint ==
    ASSUME TypeOK, NEW g, Exists(g)
    PROVE  /\ ckpt[g].model \in Models /\ ckpt[g].lastGood \in Models \cup {None}
           /\ ckpt[g].accepted \in BOOLEAN /\ Len(ckpt[g].model) = g
           /\ ckpt[g].model \in Seq(Launches) /\ ckpt[g].model \in Seq(Nat)
           /\ DOMAIN ckpt[g].model = 1 .. g
<1>1. ckpt[g] \in Checkpoints /\ Len(ckpt[g].model) = g
  BY DEF Exists, TypeOK
<1>2. /\ ckpt[g].model \in Models /\ ckpt[g].lastGood \in Models \cup {None}
      /\ ckpt[g].accepted \in BOOLEAN
  BY <1>1 DEF Checkpoints
<1> QED BY <1>1, <1>2, ModelIsSeq

(* What saving adds to the run directory: the accepted one alone. *)
LEMMA Saved ==
    ASSUME TypeOK, Position, SaveBaseline \/ Save
    PROVE  /\ gen \in Generations /\ ~Exists(gen) /\ Exists(gen)'
           /\ ckpt'[gen].model = model /\ ckpt'[gen].lastGood = lastGood
           /\ ckpt'[gen].archive = archive
           /\ ckpt'[gen].accepted = (IF Save THEN accepted ELSE TRUE)
           /\ \A g : g # gen => (Exists(g)' <=> Exists(g))
           /\ \A g \in Generations : g # gen => ckpt'[g] = ckpt[g]
           /\ Running /\ Running' /\ UNCHANGED <<memory, launches, rewound>>
           /\ gen = Len(model) /\ model \in Models
<1>1. CASE SaveBaseline
  <2>1. pc = "baseline" /\ limit \in Limits /\ gen = 0 /\ gen \in Generations
    BY <1>1, GenerationsFacts DEF SaveBaseline, Position
  <2> DEFINE c == [model |-> model, accepted |-> TRUE, lastGood |-> lastGood,
                   archive |-> archive, limit |-> limit]
  <2>2. c # None
    BY <2>1, NewCheckpoint
  <2>3. ckpt' = [ckpt EXCEPT ![gen] = c] /\ DOMAIN ckpt = Generations
    BY <1>1, <2>1 DEF SaveBaseline, TypeOK
  <2>4. ~Save
    BY <2>1 DEF Save
  <2>5. ckpt[gen] = None
    BY <2>1 DEF Position
  <2>6. Running /\ Running' /\ UNCHANGED <<memory, launches, rewound>>
    BY <1>1 DEF SaveBaseline, Running, Goto, launch
  <2>7. gen = Len(model) /\ model \in Models
    BY <2>6 DEF TypeOK, Running
  <2>8. ckpt'[gen] = c /\ \A g \in Generations : g # gen => ckpt'[g] = ckpt[g]
    BY <2>1, <2>3
  <2> HIDE DEF c
  <2>9. \A g : g # gen => (Exists(g)' <=> Exists(g))
    BY <2>8 DEF Exists
  <2>10. ~Exists(gen) /\ Exists(gen)'
    BY <2>1, <2>2, <2>5, <2>6, <2>8 DEF Exists, memory
  <2>11. /\ c.model = model /\ c.lastGood = lastGood /\ c.archive = archive
         /\ c.accepted = TRUE
    BY DEF c
  <2> QED BY <2>1, <2>4, <2>6, <2>7, <2>8, <2>9, <2>10, <2>11
<1>2. CASE Save
  <2>1. pc = "save" /\ limit \in Limits /\ gen \in Generations /\ ckpt[gen] = None
    BY <1>2 DEF Save, Position, TypeOK
  <2> DEFINE c == [model |-> model, accepted |-> accepted, lastGood |-> lastGood,
                   archive |-> archive, limit |-> limit]
  <2>2. c # None
    BY <2>1, NewCheckpoint DEF TypeOK
  <2>3. ckpt' = [ckpt EXCEPT ![gen] = c] /\ DOMAIN ckpt = Generations
    BY <1>2, <2>1 DEF Save, TypeOK
  <2>6. Running /\ Running' /\ UNCHANGED <<memory, launches, rewound>>
    BY <1>2 DEF Save, Running, Goto, launch
  <2>7. gen = Len(model) /\ model \in Models
    BY <2>6 DEF TypeOK, Running
  <2>8. ckpt'[gen] = c /\ \A g \in Generations : g # gen => ckpt'[g] = ckpt[g]
    BY <2>1, <2>3
  <2> HIDE DEF c
  <2>9. \A g : g # gen => (Exists(g)' <=> Exists(g))
    BY <2>8 DEF Exists
  <2>10. ~Exists(gen) /\ Exists(gen)'
    BY <2>1, <2>2, <2>6, <2>8 DEF Exists, memory
  <2>11. /\ c.model = model /\ c.lastGood = lastGood /\ c.archive = archive
         /\ c.accepted = accepted
    BY DEF c
  <2> QED BY <1>2, <2>1, <2>6, <2>7, <2>8, <2>9, <2>10, <2>11
<1> QED BY <1>1, <1>2

(* What a launch resumes from. *)
LEMMA Loaded ==
    ASSUME TypeOK, Position, Load
    PROVE  /\ source \in AcceptedCheckpoints /\ Exists(source) /\ ckpt[source].accepted
           /\ gen' = source /\ model' = ckpt[source].model
           /\ archive' = ckpt[source].archive /\ lastGood' = ckpt[source].lastGood
           /\ pc = "clearing" /\ pc' \in {"down", "top"} /\ UNCHANGED <<disk, launch>>
<1>1. pc = "clearing" /\ source \in AcceptedCheckpoints
  BY DEF Load, Position
<1> QED BY <1>1 DEF Load, Goto, Ends, AcceptedCheckpoints, Exists

(* Steps of a generation that change neither the run directory nor the     *)
(* weights.                                                                *)
Inside == Collect \/ Gate \/ Boundary \/ WriteLastGood \/ Verdict

LEMMA InsideFrame ==
    ASSUME Inside
    PROVE  /\ UNCHANGED <<ckpt, launch, gen, model, archive>>
           /\ Running
           /\ Running' <=> pc' # "down"
           /\ pc' # "clearing"
<1>1. CASE Collect
  BY <1>1 DEF Collect, Goto, Running, disk
<1>2. CASE Gate
  BY <1>2 DEF Gate, Goto, Running, disk
<1>3. CASE Boundary
  BY <1>3 DEF Boundary, Goto, Running, disk
<1>4. CASE WriteLastGood
  BY <1>4 DEF WriteLastGood, Goto, Running, memory
<1>5. CASE Verdict
  BY <1>5 DEF Verdict, Goto, Ends, Running, disk, memory
<1> QED BY <1>1, <1>2, <1>3, <1>4, <1>5 DEF Inside

(* One more generation of training. *)
LEMMA Trained ==
    ASSUME TypeOK, Position, Update
    PROVE  /\ pc = "update" /\ pc' = "gate" /\ Running /\ Running'
           /\ UNCHANGED <<disk, launch, lastGood, accepted>>
           /\ launches \in Launches /\ gen \in Nat /\ gen + 1 \in Generations
           /\ gen = Len(model) /\ model \in Models
           /\ gen' = gen + 1 /\ model' = Append(model, launches)
           /\ model' \in Models /\ Len(model') = gen + 1
           /\ \A i \in 1 .. gen : model'[i] = model[i]
           /\ model'[gen + 1] = launches
<1>1. /\ pc = "update" /\ pc' = "gate" /\ UNCHANGED <<disk, launch, lastGood, accepted>>
      /\ gen' = gen + 1 /\ model' = Append(model, launches)
  BY DEF Update, Goto
<1>2. Running /\ Running'
  BY <1>1 DEF Running
<1>3. launches \in 0 .. MaxLaunches /\ launches # 0 /\ MaxLaunches \in Nat
  BY <1>1, RunAssumption DEF TypeOK, Position
<1>4. launches \in Launches
  BY <1>3 DEF Launches
<1>5. limit \in Limits /\ gen < limit /\ gen \in Generations
  BY <1>1 DEF Position, TypeOK
<1>6. gen \in Nat /\ gen + 1 <= limit /\ gen + 1 \in Nat
  BY <1>5, GenerationsFacts
<1>7. gen + 1 \in Generations
  BY <1>5, <1>6, GenerationsFacts
<1>8. gen = Len(model) /\ model \in Models
  BY <1>1 DEF TypeOK
<1> QED BY <1>1, <1>2, <1>4, <1>6, <1>7, <1>8, MoreTraining

LEMMA FreshFrame ==
    ASSUME NEW n \in Limits, LaunchFresh(n)
    PROVE  /\ UNCHANGED <<disk, rewound>> /\ launches = 0 /\ launches' = 1
           /\ pc' = "baseline"
           /\ gen' = 0 /\ model' = << >> /\ archive' = {} /\ lastGood' \in {None, << >>}
BY DEF LaunchFresh, Launch, Goto

LEMMA ResumeFrame ==
    ASSUME NEW n \in Limits, NEW g \in Generations, Resume(n, g)
    PROVE  /\ UNCHANGED <<disk, memory>> /\ launches' = launches + 1
           /\ pc = "down" /\ pc' = "clearing" /\ source' = g /\ g \in AcceptedCheckpoints
           /\ ~rewound' => ~rewound /\ \A h \in AcceptedCheckpoints : h <= g
BY DEF Resume, Launch, Goto

-----------------------------------------------------------------------------
(* The archive. *)

LEMMA ArchivesPreserved ==
    ASSUME TypeOK, Position, Archives, [Next]_vars
    PROVE  Archives'
<1>1. CASE SaveBaseline \/ Save
  <2>1. \A g \in Generations : Exists(g)' => ArchiveOf(ckpt'[g].archive, ckpt'[g].model)
    BY <1>1, Saved DEF Archives
  <2>2. ArchiveOf(archive', model')
    BY <1>1, Saved DEF Archives, memory
  <2> QED BY <2>1, <2>2 DEF Archives, ArchiveOf, Exists
<1>2. CASE Load
  <2>1. ckpt' = ckpt /\ ArchiveOf(archive', model')
    BY <1>2, Loaded DEF Archives, disk, Exists
  <2> QED BY <2>1 DEF Archives, Exists
<1>3. CASE Inside
  <2>1. ckpt' = ckpt /\ archive' = archive /\ model' = model /\ Running
    BY <1>3, InsideFrame
  <2> QED BY <2>1 DEF Archives, ArchiveOf, Exists
<1>4. CASE Update
  <2>1. pending \subseteq {<<launches, gen + 1>>}
    BY <1>4, Trained DEF Position
  <2>3. DOMAIN model = 1 .. gen /\ DOMAIN model' = 1 .. gen + 1
    BY <1>4, Trained, ModelIsSeq
  <2>4. \A s \in archive : s[2] \in DOMAIN model' /\ model'[s[2]] = s[1]
    <3> SUFFICES ASSUME NEW s \in archive
                 PROVE  s[2] \in DOMAIN model' /\ model'[s[2]] = s[1]
      OBVIOUS
    <3>1. s[2] \in 1 .. gen /\ model[s[2]] = s[1]
      BY <1>4, <2>3, Trained DEF Archives, ArchiveOf
    <3>2. gen \in Nat
      BY <1>4, Trained
    <3>3. s[2] \in 1 .. gen + 1
      BY <3>1, <3>2
    <3> QED BY <1>4, Trained, <2>3, <3>1, <3>3
  <2>5. \A s \in pending : s[2] \in DOMAIN model' /\ model'[s[2]] = s[1]
    <3>1. gen + 1 \in 1 .. gen + 1
      BY <1>4, Trained
    <3> QED BY <1>4, Trained, <2>1, <2>3, <3>1
  <2>6. archive' = archive \cup pending /\ ckpt' = ckpt
    BY <1>4, Trained DEF Update, disk
  <2>7. ArchiveOf(archive', model')
    BY <2>4, <2>5, <2>6 DEF ArchiveOf
  <2> QED BY <2>6, <2>7 DEF Archives, ArchiveOf, Exists
<1>5. ASSUME NEW n \in Limits, LaunchFresh(n) PROVE Archives'
  <2>1. ckpt' = ckpt /\ archive' = {}
    BY <1>5, FreshFrame DEF disk
  <2> QED BY <2>1 DEF Archives, ArchiveOf, Exists
<1>6. ASSUME NEW n \in Limits, NEW g \in Generations, Resume(n, g) PROVE Archives'
  <2>1. ckpt' = ckpt /\ ~Running'
    BY <1>6, ResumeFrame DEF disk, Running
  <2> QED BY <2>1 DEF Archives, ArchiveOf, Exists
<1>7. CASE Ending
  BY <1>7 DEF Ending, Archives, Exists, Running, disk
<1>8. CASE Quiet
  BY <1>8 DEF Quiet, Archives, ArchiveOf, Exists, Running, disk, memory
<1> QED BY <1>1, <1>2, <1>3, <1>4, <1>5, <1>6, <1>7, <1>8, MainCases DEF Inside

-----------------------------------------------------------------------------
(* Last-good metrics. *)

LEMMA LastGoodsPreserved ==
    ASSUME TypeOK, Position, LastGoods, [Next]_vars
    PROVE  LastGoods'
<1>1. CASE SaveBaseline \/ Save
  <2>1. \A g \in Generations : Exists(g)' /\ ckpt'[g].lastGood # None =>
            IsPrefix(ckpt'[g].lastGood, ckpt'[g].model)
    BY <1>1, Saved DEF LastGoods, LastGoodIsAncestor, Running
  <2>2. lastGood' # None => IsPrefix(lastGood', model')
    BY <1>1, Saved DEF LastGoods, LastGoodIsAncestor, Running, memory
  <2>3. CASE Save \/ lastGood = None
    <3>1. lastGoodFile' = lastGoodFile
      BY <1>1, <2>3 DEF Save, SaveBaseline
    <3>2. lastGoodFile # None => /\ Exists(lastGoodFile) /\ ckpt[lastGoodFile].accepted
                                 /\ lastGoodFile \in Generations
                                 /\ ckpt[lastGoodFile].lastGood = ckpt[lastGoodFile].model
      BY DEF LastGoods, LastGoodIsAncestor, AcceptedCheckpoints, Exists
    <3>3. lastGoodFile' # None =>
              /\ lastGoodFile' \in AcceptedCheckpoints'
              /\ ckpt'[lastGoodFile'].lastGood = ckpt'[lastGoodFile'].model
      BY <1>1, <3>1, <3>2, Saved DEF AcceptedCheckpoints, Exists
    <3> QED BY <2>1, <2>2, <3>3 DEF LastGoods, LastGoodIsAncestor, Exists
  <2>4. CASE SaveBaseline /\ lastGood # None
    <3>1. lastGoodFile' = gen /\ lastGood = model /\ ~Save
      BY <2>4 DEF SaveBaseline, Save, Position
    <3>2. ckpt'[gen].accepted
      BY <2>4, <3>1, Saved
    <3>3. gen \in Generations /\ ckpt'[gen] # None /\ ckpt'[gen].lastGood = ckpt'[gen].model
      BY <2>4, <3>1, Saved DEF Exists, memory
    <3>4. gen \in AcceptedCheckpoints'
      BY <3>2, <3>3 DEF AcceptedCheckpoints
    <3> QED BY <2>1, <2>2, <3>1, <3>3, <3>4 DEF LastGoods, LastGoodIsAncestor, Exists
  <2> QED BY <1>1, <2>3, <2>4
<1>2. CASE Load
  <2>1. lastGood' # None => IsPrefix(lastGood', model')
    BY <1>2, Loaded DEF LastGoods, AcceptedCheckpoints
  <2> QED BY <1>2, <2>1, Loaded DEF LastGoods, LastGoodIsAncestor, AcceptedCheckpoints, Exists,
                                    disk
<1>3. CASE Inside
  <2>1. lastGood' \in {lastGood, model}
    BY <1>3 DEF Inside, Collect, Gate, Boundary, WriteLastGood, Verdict, memory
  <2>2. IsPrefix(model, model)
    BY ModelIsSeq, PrefixRefl DEF TypeOK
  <2>3. lastGood' # None => IsPrefix(lastGood', model')
    BY <1>3, <2>1, <2>2, InsideFrame DEF LastGoods, LastGoodIsAncestor, Running
  <2>4. CASE lastGoodFile' = lastGoodFile
    BY <1>3, <2>3, <2>4, InsideFrame
       DEF LastGoods, LastGoodIsAncestor, AcceptedCheckpoints, Exists
  <2>5. CASE lastGoodFile' # lastGoodFile
    <3>1. WriteLastGood
      BY <1>3, <2>5 DEF Inside, Collect, Gate, Boundary, Verdict, disk
    <3>2. lastGoodFile' = gen /\ accepted /\ EvaluationDue /\ pc = "saved"
      BY <2>5, <3>1 DEF WriteLastGood
    <3>3. /\ gen \in Generations /\ ckpt[gen] # None /\ ckpt[gen].model = model
          /\ ckpt[gen].lastGood = lastGood /\ ckpt[gen].accepted /\ lastGood = model
      BY <3>2 DEF Position, TypeOK
    <3>4. gen \in AcceptedCheckpoints'
      BY <1>3, <3>3, InsideFrame DEF AcceptedCheckpoints
    <3> QED BY <1>3, <2>3, <3>2, <3>3, <3>4, InsideFrame DEF LastGoods, LastGoodIsAncestor, Exists
  <2> QED BY <2>4, <2>5
<1>4. CASE Update
  <2>1. lastGood # None => IsPrefix(lastGood, model)
    BY <1>4, Trained DEF LastGoods, LastGoodIsAncestor
  <2>2. lastGood # None => IsPrefix(lastGood, model')
    <3> SUFFICES ASSUME lastGood # None PROVE IsPrefix(lastGood, model')
      OBVIOUS
    <3>1. lastGood \in Seq(Launches)
      BY ModelIsSeq DEF TypeOK
    <3>2. model \in Seq(Launches) /\ launches \in Launches /\ model' = Append(model, launches)
      BY <1>4, Trained, ModelIsSeq
    <3> QED BY <2>1, <3>1, <3>2, PrefixAppend
  <2> QED BY <1>4, <2>2, Trained DEF LastGoods, LastGoodIsAncestor, AcceptedCheckpoints, Exists,
                                     disk
<1>5. ASSUME NEW n \in Limits, LaunchFresh(n) PROVE LastGoods'
  <2>1. IsPrefix(<< >>, << >>)
    BY NoTraining, ModelIsSeq, PrefixRefl
  <2> QED BY <1>5, <2>1, FreshFrame DEF LastGoods, LastGoodIsAncestor, AcceptedCheckpoints,
                                        Exists, disk
<1>6. ASSUME NEW n \in Limits, NEW g \in Generations, Resume(n, g) PROVE LastGoods'
  BY <1>6, ResumeFrame DEF LastGoods, LastGoodIsAncestor, AcceptedCheckpoints, Exists, disk
<1>7. CASE Ending
  BY <1>7 DEF Ending, LastGoods, LastGoodIsAncestor, AcceptedCheckpoints, Exists, disk
<1>8. CASE Quiet
  BY <1>8 DEF Quiet, LastGoods, LastGoodIsAncestor, AcceptedCheckpoints, Exists, disk, memory
<1> QED BY <1>1, <1>2, <1>3, <1>4, <1>5, <1>6, <1>7, <1>8, MainCases DEF Inside

-----------------------------------------------------------------------------
(* Who trained what. *)

LEMMA TrainersPreserved ==
    ASSUME TypeOK, Position, Trainers, [Next]_vars
    PROVE  Trainers'
<1>1. CASE SaveBaseline \/ Save
  <2>1. pc # "down" /\ pc' # "down"
    BY <1>1, Saved DEF Running
  <2>2. ASSUME NEW g \in Generations, Exists(g)', NEW i \in 1 .. g
        PROVE  /\ ckpt'[g].model[i] <= launches
               /\ ckpt'[g].model[i] = launches => g <= gen
    <3>1. CASE g = gen
      <4>1. ckpt'[g].model = model /\ Running /\ gen \in Nat
        BY <1>1, <3>1, Saved, GenerationsFacts
      <4>2. model[i] <= launches
        BY <3>1, <4>1 DEF Trainers
      <4> QED BY <3>1, <4>1, <4>2
    <3>2. CASE g # gen
      BY <1>1, <2>1, <2>2, <3>2, Saved DEF Trainers
    <3> QED BY <3>1, <3>2
  <2>3. \A i \in 1 .. gen : model[i] <= launches
    BY <1>1, Saved DEF Trainers
  <2> QED BY <1>1, <2>2, <2>3, Saved DEF Trainers, Exists, memory
<1>2. CASE Load
  <2>1. ASSUME NEW g \in Generations, Exists(g), NEW i \in 1 .. g
        PROVE  ckpt[g].model[i] <= launches /\ ckpt[g].model[i] # launches
    BY <1>2, <2>1, Loaded DEF Trainers, Running
  <2>2. ckpt' = ckpt /\ launches' = launches
    BY <1>2, Loaded DEF disk, launch
  <2>3. \A i \in 1 .. gen' : model'[i] <= launches'
    BY <1>2, <2>1, <2>2, Loaded DEF AcceptedCheckpoints
  <2> QED BY <2>1, <2>2, <2>3 DEF Trainers, Exists
<1>3. CASE Inside
  <2>1. ckpt' = ckpt /\ launches' = launches /\ gen' = gen /\ model' = model
    BY <1>3, InsideFrame DEF launch
  <2>2. Running /\ (Running' <=> pc' # "down")
    BY <1>3, InsideFrame
  <2> QED BY <2>1, <2>2 DEF Trainers, Exists, Running
<1>4. CASE Update
  <2>1. ckpt' = ckpt /\ launches' = launches /\ gen' = gen + 1 /\ gen \in Nat
    BY <1>4, Trained DEF disk, launch
  <2>2. \A i \in 1 .. gen + 1 : model'[i] <= launches
    <3> SUFFICES ASSUME NEW i \in 1 .. gen + 1 PROVE model'[i] <= launches
      OBVIOUS
    <3>1. launches <= launches
      BY <1>4, Trained DEF Launches
    <3>2. CASE i = gen + 1
      BY <1>4, <3>1, <3>2, Trained
    <3>3. CASE i \in 1 .. gen
      BY <1>4, <3>3, Trained DEF Trainers
    <3> QED BY <2>1, <3>2, <3>3
  <2>3. ASSUME NEW g \in Generations, Exists(g), NEW i \in 1 .. g
        PROVE  /\ ckpt[g].model[i] <= launches
               /\ ckpt[g].model[i] = launches => g <= gen
    BY <1>4, <2>3, Trained DEF Trainers
  <2>4. \A g \in Generations : g <= gen => g <= gen + 1
    BY <2>1, GenerationsFacts
  <2> QED BY <1>4, <2>1, <2>2, <2>3, <2>4, Trained DEF Trainers, Exists
<1>5. ASSUME NEW n \in Limits, LaunchFresh(n) PROVE Trainers'
  <2>1. \A g \in Generations : ~Exists(g)
    BY <1>5, FreshFrame DEF Position, Exists
  <2>2. 1 .. gen' = {}
    BY <1>5, FreshFrame
  <2> QED BY <1>5, <2>1, <2>2, FreshFrame DEF Trainers, Exists, disk
<1>6. ASSUME NEW n \in Limits, NEW h \in Generations, Resume(n, h) PROVE Trainers'
  <2>1. ckpt' = ckpt /\ launches' = launches + 1 /\ ~Running' /\ launches \in Nat
    BY <1>6, ResumeFrame DEF disk, Running, TypeOK
  <2>2. ASSUME NEW g \in Generations, Exists(g), NEW i \in 1 .. g
        PROVE  ckpt[g].model[i] <= launches + 1 /\ ckpt[g].model[i] # launches + 1
    <3>1. ckpt[g].model[i] <= launches
      BY <2>2 DEF Trainers
    <3>2. ckpt[g].model[i] \in Nat
      BY <2>2, InCheckpoint
    <3> QED BY <2>1, <3>1, <3>2
  <2> QED BY <2>1, <2>2 DEF Trainers, Exists
<1>7. CASE Ending
  BY <1>7 DEF Ending, Trainers, Exists, Running, disk, launch
<1>8. CASE Quiet
  BY <1>8 DEF Quiet, Trainers, Exists, Running, disk, memory
<1> QED BY <1>1, <1>2, <1>3, <1>4, <1>5, <1>6, <1>7, <1>8, MainCases DEF Inside

-----------------------------------------------------------------------------
(* Checkpoints that are near. *)

LEMMA NearItself ==
    ASSUME TypeOK
    PROVE  gen - gen <= gen % CheckpointEvery /\ IsPrefix(model, model)
<1>1. gen \in Nat
  BY GenerationsFacts DEF TypeOK
<1>2. gen % CheckpointEvery \in 0 .. CheckpointEvery - 1
  BY <1>1, RemainderSucc, RunAssumption
<1>3. IsPrefix(model, model)
  BY ModelIsSeq, PrefixRefl DEF TypeOK
<1> QED BY <1>1, <1>2, <1>3, RunAssumption

LEMMA AnchoredPreserved ==
    ASSUME TypeOK, Position, Anchored, [Next]_vars
    PROVE  Anchored'
<1>1. CASE SaveBaseline
  <2>1. pc' = "top" /\ gen = 0 /\ model = << >> /\ ~Save /\ memory' = memory
    BY <1>1 DEF SaveBaseline, Save, Goto, Position
  <2>2. IsPrefix(<< >>, << >>)
    BY NoTraining, ModelIsSeq, PrefixRefl
  <2>3. 0 \in AcceptedCheckpoints' /\ ckpt'[0].model = << >>
    <3>1. ckpt'[0].accepted /\ ckpt'[0].model = << >>
      BY <1>1, <2>1, Saved
    <3>2. 0 \in Generations /\ ckpt'[0] # None
      BY <1>1, <2>1, Saved DEF Exists, memory
    <3> QED BY <3>1, <3>2 DEF AcceptedCheckpoints
  <2>4. 0 - 0 <= 0 % CheckpointEvery
    BY ZeroRemainder, RunAssumption
  <2>5. gen' = 0 /\ model' = << >>
    BY <2>1 DEF memory
  <2> QED BY <2>1, <2>2, <2>3, <2>4, <2>5 DEF Anchored, Near
<1>2. CASE Save
  <2>1. pc = "save" /\ pc' = "saved" /\ gen' = gen /\ model' = model /\ accepted' = accepted
    BY <1>2 DEF Save, Goto, memory
  <2>2. CASE accepted
    <3>1. gen \in AcceptedCheckpoints' /\ ckpt'[gen].model = model
      <4>1. ckpt'[gen].accepted = accepted /\ ckpt'[gen].model = model
        BY <1>2, Saved
      <4>2. gen \in Generations /\ ckpt'[gen] # None
        BY <1>2, <2>1, Saved DEF Exists
      <4> QED BY <2>2, <4>1, <4>2 DEF AcceptedCheckpoints
    <3>2. gen - gen <= gen % CheckpointEvery /\ IsPrefix(model, model)
      BY NearItself
    <3>3. Near(gen)'
      BY <2>1, <3>1, <3>2 DEF Near
    <3> QED BY <2>1, <2>2, <3>3 DEF Anchored
  <2>3. CASE ~accepted
    <3>1. PICK g \in AcceptedCheckpoints :
              (gen - 1) - g <= (gen - 1) % CheckpointEvery /\ IsPrefix(ckpt[g].model, model)
      BY <2>1 DEF Anchored, Near
    <3>2. g # gen
      BY <1>2 DEF Save, AcceptedCheckpoints
    <3>3. ckpt'[g] = ckpt[g] /\ g \in AcceptedCheckpoints'
      BY <1>2, <3>2, Saved DEF AcceptedCheckpoints, Exists
    <3>4. Near(gen - 1)'
      BY <2>1, <3>1, <3>3 DEF Near
    <3> QED BY <2>1, <2>3, <3>4 DEF Anchored
  <2> QED BY <2>2, <2>3
<1>3. CASE Load
  <2>1. source \in AcceptedCheckpoints' /\ gen' = source /\ model' = ckpt'[source].model
    BY <1>3, Loaded DEF AcceptedCheckpoints, disk
  <2>2. IsPrefix(model', model')
    <3>1. model' \in Models
      BY <1>3, Loaded, InCheckpoint
    <3> QED BY <3>1, ModelIsSeq, PrefixRefl
  <2>3. source - source <= source % CheckpointEvery
    <3>1. source \in Nat
      BY <1>3, Loaded, GenerationsFacts DEF AcceptedCheckpoints
    <3>2. source % CheckpointEvery \in 0 .. CheckpointEvery - 1
      BY <3>1, RemainderSucc, RunAssumption
    <3> QED BY <3>1, <3>2, RunAssumption
  <2>4. Near(gen)'
    BY <2>1, <2>2, <2>3 DEF Near
  <2>5. pc' \in {"down", "top"}
    BY <1>3, Loaded
  <2> QED BY <2>4, <2>5 DEF Anchored
<1>4. CASE Update
  <2>1. PICK g \in AcceptedCheckpoints :
            gen - g <= gen % CheckpointEvery /\ IsPrefix(ckpt[g].model, model)
    BY <1>4, Trained DEF Anchored, Near
  <2>2. Exists(g)
    BY DEF AcceptedCheckpoints, Exists
  <2>3. IsPrefix(ckpt[g].model, model')
    <3>1. ckpt[g].model \in Seq(Launches)
      BY <2>2, InCheckpoint
    <3>2. model \in Seq(Launches) /\ launches \in Launches /\ model' = Append(model, launches)
      BY <1>4, Trained, ModelIsSeq
    <3> QED BY <2>1, <3>1, <3>2, PrefixAppend
  <2>4. gen' - 1 = gen /\ pc' = "gate" /\ ckpt' = ckpt
    BY <1>4, Trained DEF disk
  <2>5. Near(gen - 1)'
    BY <2>1, <2>3, <2>4 DEF Near, AcceptedCheckpoints
  <2> QED BY <2>4, <2>5 DEF Anchored
<1>5. CASE Collect \/ Gate
  <2>1. UNCHANGED <<ckpt, gen, model>>
    BY <1>5, InsideFrame DEF Inside
  <2>2. \/ pc = "top" /\ pc' = "update"
        \/ pc = "gate" /\ pc' = "boundary"
    BY <1>5 DEF Collect, Gate, Goto
  <2> QED BY <2>1, <2>2 DEF Anchored, Near, AcceptedCheckpoints
<1>6. CASE Boundary
  <2>1. UNCHANGED <<ckpt, gen, model>> /\ accepted' = accepted
    BY <1>6, InsideFrame DEF Inside, Boundary
  <2>2. pc = "boundary" /\ pc' \in {"save", "verdict"}
    BY <1>6 DEF Boundary, Goto
  <2>3. CASE pc' = "save"
    BY <2>1, <2>2, <2>3 DEF Anchored, Near, AcceptedCheckpoints
  <2>4. CASE pc' = "verdict"
    <3>1. gen % CheckpointEvery # 0 /\ accepted
      BY <1>6, <2>4 DEF Boundary, CheckpointDue, Goto
    <3>2. PICK g \in AcceptedCheckpoints :
              (gen - 1) - g <= (gen - 1) % CheckpointEvery /\ IsPrefix(ckpt[g].model, model)
      BY <2>2 DEF Anchored, Near
    <3>3. gen \in Nat /\ gen >= 1 /\ g \in Nat
      BY <2>2, GenerationsFacts DEF Position, TypeOK, AcceptedCheckpoints
    <3>4. gen - g <= gen % CheckpointEvery
      <4> DEFINE m == gen - 1
      <4>1. m \in Nat /\ m + 1 = gen
        BY <3>3
      <4> HIDE DEF m
      <4>2. /\ m % CheckpointEvery \in 0 .. CheckpointEvery - 1
            /\ (m + 1) % CheckpointEvery # 0 =>
                   (m + 1) % CheckpointEvery = (m % CheckpointEvery) + 1
        BY <4>1, RemainderSucc, RunAssumption
      <4>3. gen % CheckpointEvery = (m % CheckpointEvery) + 1
        BY <3>1, <4>1, <4>2
      <4>4. m - g <= m % CheckpointEvery
        BY <3>2 DEF m
      <4> DEFINE x == m % CheckpointEvery
                 y == gen % CheckpointEvery
      <4>5. x \in Int /\ y = x + 1 /\ m - g <= x
        BY <4>2, <4>3, <4>4, RunAssumption
      <4> HIDE DEF x, y
      <4>6. gen - g <= y
        BY <3>3, <4>1, <4>5
      <4> QED BY <4>6 DEF y
    <3>5. Near(gen)'
      BY <2>1, <3>2, <3>4 DEF Near, AcceptedCheckpoints
    <3> QED BY <2>1, <2>4, <3>1, <3>5 DEF Anchored
  <2> QED BY <2>2, <2>3, <2>4
<1>7. CASE WriteLastGood
  <2>1. /\ pc = "saved" /\ pc' = "verdict" /\ ckpt' = ckpt /\ gen' = gen /\ model' = model
        /\ accepted' = accepted
    BY <1>7 DEF WriteLastGood, Goto, memory
  <2> QED BY <2>1 DEF Anchored, Near, AcceptedCheckpoints
<1>8. CASE Verdict
  <2>1. UNCHANGED <<ckpt, gen, model>>
    BY <1>8, InsideFrame DEF Inside
  <2>2. pc = "verdict" /\ pc' \in {"down", "top"} /\ (pc' = "top" => accepted)
    BY <1>8 DEF Verdict, Goto, Ends
  <2>3. pc' = "top" => Near(gen)'
    BY <2>1, <2>2 DEF Anchored, Near, AcceptedCheckpoints
  <2> QED BY <2>2, <2>3 DEF Anchored
<1>9. ASSUME NEW n \in Limits, LaunchFresh(n) PROVE Anchored'
  BY <1>9, FreshFrame DEF Anchored
<1>10. ASSUME NEW n \in Limits, NEW g \in Generations, Resume(n, g) PROVE Anchored'
  BY <1>10, ResumeFrame DEF Anchored
<1>11. CASE Ending
  BY <1>11 DEF Ending, Anchored
<1>12. CASE Quiet
  BY <1>12 DEF Quiet, Anchored, Near, AcceptedCheckpoints, disk, memory
<1> QED BY <1>1, <1>2, <1>3, <1>4, <1>5, <1>6, <1>7, <1>8, <1>9, <1>10, <1>11, <1>12, MainCases

-----------------------------------------------------------------------------
(* Rejected candidates. *)

LEMMA RejectedPreserved ==
    ASSUME TypeOK, Position, Trainers, Rejected, [Next]_vars
    PROVE  Rejected'
<1>1. CASE SaveBaseline
  <2>1. \A g \in Generations : ~Exists(g)
    BY <1>1 DEF SaveBaseline, Position, Exists
  <2>2. ckpt'[gen].accepted
    BY <1>1, Saved DEF SaveBaseline, Save
  <2>3. \A r \in Generations : ~Bad(r)'
    BY <1>1, <2>1, <2>2, Saved DEF Bad
  <2> QED BY <2>3 DEF Rejected
<1>2. CASE Save
  <2>1. /\ pc = "save" /\ pc' = "saved" /\ launches' = launches /\ model' = model
        /\ accepted' = accepted /\ gen \in Generations /\ gen = Len(model) /\ model \in Models
        /\ ckpt'[gen].model = model /\ (ckpt'[gen].accepted <=> accepted) /\ ~Exists(gen)
    BY <1>2, Saved DEF Save, Goto, memory
  <2>2. Running /\ ~TurnedDown
    BY <2>1 DEF Running, TurnedDown
  <2>3. \A g \in Generations : g # gen =>
            (Exists(g)' <=> Exists(g)) /\ ckpt'[g] = ckpt[g]
    BY <1>2, Saved
  <2>4. ASSUME NEW g \in AcceptedCheckpoints', g # gen PROVE g \in AcceptedCheckpoints
    BY <2>3, <2>4 DEF AcceptedCheckpoints, Exists
  <2>5. ASSUME NEW r \in Generations, Bad(r)', r # gen PROVE Apart(r)'
    <3>1. Bad(r) /\ Apart(r) /\ ckpt'[r] = ckpt[r]
      BY <2>3, <2>5 DEF Bad, Rejected
    <3>2. ~IsPrefix(ckpt[r].model, model) /\ r >= 1 /\ ckpt[r].model[r] < launches
      BY <2>1, <2>2, <3>1 DEF Apart
    <3>3. \A g \in AcceptedCheckpoints' : ~IsPrefix(ckpt'[r].model, ckpt'[g].model)
      <4> SUFFICES ASSUME NEW g \in AcceptedCheckpoints'
                   PROVE  ~IsPrefix(ckpt'[r].model, ckpt'[g].model)
        OBVIOUS
      <4>1. CASE g = gen
        BY <2>1, <3>1, <3>2, <4>1
      <4>2. CASE g # gen
        BY <2>3, <2>4, <3>1, <4>2 DEF Apart, AcceptedCheckpoints
      <4> QED BY <4>1, <4>2
    <3> QED BY <2>1, <3>1, <3>2, <3>3 DEF Apart
  <2>6. ASSUME NEW r \in Generations, Bad(r)', r = gen PROVE Apart(r)'
    <3>1. ~accepted
      BY <2>1, <2>6 DEF Bad
    <3>2. TurnedDown' /\ gen >= 1 /\ model[gen] = launches
      BY <2>1, <3>1 DEF TurnedDown, Position
    <3>3. ASSUME NEW g \in AcceptedCheckpoints', IsPrefix(model, ckpt'[g].model) PROVE FALSE
      <4>1. g # gen
        BY <2>1, <3>1, <3>3 DEF AcceptedCheckpoints
      <4>2. g \in AcceptedCheckpoints /\ Exists(g) /\ ckpt'[g] = ckpt[g]
        BY <2>3, <2>4, <4>1 DEF AcceptedCheckpoints, Exists
      <4>3. ckpt[g].model \in Seq(Launches) /\ Len(ckpt[g].model) = g /\ model \in Seq(Launches)
        BY <2>1, <4>2, InCheckpoint, ModelIsSeq
      <4>4. gen <= g /\ \A i \in 1 .. gen : model[i] = ckpt[g].model[i]
        BY <2>1, <3>3, <4>2, <4>3, PrefixPointwise
      <4>5. gen \in Nat /\ g \in Nat /\ g \in Generations
        BY <2>1, <4>2, GenerationsFacts DEF Exists
      <4>6. gen \in 1 .. gen /\ gen \in 1 .. g
        BY <3>2, <4>4, <4>5
      <4>7. ckpt[g].model[gen] = launches
        BY <3>2, <4>4, <4>6
      <4>8. g <= gen
        BY <2>1, <4>2, <4>5, <4>6, <4>7 DEF Trainers
      <4> QED BY <4>1, <4>4, <4>5, <4>8
    <3>4. \A g \in AcceptedCheckpoints' : ~IsPrefix(ckpt'[r].model, ckpt'[g].model)
      BY <2>1, <2>6, <3>3
    <3> QED BY <2>6, <3>2, <3>4 DEF Apart
  <2> QED BY <2>5, <2>6 DEF Rejected
<1>3. CASE Load
  <2>1. /\ source \in AcceptedCheckpoints /\ model' = ckpt[source].model /\ ckpt' = ckpt
        /\ launches' = launches /\ pc = "clearing" /\ pc' \in {"down", "top"}
    BY <1>3, Loaded DEF disk, launch
  <2>2. ~TurnedDown
    BY <2>1 DEF TurnedDown
  <2>3. ASSUME NEW r \in Generations, Bad(r)' PROVE Apart(r)'
    <3>1. Bad(r) /\ Apart(r)
      BY <2>1, <2>3 DEF Bad, Exists, Rejected
    <3>2. r >= 1 /\ ckpt[r].model[r] < launches /\ ~IsPrefix(ckpt[r].model, model')
      BY <2>1, <2>2, <3>1 DEF Apart
    <3> QED BY <2>1, <3>1, <3>2 DEF Apart, AcceptedCheckpoints
  <2> QED BY <2>3 DEF Rejected
<1>4. CASE Inside
  <2>1. ckpt' = ckpt /\ launches' = launches /\ model' = model /\ Running
    BY <1>4, InsideFrame DEF launch
  <2>2. pc' # "down" /\ ~TurnedDown' => ~TurnedDown
    <3>1. CASE Collect \/ Gate \/ Boundary
      BY <3>1 DEF Collect, Gate, Boundary, TurnedDown
    <3>2. CASE WriteLastGood
      BY <3>2 DEF WriteLastGood, Goto, TurnedDown, memory
    <3>3. CASE Verdict
      BY <3>3 DEF Verdict, Goto, Ends, TurnedDown, memory
    <3> QED BY <1>4, <3>1, <3>2, <3>3 DEF Inside
  <2>3. ASSUME NEW r \in Generations, Bad(r)' PROVE Apart(r)'
    <3>1. Bad(r) /\ Apart(r)
      BY <2>1, <2>3 DEF Bad, Exists, Rejected
    <3>2. Running' => pc' # "down"
      BY DEF Running
    <3> QED BY <2>1, <2>2, <3>1, <3>2 DEF Apart, AcceptedCheckpoints, Running
  <2> QED BY <2>3 DEF Rejected
<1>5. CASE Update
  <2>1. /\ ckpt' = ckpt /\ launches' = launches /\ model' = Append(model, launches)
        /\ launches \in Launches /\ model \in Seq(Launches) /\ Running
    BY <1>5, Trained, ModelIsSeq DEF disk, launch
  <2>2. ~TurnedDown /\ ~TurnedDown' /\ pc # "down" /\ pc' # "down"
    BY <1>5, Trained DEF TurnedDown
  <2>3. ASSUME NEW r \in Generations, Bad(r)' PROVE Apart(r)'
    <3>1. Bad(r) /\ Apart(r) /\ Exists(r)
      BY <2>1, <2>3 DEF Bad, Exists, Rejected
    <3>2. r >= 1 /\ ckpt[r].model[r] < launches /\ ~IsPrefix(ckpt[r].model, model)
      BY <2>1, <2>2, <3>1 DEF Apart
    <3>3. ckpt[r].model \in Seq(Launches) /\ Len(ckpt[r].model) = r
      BY <3>1, InCheckpoint
    <3>4. ckpt[r].model[r] # launches
      BY <2>1, <3>2 DEF Launches
    <3>5. ~IsPrefix(ckpt[r].model, model')
      BY <2>1, <3>2, <3>3, <3>4, PrefixAppend
    <3> QED BY <2>1, <3>1, <3>2, <3>5 DEF Apart, AcceptedCheckpoints
  <2> QED BY <2>3 DEF Rejected
<1>6. ASSUME NEW n \in Limits, LaunchFresh(n) PROVE Rejected'
  <2>1. ckpt' = ckpt /\ launches = 0
    BY <1>6, FreshFrame DEF disk
  <2> QED BY <2>1 DEF Position, Rejected, Bad, Exists
<1>7. ASSUME NEW n \in Limits, NEW h \in Generations, Resume(n, h) PROVE Rejected'
  <2>1. ckpt' = ckpt /\ launches' = launches + 1 /\ ~Running' /\ launches \in Nat
    BY <1>7, ResumeFrame DEF disk, Running, TypeOK
  <2>2. ASSUME NEW r \in Generations, Bad(r)' PROVE Apart(r)'
    <3>1. Bad(r) /\ Apart(r) /\ Exists(r) /\ r \in Nat /\ r >= 1
      BY <2>1, <2>2, GenerationsFacts DEF Bad, Exists, Rejected, Apart
    <3>2. r \in 1 .. r
      BY <3>1
    <3>3. ckpt[r].model[r] <= launches
      BY <3>1, <3>2 DEF Trainers
    <3>4. ckpt[r].model[r] \in Nat
      BY <3>1, <3>2, InCheckpoint
    <3>5. ckpt[r].model[r] < launches + 1
      BY <2>1, <3>3, <3>4
    <3> QED BY <2>1, <3>1, <3>5 DEF Apart, AcceptedCheckpoints
  <2> QED BY <2>2 DEF Rejected
<1>8. CASE Ending
  <2>1. ckpt' = ckpt /\ pc' = "down" /\ ~Running'
    BY <1>8 DEF Ending, disk, Running
  <2> QED BY <2>1 DEF Rejected, Bad, Apart, Exists, AcceptedCheckpoints
<1>9. CASE Quiet
  BY <1>9 DEF Quiet, Rejected, Bad, Apart, Exists, AcceptedCheckpoints, Running, TurnedDown,
              disk, memory
<1> QED BY <1>1, <1>2, <1>3, <1>4, <1>5, <1>6, <1>7, <1>8, <1>9, MainCases DEF Inside

LEMMA NeverTrainedOn == Rejected => RejectedNeverResumed
BY DEF Rejected, Bad, Apart, Exists, RejectedNeverResumed, Running, TurnedDown

-----------------------------------------------------------------------------
(* One line of training. *)

LEMMA LinePreserved ==
    ASSUME TypeOK, Position, Line, [Next]_vars
    PROVE  Line'
<1>1. CASE SaveBaseline \/ Save
  <2>1. /\ gen \in Generations /\ ~Exists(gen) /\ ckpt'[gen].model = model
        /\ rewound' = rewound /\ gen' = gen /\ model' = model /\ Running /\ Running'
    BY <1>1, Saved DEF memory
  <2>2. ASSUME NEW g \in AcceptedCheckpoints', g # gen
        PROVE  g \in AcceptedCheckpoints /\ ckpt'[g] = ckpt[g]
    <3>1. g \in Generations /\ Exists(g)' /\ ckpt'[g].accepted
      BY <2>2 DEF AcceptedCheckpoints, Exists
    <3>2. Exists(g) /\ ckpt'[g] = ckpt[g]
      BY <1>1, <2>2, <3>1, Saved
    <3> QED BY <3>1, <3>2 DEF AcceptedCheckpoints, Exists
  <2>3. IsPrefix(model, model)
    BY ModelIsSeq, PrefixRefl DEF TypeOK
  <2>4. gen \in Nat /\ \A g \in AcceptedCheckpoints' : g \in Nat
    BY <2>1, GenerationsFacts DEF AcceptedCheckpoints
  <2>5. ~rewound => \A g \in AcceptedCheckpoints' : g <= gen /\ IsPrefix(ckpt'[g].model, model)
    <3> SUFFICES ASSUME ~rewound, NEW g \in AcceptedCheckpoints'
                 PROVE  g <= gen /\ IsPrefix(ckpt'[g].model, model)
      OBVIOUS
    <3>1. CASE g = gen
      BY <2>1, <2>3, <2>4, <3>1
    <3>2. CASE g # gen
      BY <2>1, <2>2, <3>2 DEF Line
    <3> QED BY <3>1, <3>2
  <2>6. OneLine'
    <3> SUFFICES ASSUME ~rewound, NEW g \in AcceptedCheckpoints', NEW h \in AcceptedCheckpoints',
                        g <= h
                 PROVE  IsPrefix(ckpt'[g].model, ckpt'[h].model)
      BY <2>1 DEF OneLine
    <3>1. CASE h = gen
      BY <2>1, <2>5, <3>1
    <3>2. CASE h # gen /\ g # gen
      BY <2>2, <3>2 DEF Line, OneLine
    <3>3. CASE h # gen /\ g = gen
      <4>1. h <= gen
        BY <2>5
      <4> QED BY <2>4, <3>3, <4>1
    <3> QED BY <3>1, <3>2, <3>3
  <2> QED BY <2>1, <2>5, <2>6 DEF Line, Running
<1>2. CASE Load
  <2>1. /\ source \in AcceptedCheckpoints /\ model' = ckpt[source].model /\ ckpt' = ckpt
        /\ gen' = source /\ rewound' = rewound /\ pc = "clearing" /\ pc' \in {"down", "top"}
    BY <1>2, Loaded DEF disk, launch
  <2>2. ~rewound => \A g \in AcceptedCheckpoints : g <= source /\ IsPrefix(ckpt[g].model, model')
    BY <2>1 DEF Line, OneLine
  <2> QED BY <2>1, <2>2 DEF Line, OneLine, AcceptedCheckpoints
<1>3. CASE Inside
  <2>1. ckpt' = ckpt /\ gen' = gen /\ model' = model /\ rewound' = rewound /\ Running
        /\ pc' # "clearing"
    BY <1>3, InsideFrame DEF launch
  <2> QED BY <2>1 DEF Line, OneLine, AcceptedCheckpoints
<1>4. CASE Update
  <2>1. /\ ckpt' = ckpt /\ rewound' = rewound /\ model' = Append(model, launches)
        /\ launches \in Launches /\ model \in Seq(Launches) /\ Running /\ pc' = "gate"
        /\ gen' = gen + 1 /\ gen \in Nat
    BY <1>4, Trained, ModelIsSeq DEF disk, launch
  <2>2. ~rewound => \A g \in AcceptedCheckpoints : g <= gen + 1 /\ IsPrefix(ckpt[g].model, model')
    <3> SUFFICES ASSUME ~rewound, NEW g \in AcceptedCheckpoints
                 PROVE  g <= gen + 1 /\ IsPrefix(ckpt[g].model, model')
      OBVIOUS
    <3>1. g <= gen /\ IsPrefix(ckpt[g].model, model)
      BY <2>1 DEF Line
    <3>2. g \in Nat /\ ckpt[g].model \in Seq(Launches)
      BY InCheckpoint, GenerationsFacts DEF AcceptedCheckpoints, Exists
    <3>3. IsPrefix(ckpt[g].model, model')
      BY <2>1, <3>1, <3>2, PrefixAppend
    <3> QED BY <2>1, <3>1, <3>2, <3>3
  <2> QED BY <2>1, <2>2 DEF Line, OneLine, AcceptedCheckpoints
<1>5. ASSUME NEW n \in Limits, LaunchFresh(n) PROVE Line'
  <2>1. ckpt' = ckpt /\ launches = 0
    BY <1>5, FreshFrame DEF disk
  <2>2. AcceptedCheckpoints' = {}
    BY <2>1 DEF Position, AcceptedCheckpoints
  <2> QED BY <2>2 DEF Line, OneLine
<1>6. ASSUME NEW n \in Limits, NEW g \in Generations, Resume(n, g) PROVE Line'
  <2>1. /\ ckpt' = ckpt /\ source' = g /\ pc' = "clearing" /\ ~Running'
        /\ ~rewound' => ~rewound /\ \A h \in AcceptedCheckpoints : h <= g
    BY <1>6, ResumeFrame DEF disk, Running
  <2> QED BY <2>1 DEF Line, OneLine, AcceptedCheckpoints
<1>7. CASE Ending
  <2>1. ckpt' = ckpt /\ rewound' = rewound /\ pc' = "down" /\ ~Running'
    BY <1>7 DEF Ending, disk, launch, Running
  <2> QED BY <2>1 DEF Line, OneLine, AcceptedCheckpoints
<1>8. CASE Quiet
  BY <1>8 DEF Quiet, Line, OneLine, AcceptedCheckpoints, Running, disk, memory
<1> QED BY <1>1, <1>2, <1>3, <1>4, <1>5, <1>6, <1>7, <1>8, MainCases DEF Inside

-----------------------------------------------------------------------------
(* The invariant, and what it implies.                                     *)

THEOREM RunInvariant == Spec => []RunInv
<1>1. RunInv /\ [Next]_vars => RunInv'
  BY TypePreserved, PositionPreserved, ArchivesPreserved, LastGoodsPreserved, StopsPreserved,
     AnchoredPreserved, TrainersPreserved, RejectedPreserved, LinePreserved DEF RunInv
<1> QED BY InitInv, <1>1, PTL DEF Spec

(* The run directory and the launch keep their types, for any targets and  *)
(* any number of launches (the state main() keeps).                        *)
THEOREM TypeCorrect == Spec => []TypeOK
<1>1. RunInv => TypeOK
  BY DEF RunInv
<1> QED BY RunInvariant, <1>1, PTL

(* No optimizer state the gate rejected is trained on, and where nobody    *)
(* rewinds the accepted checkpoints are one line of training (load()       *)
(* refuses rejected candidates; latest_checkpoint).                        *)
THEOREM OnlyAcceptedIsTrained == Spec => []TrainingLine
<1>1. RunInv => TrainingLine
  BY NeverTrainedOn DEF RunInv, Line, TrainingLine
<1> QED BY RunInvariant, <1>1, PTL

(* The replay archive a launch holds is the one its weights were trained   *)
(* alongside (main restores both from one checkpoint).                     *)
THEOREM ArchiveFollowsModel == Spec => []ArchiveMatchesModel
<1>1. RunInv => ArchiveMatchesModel
  BY DEF RunInv, Archives, ArchiveOf, ArchiveMatchesModel, Running
<1> QED BY RunInvariant, <1>1, PTL

(* A candidate is compared with an ancestor of its own, and the file       *)
(* last_good.json names an evaluated, accepted checkpoint                  *)
(* (_write_last_good, and the metrics a checkpoint carries).               *)
THEOREM ComparedWithAncestor == Spec => []LastGoodIsAncestor
<1>1. RunInv => LastGoodIsAncestor
  BY DEF RunInv, LastGoods
<1> QED BY RunInvariant, <1>1, PTL

(* What is known of the generation before the one that is finished: no     *)
(* more than the interval is lost, and all of it only at a multiple.       *)
LEMMA OneMore ==
    ASSUME NEW n \in Nat, NEW g \in Nat, n >= 1, (n - 1) - g <= (n - 1) % CheckpointEvery
    PROVE  n - g <= CheckpointEvery /\ (n - g = CheckpointEvery => n % CheckpointEvery = 0)
<1> DEFINE m == n - 1
           x == m % CheckpointEvery
           y == n % CheckpointEvery
           c == CheckpointEvery
<1>1. m \in Nat /\ n = m + 1 /\ c \in Nat
  BY RunAssumption
<1>2. m - g <= x
  OBVIOUS
<1> HIDE DEF m
<1>3. x \in 0 .. c - 1 /\ (y # 0 => y = x + 1)
  BY <1>1, RemainderSucc, RunAssumption
<1>4. y \in 0 .. c - 1
  BY <1>1, RemainderSucc, RunAssumption
<1> HIDE DEF x, y, c
<1>5. n - g <= c /\ (n - g = c => y = 0)
  BY <1>1, <1>2, <1>3, <1>4
<1> QED BY <1>5 DEF y, c

(* Whatever kills a launch, at most --checkpoint-every finished            *)
(* generations are lost, and that many only when one that is a multiple of *)
(* the interval is not saved yet or not accepted (the checkpoint_due       *)
(* condition).                                                             *)
THEOREM LossIsBounded == Spec => []BoundedLoss
<1>1. RunInv => BoundedLoss
  <2> SUFFICES ASSUME RunInv, pc \notin {"down", "clearing", "baseline"}
               PROVE  \E g \in AcceptedCheckpoints :
                          /\ IsPrefix(ckpt[g].model, model)
                          /\ gen - g <= CheckpointEvery
                          /\ gen - g = CheckpointEvery => DueIsUnsaved
    BY DEF BoundedLoss
  <2>1. gen \in Nat /\ \A g \in AcceptedCheckpoints : g \in Nat
    BY GenerationsFacts DEF RunInv, TypeOK, AcceptedCheckpoints
  <2>2. \/ pc \in {"top", "update"} \/ (pc \in {"saved", "verdict"} /\ accepted)
        \/ pc \in {"gate", "boundary", "save"} \/ (pc \in {"saved", "verdict"} /\ ~accepted)
    BY DEF RunInv, TypeOK
  <2>3. CASE pc \in {"top", "update"} \/ (pc \in {"saved", "verdict"} /\ accepted)
    <3>1. PICK g \in AcceptedCheckpoints :
              gen - g <= gen % CheckpointEvery /\ IsPrefix(ckpt[g].model, model)
      BY <2>3 DEF RunInv, Anchored, Near
    <3>2. gen % CheckpointEvery \in 0 .. CheckpointEvery - 1
      BY <2>1, RemainderSucc, RunAssumption
    <3> DEFINE x == gen % CheckpointEvery
    <3>3. x \in Int /\ x < CheckpointEvery /\ gen - g <= x /\ CheckpointEvery \in Int
      BY <3>1, <3>2, RunAssumption
    <3> HIDE DEF x
    <3>4. gen - g < CheckpointEvery /\ gen - g \in Int
      BY <2>1, <3>3
    <3>5. gen - g <= CheckpointEvery /\ gen - g # CheckpointEvery
      BY <3>3, <3>4
    <3> QED BY <3>1, <3>5
  <2>4. CASE pc \in {"gate", "boundary", "save"} \/ (pc \in {"saved", "verdict"} /\ ~accepted)
    <3>1. PICK g \in AcceptedCheckpoints :
              (gen - 1) - g <= (gen - 1) % CheckpointEvery /\ IsPrefix(ckpt[g].model, model)
      BY <2>4 DEF RunInv, Anchored, Near
    <3>2. gen >= 1
      BY <2>4 DEF RunInv, Position
    <3>3. gen - g <= CheckpointEvery /\ (gen - g = CheckpointEvery => gen % CheckpointEvery = 0)
      BY <2>1, <3>1, <3>2, OneMore
    <3>4. gen - g = CheckpointEvery => DueIsUnsaved
      BY <2>4, <3>3 DEF DueIsUnsaved
    <3> QED BY <3>1, <3>3, <3>4
  <2> QED BY <2>2, <2>3, <2>4
<1> QED BY RunInvariant, <1>1, PTL

(* A STOP file that is there lets a launch make one more update at most    *)
(* (stop_requested at the loop head and at the boundary).                  *)
THEOREM StopIsObeyed == Spec => []StopWithinOneGeneration
<1>1. RunInv => StopWithinOneGeneration
  BY DEF RunInv, Stops, StopWithinOneGeneration
<1> QED BY RunInvariant, <1>1, PTL
=============================================================================
