----------------------------- MODULE BasicFacts -----------------------------
(***************************************************************************)
(* Facts that the proofs share, about data of any size: the least and the  *)
(* greatest of a set of numbers, counting modulo a cadence, sums over a    *)
(* finite set, the joining of sequences, and their folding.  What would be *)
(* an induction looks for a least counterexample.                          *)
(***************************************************************************)
EXTENDS Integers, Sequences, FiniteSetTheorems, WellFoundedInduction, TLAPS

(* A set of natural numbers has a least one.                               *)
LEMMA LeastNatural ==
    ASSUME NEW T, T \subseteq Nat, T # {}
    PROVE  \E x \in T : \A y \in T : x <= y
<1>1. \E x \in T : \A y \in T : ~ (<<y, x>> \in OpToRel(<, Nat))
  BY NatLessThanWellFounded, WFMin
<1>2. \A x, y \in Nat : <<y, x>> \in OpToRel(<, Nat) <=> y < x
  BY DEF OpToRel
<1>3. PICK x \in T : \A y \in T : ~ (<<y, x>> \in OpToRel(<, Nat))
  BY <1>1
<1>4. \A y \in T : ~ (y < x)
  BY <1>2, <1>3
<1>5. \A y \in T : x <= y
  BY <1>4
<1> QED BY <1>5

(* A set of natural numbers below a bound has a greatest one.              *)
LEMMA GreatestNatural ==
    ASSUME NEW T, NEW n \in Nat, T \subseteq 0 .. n, T # {}
    PROVE  \E x \in T : \A y \in T : y <= x
<1> DEFINE U == {n - x : x \in T}
<1>1. U \subseteq Nat /\ U # {}
  <2>1. \A x \in T : n - x \in Nat
    BY \A x \in 0 .. n : n - x \in Nat
  <2> QED BY <2>1
<1>2. PICK u \in U : \A v \in U : u <= v
  BY <1>1, LeastNatural
<1>3. PICK x \in T : u = n - x
  OBVIOUS
<1>4. \A y \in T : n - x <= n - y
  BY <1>2, <1>3
<1>5. \A y \in T : y <= x
  BY <1>4
<1> QED BY <1>5

(* Division with a remainder.                                             *)
LEMMA Quotient ==
    ASSUME NEW c \in Nat \ {0}, NEW n \in Nat
    PROVE  \E q \in Nat, r \in 0 .. c - 1 : n = c * q + r
<1> DEFINE T == {x \in Nat : \E q \in Nat : n = c * q + x}
<1>1. n \in T
  <2>1. n = c * 0 + n
    OBVIOUS
  <2> QED BY <2>1
<1>2. PICK r \in T : \A x \in T : r <= x
  BY <1>1, LeastNatural
<1>3. PICK q \in Nat : n = c * q + r
  OBVIOUS
<1>4. r < c
  <2> SUFFICES ASSUME r >= c PROVE FALSE
    OBVIOUS
  <2>1. c * (q + 1) = c * q + c
    OBVIOUS
  <2> DEFINE m == c * q
  <2>2. m \in Nat
    OBVIOUS
  <2>3. n = (m + c) + (r - c)
    <3> HIDE DEF m
    <3>1. n = m + r
      BY <1>3 DEF m
    <3> QED BY <2>2, <3>1
  <2>4. n = c * (q + 1) + (r - c) /\ r - c \in Nat
    BY <2>1, <2>3
  <2>5. r - c \in T
    BY <2>4
  <2> QED BY <1>2, <2>5
<1> QED BY <1>3, <1>4

(* The one quotient and the one remainder. *)
LEMMA Division ==
    ASSUME NEW c \in Nat \ {0}, NEW n \in Int, NEW q \in Int, NEW r \in 0 .. c - 1,
           n = c * q + r
    PROVE  n \div c = q /\ n % c = r
<1>1. n \div c \in Int /\ n % c \in 0 .. c - 1 /\ n = c * (n \div c) + (n % c)
  BY SMTT(60)
<1> DEFINE d == n \div c
           s == n % c
<1> HIDE DEF d, s
<1>2. d \in Int /\ s \in 0 .. c - 1 /\ c * q + r = c * d + s
  BY <1>1 DEF d, s
<1>3. d = q
  <2>1. d < q => c * d + c <= c * q
    <3>1. d < q => d + 1 <= q
      BY <1>2
    <3>2. c * (d + 1) = c * d + c
      BY <1>2
    <3>3. d + 1 <= q => c * (d + 1) <= c * q
      BY <1>2, SMTT(60)
    <3> QED BY <3>1, <3>2, <3>3
  <2>2. d > q => c * q + c <= c * d
    <3>1. d > q => q + 1 <= d
      BY <1>2
    <3>2. c * (q + 1) = c * q + c
      OBVIOUS
    <3>3. q + 1 <= d => c * (q + 1) <= c * d
      BY <1>2, SMTT(60)
    <3> QED BY <3>1, <3>2, <3>3
  <2> DEFINE x == c * d
             y == c * q
  <2>3. x \in Int /\ y \in Int
    BY <1>2
  <2> HIDE DEF x, y
  <2>4. y + r = x + s /\ (d < q => x + c <= y) /\ (d > q => y + c <= x)
    BY <1>2, <2>1, <2>2 DEF x, y
  <2> QED BY <1>2, <2>3, <2>4
<1>4. s = r
  <2> DEFINE y == c * q
  <2>1. y \in Int /\ y + r = y + s
    BY <1>2, <1>3
  <2> HIDE DEF y
  <2> QED BY <1>2, <2>1
<1> QED BY <1>3, <1>4 DEF d, s

(* What % is, of a division with a remainder.                              *)
LEMMA Remainder ==
    ASSUME NEW c \in Nat \ {0}, NEW n \in Nat, NEW q \in Int, NEW r \in 0 .. c - 1,
           n = c * q + r
    PROVE  n % c = r
BY SMTT(60)

(* Between two multiples of c the remainder counts. *)
LEMMA RemainderSucc ==
    ASSUME NEW c \in Nat \ {0}, NEW n \in Nat
    PROVE  /\ n % c \in 0 .. c - 1
           /\ (n + 1) % c # 0 => (n + 1) % c = (n % c) + 1
<1>1. PICK q \in Nat, r \in 0 .. c - 1 : n = c * q + r
  BY Quotient
<1>2. n % c = r
  BY <1>1, Remainder
<1> DEFINE m == c * q
<1>3. m \in Nat /\ n = m + r
  BY <1>1
<1>4. CASE r + 1 < c
  <2>1. n + 1 = m + (r + 1)
    <3> HIDE DEF m
    <3> QED BY <1>3
  <2>2. n + 1 \in Nat /\ r + 1 \in 0 .. c - 1 /\ q \in Int
    BY <1>4
  <2>3. (n + 1) % c = r + 1
    BY ONLY <2>1, <2>2, Remainder
  <2> QED BY <1>2, <2>3
<1>5. CASE r + 1 = c
  <2>1. c * (q + 1) = m + c
    OBVIOUS
  <2>2. n + 1 = m + c
    <3> HIDE DEF m
    <3> QED BY <1>3, <1>5
  <2>3. n + 1 = c * (q + 1) + 0
    BY <2>1, <2>2
  <2>4. n + 1 \in Nat /\ 0 \in 0 .. c - 1 /\ q + 1 \in Int
    OBVIOUS
  <2>5. (n + 1) % c = 0
    BY ONLY <2>3, <2>4, Remainder
  <2> QED BY <1>2, <2>5
<1> QED BY <1>4, <1>5

(* Zero is a multiple.                                                     *)
LEMMA ZeroRemainder == ASSUME NEW c \in Nat \ {0} PROVE 0 % c = 0
<1>1. 0 = c * 0 + 0
  OBVIOUS
<1> QED BY <1>1, Remainder

-----------------------------------------------------------------------------
(* Folding a finite set, one element after the other.  The recursive       *)
(* function exists and is what its equation says: shown on the size of the *)
(* subsets, by the least one it would fail for.                            *)
FoldOf(g, T, base, pick, step) ==
    g = [s \in SUBSET T |-> IF s = {} THEN base ELSE step[pick[s]][g[s \ {pick[s]}]]]

(* Removing the element picked leaves a smaller set. *)
LEMMA Smaller ==
    ASSUME NEW T, IsFiniteSet(T), NEW s \in SUBSET T
    PROVE  /\ IsFiniteSet(s) /\ Cardinality(s) \in Nat
           /\ s # {} => Cardinality(s) > 0
           /\ \A x \in s : Cardinality(s \ {x}) = Cardinality(s) - 1
<1>1. IsFiniteSet(s)
  BY FS_Subset
<1> QED BY <1>1, FS_CardinalityType, FS_EmptySet, FS_RemoveElement

(* A fold over the subsets of a finite set exists: were it not so for the subsets of some
   size, there would be a least such size, and one below it can be extended. *)
LEMMA FoldExists ==
    ASSUME NEW T, IsFiniteSet(T), NEW S, NEW base \in S,
           NEW pick, \A s \in SUBSET T : s # {} => pick[s] \in s,
           NEW step, \A x \in T : \A y \in S : step[x][y] \in S
    PROVE  \E g \in [SUBSET T -> S] : FoldOf(g, T, base, pick, step)
<1> DEFINE Upto(n) == {s \in SUBSET T : Cardinality(s) <= n}
           Next(g, s) == IF s = {} THEN base ELSE step[pick[s]][g[s \ {pick[s]}]]
           Known(n) == \E g \in [Upto(n) -> S] : \A s \in Upto(n) : g[s] = Next(g, s)
           Unknown == {n \in Nat : ~ Known(n)}
<1>1. \A s \in SUBSET T : /\ Cardinality(s) \in Nat
                          /\ s # {} => /\ pick[s] \in s /\ pick[s] \in T
                                       /\ s \ {pick[s]} \in SUBSET T
                                       /\ Cardinality(s \ {pick[s]}) = Cardinality(s) - 1
                                       /\ Cardinality(s) > 0
  BY Smaller
<1>2. Unknown = {}
  <2> SUFFICES ASSUME Unknown # {} PROVE FALSE
    OBVIOUS
  <2>1. PICK m \in Unknown : \A n \in Unknown : m <= n
    <3>1. Unknown \subseteq Nat
      OBVIOUS
    <3> HIDE DEF Unknown
    <3> QED BY <3>1, LeastNatural
  <2>2. m \in Nat /\ ~ Known(m)
    OBVIOUS
  <2>3. m # 0
    <3> SUFFICES ASSUME m = 0 PROVE FALSE
      OBVIOUS
    <3> DEFINE g == [s \in Upto(0) |-> base]
    <3>1. g \in [Upto(0) -> S]
      OBVIOUS
    <3>2. \A s \in Upto(0) : s = {}
      <4>1. \A s \in SUBSET T : Cardinality(s) \in Nat /\ (s # {} => Cardinality(s) > 0)
        BY <1>1
      <4> QED BY <4>1
    <3>3. \A s \in Upto(0) : g[s] = Next(g, s)
      BY <3>2
    <3> QED BY <2>2, <3>1, <3>3
  <2>4. m - 1 \in Nat /\ m - 1 < m
    BY <2>2, <2>3
  <2>5. Known(m - 1)
    <3>1. m - 1 \notin Unknown
      <4> HIDE DEF Unknown
      <4> QED BY <2>1, <2>2, <2>4
    <3> QED BY <2>4, <3>1
  <2>6. PICK g \in [Upto(m - 1) -> S] : \A s \in Upto(m - 1) : g[s] = Next(g, s)
    BY <2>5
  <2> DEFINE h == [s \in Upto(m) |-> Next(g, s)]
  <2>7. \A s \in Upto(m) : s # {} => s \ {pick[s]} \in Upto(m - 1)
    <3> SUFFICES ASSUME NEW s \in Upto(m), s # {} PROVE s \ {pick[s]} \in Upto(m - 1)
      OBVIOUS
    <3>1. /\ Cardinality(s) \in Nat /\ Cardinality(s) <= m
          /\ s \ {pick[s]} \in SUBSET T
          /\ Cardinality(s \ {pick[s]}) = Cardinality(s) - 1
      BY <1>1
    <3>2. Cardinality(s \ {pick[s]}) <= m - 1
      BY <2>2, <3>1
    <3> QED BY <3>1, <3>2
  <2>8. \A s \in Upto(m - 1) : s \in Upto(m)
    <3>1. \A s \in SUBSET T : Cardinality(s) \in Nat
      BY <1>1
    <3>2. \A c \in Nat : c <= m - 1 => c <= m
      BY <2>2
    <3> QED BY <3>1, <3>2
  <2>9. h \in [Upto(m) -> S]
    <3>1. \A s \in Upto(m) : Next(g, s) \in S
      <4> TAKE s \in Upto(m)
      <4>1. CASE s = {}
        BY <4>1
      <4>2. CASE s # {}
        <5>1. g[s \ {pick[s]}] \in S /\ pick[s] \in T
          BY <1>1, <2>7, <4>2
        <5> QED BY <4>2, <5>1
      <4> QED BY <4>1, <4>2
    <3> HIDE DEF Next, Upto
    <3> QED BY <3>1
  <2>10. \A s \in Upto(m - 1) : h[s] = g[s]
    <3> HIDE DEF Upto, Next
    <3> QED BY <2>6, <2>8
  <2>11. \A s \in Upto(m) : h[s] = Next(h, s)
    <3> TAKE s \in Upto(m)
    <3>1. h[s] = Next(g, s)
      OBVIOUS
    <3>2. s # {} => h[s \ {pick[s]}] = g[s \ {pick[s]}]
      <4> HIDE DEF h, Upto
      <4> QED BY <2>7, <2>10
    <3> HIDE DEF h, Upto
    <3> QED BY <3>1, <3>2
  <2> HIDE DEF h, Upto, Next
  <2>12. Known(m)
    BY <2>9, <2>11
  <2> QED BY <2>2, <2>12
<1>3. Known(Cardinality(T))
  <2>1. Cardinality(T) \in Nat
    BY <1>1, T \in SUBSET T
  <2> HIDE DEF Known
  <2> QED BY <1>2, <2>1
<1>4. Upto(Cardinality(T)) = SUBSET T
  <2>1. \A s \in SUBSET T : Cardinality(s) <= Cardinality(T)
    BY FS_Subset, FS_CardinalityType
  <2> QED BY <2>1
<1> HIDE DEF Upto
<1>5. PICK g \in [SUBSET T -> S] : \A s \in SUBSET T : g[s] = Next(g, s)
  BY <1>3, <1>4
<1>6. g = [s \in SUBSET T |-> Next(g, s)]
  <2> HIDE DEF Next
  <2> QED BY <1>5
<1> QED BY <1>6 DEF FoldOf

(* A sum of natural numbers, as FiniteSetsExt defines it. *)
SumOf(g, T, w) ==
    g = [s \in SUBSET T |-> IF s = {} THEN 0
                            ELSE w[CHOOSE x \in s : TRUE] + g[s \ {CHOOSE x \in s : TRUE}]]

(* The sum over a finite set of natural weights exists, as a fold with +. *)
LEMMA SumExists ==
    ASSUME NEW T, IsFiniteSet(T), NEW w, \A x \in T : w[x] \in Nat
    PROVE  \E g \in [SUBSET T -> Nat] : SumOf(g, T, w)
<1> DEFINE pick == [s \in SUBSET T |-> CHOOSE x \in s : TRUE]
           step == [x \in T |-> [y \in Nat |-> w[x] + y]]
<1>1. \A s \in SUBSET T : s # {} => pick[s] \in s
  OBVIOUS
<1>2. \A x \in T : \A y \in Nat : step[x][y] = w[x] + y /\ step[x][y] \in Nat
  OBVIOUS
<1>3. PICK g \in [SUBSET T -> Nat] : FoldOf(g, T, 0, pick, step)
  <2> HIDE DEF pick, step
  <2> QED BY <1>1, <1>2, FoldExists
<1>4. \A s \in SUBSET T :
         g[s] = IF s = {} THEN 0
                ELSE w[CHOOSE x \in s : TRUE] + g[s \ {CHOOSE x \in s : TRUE}]
  <2> TAKE s \in SUBSET T
  <2>1. g[s] = IF s = {} THEN 0 ELSE step[pick[s]][g[s \ {pick[s]}]]
    <3> HIDE DEF pick, step
    <3> QED BY <1>3 DEF FoldOf
  <2>2. s # {} => pick[s] \in T /\ g[s \ {pick[s]}] \in Nat
    <3>1. s # {} => pick[s] \in T /\ s \ {pick[s]} \in SUBSET T
      BY <1>1
    <3> HIDE DEF pick
    <3> QED BY <3>1
  <2>3. pick[s] = CHOOSE x \in s : TRUE
    OBVIOUS
  <2> HIDE DEF pick, step
  <2> QED BY <1>2, <2>1, <2>2, <2>3
<1>5. SumOf(g, T, w)
  BY <1>4 DEF SumOf
<1> QED BY <1>5

(* A sum of natural numbers is one, and zero only if all of them are.      *)
LEMMA SumFacts ==
    ASSUME NEW T, IsFiniteSet(T), NEW w, \A x \in T : w[x] \in Nat
    PROVE  LET sum == (CHOOSE g : SumOf(g, T, w))[T]
           IN  sum \in Nat /\ (sum = 0 <=> \A x \in T : w[x] = 0)
<1> DEFINE g == CHOOSE f : SumOf(f, T, w)
           c(s) == CHOOSE x \in s : TRUE
           Fine(s) == g[s] \in Nat /\ (g[s] = 0 <=> \A x \in s : w[x] = 0)
           Bad == {n \in Nat : \E s \in SUBSET T : Cardinality(s) = n /\ ~ Fine(s)}
<1>1. SumOf(g, T, w)
  BY SumExists
<1> HIDE DEF g
<1>2. \A s \in SUBSET T : g[s] = IF s = {} THEN 0 ELSE w[c(s)] + g[s \ {c(s)}]
  BY <1>1 DEF SumOf
<1>3. Bad = {}
  <2> SUFFICES ASSUME Bad # {} PROVE FALSE
    OBVIOUS
  <2>1. PICK m \in Bad : \A n \in Bad : m <= n
    <3>1. Bad \subseteq Nat
      OBVIOUS
    <3> HIDE DEF Bad
    <3> QED BY <3>1, LeastNatural
  <2>2. PICK s \in SUBSET T : Cardinality(s) = m /\ ~ Fine(s)
    OBVIOUS
  <2>3. s # {}
    <3> SUFFICES ASSUME s = {} PROVE Fine(s)
      BY <2>2
    <3>1. g[s] = 0
      BY <1>2
    <3> QED BY <3>1
  <2> DEFINE x == c(s)
             r == s \ {x}
  <2>4. x \in s /\ x \in T
    BY <2>3
  <2>5. r \in SUBSET T /\ Cardinality(r) = m - 1 /\ m - 1 \in Nat
    <3>1. /\ Cardinality(s) \in Nat /\ Cardinality(s) > 0
          /\ \A y \in s : Cardinality(s \ {y}) = Cardinality(s) - 1
      BY <2>3, Smaller
    <3>2. Cardinality(r) = Cardinality(s) - 1
      BY <2>4, <3>1
    <3> HIDE DEF r
    <3>3. Cardinality(r) = m - 1 /\ m - 1 \in Nat
      BY <2>2, <3>1, <3>2
    <3> QED BY <3>3 DEF r
  <2>6. Fine(r)
    <3>1. m - 1 \notin Bad
      <4> HIDE DEF Bad
      <4>1. m \in Nat
        BY <2>2, Smaller
      <4>2. ~ (m <= m - 1)
        BY <4>1
      <4> QED BY <2>1, <4>2
    <3> QED BY <2>5, <3>1
  <2>7. g[s] = w[x] + g[r]
    BY <1>2, <2>3
  <2>8. w[x] \in Nat
    BY <2>4
  <2>9. (\A y \in s : w[y] = 0) <=> w[x] = 0 /\ \A y \in r : w[y] = 0
    BY <2>4
  <2> HIDE DEF x, r
  <2>10. Fine(s)
    BY <2>6, <2>7, <2>8, <2>9
  <2> QED BY <2>2, <2>10
<1>4. Fine(T)
  <2>1. T \in SUBSET T /\ Cardinality(T) \in Nat
    BY FS_CardinalityType
  <2> HIDE DEF Fine
  <2> QED BY <1>3, <2>1
<1> QED BY <1>4 DEF g

-----------------------------------------------------------------------------
(* Joining the sequences of a sequence, as SequencesExt defines it: the    *)
(* recursive function exists, is unique, and grows at its end.             *)
JoinOf(f, ss) == f = [i \in 1 .. Len(ss) |-> IF i = 1 THEN ss[i] ELSE f[i - 1] \o ss[i]]

Joined(ss) == IF Len(ss) = 0 THEN ss ELSE (CHOOSE f : JoinOf(f, ss))[Len(ss)]

(* There is a function that joins, up to every place. *)
LEMMA JoinExists ==
    ASSUME NEW T, NEW ss \in Seq(Seq(T))
    PROVE  \E f \in [1 .. Len(ss) -> Seq(T)] : JoinOf(f, ss)
<1> DEFINE Next(f, i) == IF i = 1 THEN ss[i] ELSE f[i - 1] \o ss[i]
           Known(n) == \E f \in [1 .. n -> Seq(T)] : \A i \in 1 .. n : f[i] = Next(f, i)
           Unknown == {n \in 0 .. Len(ss) : ~ Known(n)}
<1>1. Unknown = {}
  <2> SUFFICES ASSUME Unknown # {} PROVE FALSE
    OBVIOUS
  <2>1. PICK m \in Unknown : \A n \in Unknown : m <= n
    <3>1. Unknown \subseteq Nat
      OBVIOUS
    <3> HIDE DEF Unknown
    <3> QED BY <3>1, LeastNatural
  <2>2. m \in 0 .. Len(ss) /\ ~ Known(m)
    OBVIOUS
  <2>3. m # 0
    <3> DEFINE f == [i \in 1 .. 0 |-> <<>>]
    <3>1. f \in [1 .. 0 -> Seq(T)] /\ \A i \in 1 .. 0 : f[i] = Next(f, i)
      OBVIOUS
    <3>2. Known(0)
      <4> HIDE DEF f, Next
      <4> QED BY <3>1
    <3> QED BY <2>2, <3>2
  <2>4. Known(m - 1)
    <3>1. m - 1 \in 0 .. Len(ss) /\ ~ (m <= m - 1)
      BY <2>2, <2>3
    <3>2. m - 1 \notin Unknown
      <4> HIDE DEF Unknown
      <4> QED BY <2>1, <3>1
    <3> HIDE DEF Known
    <3> QED BY <3>1, <3>2
  <2>5. PICK f \in [1 .. m - 1 -> Seq(T)] : \A i \in 1 .. m - 1 : f[i] = Next(f, i)
    BY <2>4
  <2> DEFINE h == [i \in 1 .. m |-> Next(f, i)]
  <2>6. \A i \in 1 .. m : Next(f, i) \in Seq(T)
    <3> TAKE i \in 1 .. m
    <3>1. ss[i] \in Seq(T)
      BY <2>2
    <3>2. i # 1 => f[i - 1] \in Seq(T)
      BY <2>2
    <3> QED BY <3>1, <3>2
  <2>7. h \in [1 .. m -> Seq(T)] /\ \A i \in 1 .. m : h[i] = Next(f, i)
    <3> HIDE DEF Next
    <3> QED BY <2>6
  <2>8. \A i \in 1 .. m : i # 1 => i - 1 \in 1 .. m - 1 /\ i - 1 \in 1 .. m
    BY <2>2
  <2>9. \A i \in 1 .. m - 1 : i \in 1 .. m
    BY <2>2
  <2>10. \A i \in 1 .. m : h[i] = Next(h, i)
    <3> TAKE i \in 1 .. m
    <3> HIDE DEF h
    <3>1. CASE i = 1
      BY <2>7, <3>1
    <3>2. CASE i # 1
      <4>1. f[i - 1] = Next(f, i - 1) /\ h[i - 1] = Next(f, i - 1)
        <5> HIDE DEF Next
        <5> QED BY <2>5, <2>7, <2>8, <3>2
      <4>2. h[i - 1] = f[i - 1]
        <5> HIDE DEF Next
        <5> QED BY <4>1
      <4> QED BY <2>7, <3>2, <4>2
    <3> QED BY <3>1, <3>2
  <2>11. Known(m)
    <3> HIDE DEF h, Next
    <3> QED BY <2>7, <2>10
  <2> QED BY <2>2, <2>11
<1>2. Known(Len(ss))
  <2>1. Len(ss) \in 0 .. Len(ss)
    OBVIOUS
  <2> HIDE DEF Known
  <2> QED BY <1>1, <2>1
<1>3. PICK f \in [1 .. Len(ss) -> Seq(T)] : \A i \in 1 .. Len(ss) : f[i] = Next(f, i)
  BY <1>2
<1>4. f = [i \in 1 .. Len(ss) |-> Next(f, i)]
  <2> HIDE DEF Next
  <2> QED BY <1>3
<1> QED BY <1>4 DEF JoinOf

(* Two functions that join the same sequence are equal: there is no first  *)
(* place at which they differ.                                             *)
LEMMA JoinUnique ==
    ASSUME NEW ss, Len(ss) \in Nat, NEW f, JoinOf(f, ss), NEW g, JoinOf(g, ss)
    PROVE  f = g
<1> DEFINE Bad == {i \in 1 .. Len(ss) : f[i] # g[i]}
<1>1. /\ \A i \in 1 .. Len(ss) : f[i] = IF i = 1 THEN ss[i] ELSE f[i - 1] \o ss[i]
      /\ \A i \in 1 .. Len(ss) : g[i] = IF i = 1 THEN ss[i] ELSE g[i - 1] \o ss[i]
  BY DEF JoinOf
<1>2. Bad = {}
  <2> SUFFICES ASSUME Bad # {} PROVE FALSE
    OBVIOUS
  <2>1. PICK m \in Bad : \A n \in Bad : m <= n
    <3>1. Bad \subseteq Nat
      OBVIOUS
    <3> HIDE DEF Bad
    <3> QED BY <3>1, LeastNatural
  <2>2. m \in 1 .. Len(ss) /\ f[m] # g[m]
    OBVIOUS
  <2>3. m # 1
    BY <1>1, <2>2
  <2>4. m - 1 \in 1 .. Len(ss) /\ ~ (m <= m - 1)
    BY <2>2, <2>3
  <2>5. m - 1 \notin Bad
    <3> HIDE DEF Bad
    <3> QED BY <2>1, <2>4
  <2>6. f[m - 1] = g[m - 1]
    BY <2>4, <2>5
  <2> QED BY <1>1, <2>2, <2>3, <2>6
<1>3. \A i \in 1 .. Len(ss) : f[i] = g[i]
  BY <1>2
<1>4. /\ f = [i \in 1 .. Len(ss) |-> f[i]]
      /\ g = [i \in 1 .. Len(ss) |-> g[i]]
  BY DEF JoinOf
<1> QED BY <1>3, <1>4

(* What is joined of a sequence of sequences.                              *)
LEMMA JoinedType == ASSUME NEW T, NEW ss \in Seq(Seq(T)) PROVE Joined(ss) \in Seq(T)
<1>1. CASE Len(ss) = 0
  <2>1. ss = <<>>
    BY <1>1
  <2> QED BY <1>1, <2>1 DEF Joined
<1>2. CASE Len(ss) # 0
  <2>1. PICK f \in [1 .. Len(ss) -> Seq(T)] : JoinOf(f, ss)
    BY JoinExists
  <2> DEFINE g == CHOOSE g : JoinOf(g, ss)
  <2>2. JoinOf(g, ss)
    BY <2>1
  <2>3. Len(ss) \in Nat /\ Len(ss) \in 1 .. Len(ss)
    BY <1>2
  <2> HIDE DEF g
  <2>4. g = f
    BY <2>1, <2>2, <2>3, JoinUnique
  <2> QED BY <1>2, <2>3, <2>4 DEF Joined, g
<1> QED BY <1>1, <1>2

(* One more sequence is joined at the end.                                 *)
LEMMA JoinedAppend ==
    ASSUME NEW T, NEW ss \in Seq(Seq(T)), NEW x \in Seq(T)
    PROVE  Joined(Append(ss, x)) = Joined(ss) \o x
<1> DEFINE n == Len(ss)
           tt == Append(ss, x)
<1>1. /\ n \in Nat /\ tt \in Seq(Seq(T)) /\ Len(tt) = n + 1
      /\ tt[n + 1] = x /\ \A i \in 1 .. n : tt[i] = ss[i]
  OBVIOUS
<1>2. PICK f \in [1 .. Len(ss) -> Seq(T)] : JoinOf(f, ss)
  BY JoinExists
<1>3. PICK g \in [1 .. Len(tt) -> Seq(T)] : JoinOf(g, tt)
  BY <1>1, JoinExists
<1>4. /\ \A i \in 1 .. n : f[i] = IF i = 1 THEN ss[i] ELSE f[i - 1] \o ss[i]
      /\ \A i \in 1 .. n + 1 : g[i] = IF i = 1 THEN tt[i] ELSE g[i - 1] \o tt[i]
  BY <1>1, <1>2, <1>3 DEF JoinOf
<1> HIDE DEF tt
<1> DEFINE r == [i \in 1 .. n |-> g[i]]
<1>5. JoinOf(r, ss)
  <2>1. \A i \in 1 .. n : r[i] = IF i = 1 THEN ss[i] ELSE r[i - 1] \o ss[i]
    <3> TAKE i \in 1 .. n
    <3>1. i \in 1 .. n + 1 /\ r[i] = g[i] /\ tt[i] = ss[i]
      BY <1>1
    <3>2. i # 1 => r[i - 1] = g[i - 1]
      BY <1>1
    <3> HIDE DEF r
    <3> QED BY <1>4, <3>1, <3>2
  <2> QED BY <2>1 DEF JoinOf
<1>6. r = f
  <2> HIDE DEF r
  <2> QED BY <1>1, <1>2, <1>5, JoinUnique
<1>7. n # 0 => Joined(ss) = f[n]
  <2> SUFFICES ASSUME n # 0 PROVE Joined(ss) = f[n]
    OBVIOUS
  <2> DEFINE k == CHOOSE k : JoinOf(k, ss)
  <2>1. JoinOf(k, ss)
    BY <1>2
  <2> HIDE DEF k
  <2>2. k = f
    BY <1>1, <1>2, <2>1, JoinUnique
  <2> QED BY <2>2 DEF Joined, k
<1>8. Joined(tt) = g[n + 1]
  <2> DEFINE k == CHOOSE k : JoinOf(k, tt)
  <2>1. JoinOf(k, tt)
    BY <1>3
  <2> HIDE DEF k
  <2>2. k = g
    BY <1>1, <1>3, <2>1, JoinUnique
  <2>3. Len(tt) # 0 /\ Len(tt) = n + 1
    BY <1>1
  <2>4. Joined(tt) = k[Len(tt)]
    BY <2>3 DEF Joined, k
  <2> QED BY <2>2, <2>3, <2>4
<1>9. CASE n = 0
  <2>1. Joined(ss) = <<>>
    BY <1>9 DEF Joined
  <2>2. g[n + 1] = x
    BY <1>1, <1>4, <1>9
  <2> QED BY <1>8, <2>1, <2>2 DEF tt
<1>10. CASE n # 0
  <2>1. n + 1 \in 1 .. n + 1 /\ n + 1 # 1 /\ n \in 1 .. n /\ (n + 1) - 1 = n
    BY <1>1, <1>10
  <2>2. g[n + 1] = g[n] \o x
    <3>1. g[n + 1] = g[(n + 1) - 1] \o tt[n + 1]
      BY <1>4, <2>1
    <3> HIDE DEF n
    <3> QED BY <1>1, <2>1, <3>1
  <2>3. g[n] = f[n]
    BY <1>6, <2>1
  <2> QED BY <1>7, <1>8, <1>10, <2>2, <2>3 DEF tt
<1> QED BY <1>9, <1>10

-----------------------------------------------------------------------------
(* A function that tells its arguments apart maps no set to a smaller one. *)
LEMMA Injects ==
    ASSUME NEW S, NEW T, NEW h \in [S -> T], \A x, y \in S : h[x] = h[y] => x = y,
           IsFiniteSet(T)
    PROVE  Cardinality(S) <= Cardinality(T)
<1>1. h \in Injection(S, T)
  BY DEF Injection, IsInjective
<1> QED BY <1>1, FS_Injection

(* The places at which a value is dealt. *)
Places(f, I, u) == {i \in I : f[i] = u}

(* Dealing a finite set round, in the order of a list of it: nothing of it  *)
(* is dealt two times more than anything else.                              *)
LEMMA InTurn ==
    ASSUME NEW P, IsFiniteSet(P), P # {},
           NEW t \in [1 .. Cardinality(P) -> P],
           \A x, y \in 1 .. Cardinality(P) : t[x] = t[y] => x = y,
           NEW a \in Nat, NEW b \in Int,
           NEW f, \A i \in a + 1 .. b : f[i] = t[((i - 1 - a) % Cardinality(P)) + 1]
    PROVE  /\ \A i \in a + 1 .. b : f[i] \in P
           /\ \A u, v \in P : Cardinality(Places(f, a + 1 .. b, u))
                                 <= Cardinality(Places(f, a + 1 .. b, v)) + 1
<1> DEFINE L == Cardinality(P)
           I == a + 1 .. b
           Of(u) == {i \in I : f[i] = u}
<1>1. L \in Nat /\ L \in Nat \ {0}
  BY FS_CardinalityType, FS_EmptySet
<1>2. ASSUME NEW y \in P PROVE \E k \in 1 .. L : t[k] = y
  <2>1. Cardinality(1 .. L) = L
    BY <1>1, FS_Interval
  <2>2. Cardinality(1 .. L) = Cardinality(P)
    BY <2>1
  <2>3. t \in [1 .. L -> P] /\ \A x, z \in 1 .. L : t[x] = t[z] => x = z
    OBVIOUS
  <2> HIDE DEF L
  <2>4. t \in Injection(1 .. L, P)
    BY <2>3 DEF Injection, IsInjective
  <2>5. t \in Surjection(1 .. L, P)
    BY <2>2, <2>4, FS_Injection
  <2> QED BY <2>5 DEF Surjection
<1> HIDE DEF L
<1>3. ASSUME NEW i \in I PROVE i - 1 - a \in Nat /\ (i - 1 - a) % L \in 0 .. L - 1
  <2>1. i - 1 - a \in Nat
    OBVIOUS
  <2> QED BY <1>1, <2>1, RemainderSucc
<1>4. ASSUME NEW i \in I PROVE f[i] \in P
  <2>1. ((i - 1 - a) % L) + 1 \in 1 .. L
    BY <1>1, <1>3
  <2> QED BY <2>1 DEF L
<1>5. ASSUME NEW u \in P, NEW v \in P PROVE Cardinality(Of(u)) <= Cardinality(Of(v)) + 1
  <2>1. PICK k \in 1 .. L : t[k] = u
    BY <1>2
  <2>2. PICK l \in 1 .. L : t[l] = v
    BY <1>2
  <2> DEFINE d == IF l <= k THEN k - l ELSE L - (l - k)
             S == Of(u) \ {a + k}
             h == [i \in S |-> i - d]
  <2>3. d \in Nat
    BY <1>1
  <2>4. ASSUME NEW i \in S PROVE i - d \in Of(v)
    <3>1. i \in I /\ f[i] = u /\ i # a + k
      OBVIOUS
    <3>2. PICK q \in Nat, r \in 0 .. L - 1 : i - 1 - a = L * q + r
      BY <1>1, <1>3, <3>1, Quotient
    <3>3. (i - 1 - a) % L = r
      BY <1>1, <1>3, <3>1, <3>2, Remainder
    <3>4. r + 1 \in 1 .. L /\ t[r + 1] = u
      BY <1>1, <3>1, <3>3 DEF L
    <3>5. r + 1 = k
      BY <2>1, <3>4 DEF L
    <3> DEFINE e == IF l <= k THEN q ELSE q - 1
    <3>6. e \in Nat /\ i - d - 1 - a = L * e + (l - 1)
      <4>1. CASE l <= k
        <5> DEFINE m == L * q
        <5>1. m \in Nat
          BY <1>1
        <5>2. i - 1 - a = m + (k - 1)
          BY <3>2, <3>5
        <5> HIDE DEF m
        <5>3. i - (k - l) - 1 - a = m + (l - 1)
          BY <5>1, <5>2
        <5> QED BY <4>1, <5>3 DEF m
      <4>2. CASE ~ (l <= k)
        <5>1. q # 0
          <6>1. q = 0 => i - 1 - a = k - 1
            BY <1>1, <3>2, <3>5
          <6> QED BY <3>1, <6>1
        <5> DEFINE m == L * (q - 1)
        <5>2. m \in Nat /\ L * q = m + L
          BY <1>1, <5>1
        <5>3. i - 1 - a = m + L + (k - 1)
          BY <3>2, <3>5, <5>2
        <5> HIDE DEF m
        <5>4. i - (L - (l - k)) - 1 - a = m + (l - 1)
          BY <1>1, <5>2, <5>3
        <5> QED BY <4>2, <5>1, <5>4 DEF m
      <4> QED BY <4>1, <4>2
    <3>7. i - d - 1 - a \in Nat
      <4>1. L * e \in Nat
        BY <1>1, <3>6
      <4> HIDE DEF e, d
      <4> QED BY <3>6, <4>1
    <3>8. (i - d - 1 - a) % L = l - 1
      <4>1. l - 1 \in 0 .. L - 1 /\ e \in Int
        BY <1>1, <3>6
      <4> HIDE DEF e, d
      <4> QED BY <1>1, <3>6, <3>7, <4>1, Remainder
    <3>9. i - d \in I
      <4> HIDE DEF d
      <4> QED BY <2>3, <3>1, <3>7
    <3>10. (i - d) - 1 - a = i - d - 1 - a
      OBVIOUS
    <3> HIDE DEF d
    <3>11. f[i - d] = t[(l - 1) + 1]
      BY <3>8, <3>9, <3>10 DEF L
    <3> QED BY <2>2, <3>9, <3>11
  <2>5. IsFiniteSet(I) /\ IsFiniteSet(Of(u)) /\ IsFiniteSet(Of(v))
    <3>1. IsFiniteSet(I)
      BY FS_Interval, a + 1 \in Int
    <3> HIDE DEF I
    <3> QED BY <3>1, FS_Subset
  <2>6. Cardinality(S) <= Cardinality(Of(v))
    <3>1. h \in [S -> Of(v)] /\ \A x, y \in S : h[x] = h[y] => x = y
      <4>1. S \subseteq Int
        OBVIOUS
      <4> HIDE DEF S, d, Of
      <4> QED BY <2>3, <2>4, <4>1
    <3> HIDE DEF h, S, Of
    <3> QED BY <2>5, <3>1, Injects
  <2>7. /\ Cardinality(Of(u)) \in Nat /\ Cardinality(Of(v)) \in Nat
        /\ Cardinality(S) = IF a + k \in Of(u) THEN Cardinality(Of(u)) - 1 ELSE Cardinality(Of(u))
    <3> HIDE DEF Of
    <3> QED BY <2>5, FS_CardinalityType, FS_RemoveElement
  <2> HIDE DEF S, Of
  <2> QED BY <2>6, <2>7
<1>6. \A u : Places(f, I, u) = Of(u)
  BY DEF Places
<1> QED BY <1>4, <1>5, <1>6

(* What goes up among the places of a list leaves each where it is.        *)
LEMMA UpIsStill ==
    ASSUME NEW n \in Nat, NEW p \in [1 .. n -> 1 .. n],
           \A i, j \in 1 .. n : i < j => p[i] < p[j]
    PROVE  \A i \in 1 .. n : p[i] = i
<1>1. \A i \in 1 .. n : p[i] \in 1 .. n
  OBVIOUS
<1>2. ASSUME NEW i \in 1 .. n, p[i] < i PROVE FALSE
  <2> DEFINE T == {k \in 1 .. n : p[k] < k}
  <2>1. T \subseteq Nat /\ T # {}
    BY <1>2
  <2>2. PICK k \in T : \A l \in T : k <= l
    <3> HIDE DEF T
    <3> QED BY <2>1, LeastNatural
  <2>3. k \in 1 .. n /\ p[k] < k /\ p[k] \in 1 .. n
    OBVIOUS
  <2>4. k - 1 \in 1 .. n /\ k - 1 < k
    BY <2>3
  <2>5. p[k - 1] < p[k] /\ p[k - 1] \in 1 .. n
    BY <2>3, <2>4
  <2>6. k - 1 \in T
    BY <2>3, <2>4, <2>5
  <2> QED BY <2>2, <2>3, <2>4, <2>6
<1>3. ASSUME NEW i \in 1 .. n, p[i] > i PROVE FALSE
  <2> DEFINE T == {k \in 1 .. n : p[k] > k}
  <2>1. T \subseteq 0 .. n /\ T # {}
    BY <1>3
  <2>2. PICK k \in T : \A l \in T : l <= k
    <3> HIDE DEF T
    <3> QED BY <2>1, GreatestNatural
  <2>3. k \in 1 .. n /\ p[k] > k /\ p[k] \in 1 .. n
    OBVIOUS
  <2>4. k + 1 \in 1 .. n /\ k < k + 1
    BY <2>3
  <2>5. p[k + 1] > p[k] /\ p[k + 1] \in 1 .. n
    BY <2>3, <2>4
  <2>6. k + 1 \in T
    BY <2>3, <2>4, <2>5
  <2> QED BY <2>2, <2>3, <2>4, <2>6
<1> QED BY <1>1, <1>2, <1>3

(* Ratios of natural numbers, compared crosswise, are transitive.          *)
LEMMA CrossTransitive ==
    ASSUME NEW a \in Nat, NEW b \in Nat, NEW d \in Nat,
           NEW p \in Nat \ {0}, NEW q \in Nat \ {0}, NEW r \in Nat \ {0},
           ~(b * p < a * q), ~(d * q < b * r)
    PROVE  /\ a * q <= b * p /\ b * r <= d * q
           /\ a * r <= d * p
           /\ a * q < b * p \/ b * r < d * q => a * r < d * p
<1>1. /\ a * q \in Nat /\ b * p \in Nat /\ b * r \in Nat /\ d * q \in Nat
      /\ a * r \in Nat /\ d * p \in Nat
  OBVIOUS
<1>2. a * q <= b * p /\ b * r <= d * q
  BY <1>1
<1>3. /\ (a * q) * r <= (b * p) * r
      /\ a * q < b * p => (a * q) * r < (b * p) * r
  <2> DEFINE u == a * q
             v == b * p
  <2>1. u \in Nat /\ v \in Nat /\ u <= v
    BY <1>1, <1>2
  <2> HIDE DEF u, v
  <2>2. u * r <= v * r /\ (u < v => u * r < v * r)
    BY <2>1
  <2> QED BY <2>2 DEF u, v
<1>4. /\ (b * r) * p <= (d * q) * p
      /\ b * r < d * q => (b * r) * p < (d * q) * p
  <2> DEFINE u == b * r
             v == d * q
  <2>1. u \in Nat /\ v \in Nat /\ u <= v
    BY <1>1, <1>2
  <2> HIDE DEF u, v
  <2>2. u * p <= v * p /\ (u < v => u * p < v * p)
    BY <2>1
  <2> QED BY <2>2 DEF u, v
<1>5. /\ (a * q) * r = (a * r) * q /\ (b * p) * r = (b * r) * p /\ (d * q) * p = (d * p) * q
  OBVIOUS
<1>6. /\ (a * r) * q <= (d * p) * q
      /\ a * q < b * p \/ b * r < d * q => (a * r) * q < (d * p) * q
  <2> DEFINE u == (a * q) * r
             v == (b * p) * r
             w == (d * q) * p
  <2>1. u \in Nat /\ v \in Nat /\ w \in Nat
    OBVIOUS
  <2>2. /\ u <= v /\ v <= w
        /\ a * q < b * p => u < v
        /\ b * r < d * q => v < w
    BY <1>3, <1>4, <1>5
  <2>3. u = (a * r) * q /\ w = (d * p) * q
    BY <1>5
  <2> HIDE DEF u, v, w
  <2>4. u <= w /\ (u < v \/ v < w => u < w)
    BY <2>1, <2>2
  <2> QED BY <2>2, <2>3, <2>4
<1>7. /\ a * r <= d * p
      /\ (a * r) * q < (d * p) * q => a * r < d * p
  <2> DEFINE u == a * r
             v == d * p
  <2>1. u \in Nat /\ v \in Nat /\ u * q <= v * q
    BY <1>1, <1>6
  <2> HIDE DEF u, v
  <2>2. u <= v /\ (u * q < v * q => u < v)
    <3>1. u > v => u >= v + 1
      BY <2>1
    <3>2. u >= v + 1 => u * q >= (v + 1) * q
      BY <2>1
    <3>3. (v + 1) * q = v * q + q
      BY <2>1
    <3>4. u * q \in Nat /\ v * q \in Nat
      BY <2>1
    <3> QED BY <2>1, <3>1, <3>2, <3>3, <3>4
  <2> QED BY <2>2 DEF u, v
<1> QED BY <1>2, <1>6, <1>7

-----------------------------------------------------------------------------
(* Going round a finite list.  How far a place is from a cursor, which may  *)
(* be past the end, in a list of n.                                         *)
Away(place, cursor, n) == (place + n - (cursor % n)) % n

LEMMA AwayFacts ==
    ASSUME NEW n \in Nat \ {0}, NEW p \in 0 .. n - 1, NEW c \in Nat
    PROVE  /\ c % n \in 0 .. n - 1
           /\ Away(p, c, n) \in 0 .. n - 1
           /\ Away(p, c, n) = IF p >= c % n THEN p - (c % n) ELSE p + n - (c % n)
<1> DEFINE s == c % n
<1>1. s \in 0 .. n - 1
  BY RemainderSucc
<1> HIDE DEF s
<1>2. CASE p >= s
  <2>1. p + n - s = n * 1 + (p - s) /\ p + n - s \in Nat /\ p - s \in 0 .. n - 1
    BY <1>1, <1>2
  <2>2. (p + n - s) % n = p - s
    BY <2>1, Remainder
  <2> QED BY <1>1, <1>2, <2>1, <2>2 DEF Away, s
<1>3. CASE ~(p >= s)
  <2>1. p + n - s = n * 0 + (p + n - s) /\ p + n - s \in Nat /\ p + n - s \in 0 .. n - 1
    BY <1>1, <1>3
  <2>2. (p + n - s) % n = p + n - s
    BY <2>1, Remainder
  <2> QED BY <1>1, <1>3, <2>1, <2>2 DEF Away, s
<1> QED BY <1>2, <1>3

(* A cursor within the list is where it says. *)
LEMMA Within == ASSUME NEW n \in Nat \ {0}, NEW c \in 0 .. n - 1 PROVE c % n = c
<1>1. c = n * 0 + c
  OBVIOUS
<1> QED BY <1>1, Remainder

(* Two places that are equally far from a cursor are one. *)
LEMMA AwayInjects ==
    ASSUME NEW n \in Nat \ {0}, NEW p \in 0 .. n - 1, NEW q \in 0 .. n - 1, NEW c \in Nat,
           Away(p, c, n) = Away(q, c, n)
    PROVE  p = q
<1> DEFINE s == c % n
<1>1. /\ s \in 0 .. n - 1
      /\ Away(p, c, n) = IF p >= s THEN p - s ELSE p + n - s
      /\ Away(q, c, n) = IF q >= s THEN q - s ELSE q + n - s
  BY AwayFacts
<1>2. /\ p - s = q - s => p = q
      /\ p + n - s = q + n - s => p = q
      /\ p >= s /\ ~(q >= s) => p - s # q + n - s
      /\ ~(p >= s) /\ q >= s => p + n - s # q - s
  <2> HIDE DEF s
  <2> QED BY <1>1
<1> HIDE DEF s
<1> QED BY <1>1, <1>2

(* The distance of a place is what takes the cursor there, up to rounds.   *)
LEMMA AwayIs ==
    ASSUME NEW n \in Nat \ {0}, NEW p \in 0 .. n - 1, NEW c \in Nat, NEW d \in 0 .. n - 1,
           NEW x \in Int, p + n * x = c + d
    PROVE  Away(p, c, n) = d
<1> DEFINE s == c % n
<1>1. PICK u \in Nat, r \in 0 .. n - 1 : c = n * u + r
  BY Quotient
<1>2. s = r /\ s \in 0 .. n - 1
  BY <1>1, Remainder
<1> DEFINE y == u + 1 - x
<1>3. p + n - s = n * y + d
  <2>1. n * u \in Int /\ n * x \in Int /\ n * y = n * u + n - n * x
    BY <1>1
  <2> DEFINE nu == n * u
             nx == n * x
             ny == n * y
  <2>2. nu \in Int /\ nx \in Int /\ ny = nu + n - nx /\ c = nu + s /\ p + nx = c + d
    BY <1>1, <1>2, <2>1
  <2> HIDE DEF nu, nx, ny, s, y
  <2>3. p + n - s = ny + d
    BY <1>2, <2>2
  <2> QED BY <2>3 DEF ny
<1>4. p + n - s \in Nat /\ y \in Int
  BY <1>1, <1>2
<1> HIDE DEF s, y
<1>5. (p + n - s) % n = d
  BY <1>3, <1>4, Remainder
<1> QED BY <1>5 DEF Away, s

LEMMA AwayTakesThere ==
    ASSUME NEW n \in Nat \ {0}, NEW p \in 0 .. n - 1, NEW c \in Nat
    PROVE  \E x \in Int : p + n * x = c + Away(p, c, n)
<1> DEFINE s == c % n
           a == Away(p, c, n)
<1>1. s \in 0 .. n - 1 /\ a \in 0 .. n - 1 /\ a = IF p >= s THEN p - s ELSE p + n - s
  BY AwayFacts
<1>2. PICK u \in Nat, r \in 0 .. n - 1 : c = n * u + r
  BY Quotient
<1>3. s = r
  BY <1>2, Remainder
<1> DEFINE x == IF p >= s THEN u ELSE u + 1
<1>4. x \in Int
  BY <1>2
<1>5. p + n * x = c + a
  <2>1. n * u \in Int /\ n * (u + 1) = n * u + n
    BY <1>2
  <2> DEFINE nu == n * u
  <2>2. nu \in Int /\ n * x = IF p >= s THEN nu ELSE nu + n
    BY <2>1
  <2>3. c = nu + s
    BY <1>2, <1>3
  <2> HIDE DEF nu, a, s, x
  <2> QED BY <1>1, <2>2, <2>3
<1> QED BY <1>4, <1>5

(* A cursor that goes on by k comes nearer by k to whatever it has not     *)
(* reached, and has the rest of the round to go to what it has passed.     *)
LEMMA GoesOn ==
    ASSUME NEW n \in Nat \ {0}, NEW p \in 0 .. n - 1, NEW c \in Nat, NEW k \in Nat
    PROVE  /\ Away(p, c, n) >= k => Away(p, c + k, n) = Away(p, c, n) - k
           /\ k <= n /\ Away(p, c, n) < k => Away(p, c + k, n) = Away(p, c, n) + n - k
<1> DEFINE a == Away(p, c, n)
<1>1. a \in 0 .. n - 1
  BY AwayFacts
<1>2. PICK x \in Int : p + n * x = c + a
  BY AwayTakesThere
<1>3. n * x \in Int /\ n * (x + 1) = n * x + n /\ x + 1 \in Int /\ c + k \in Nat
  BY <1>2
<1> DEFINE nx == n * x
<1> HIDE DEF a
<1>4. ASSUME a >= k PROVE Away(p, c + k, n) = a - k
  <2> DEFINE d == a - k
             e == c + k
  <2>1. d \in 0 .. n - 1 /\ e \in Nat
    BY <1>1, <1>3, <1>4
  <2>2. p + n * x = e + d
    <3>1. nx \in Int /\ p + nx = c + a
      BY <1>2, <1>3
    <3> HIDE DEF nx
    <3>2. p + nx = e + d
      BY <1>1, <3>1
    <3> QED BY <3>2 DEF nx
  <2> HIDE DEF d, e
  <2>3. Away(p, e, n) = d
    BY <1>2, <2>1, <2>2, AwayIs
  <2> QED BY <2>3 DEF d, e
<1>5. ASSUME k <= n, a < k PROVE Away(p, c + k, n) = a + n - k
  <2> DEFINE d == a + n - k
             e == c + k
             y == x + 1
  <2>1. d \in 0 .. n - 1 /\ e \in Nat /\ y \in Int
    BY <1>1, <1>3, <1>5
  <2>2. p + n * y = e + d
    <3>1. nx \in Int /\ p + nx = c + a /\ n * y = nx + n
      BY <1>2, <1>3
    <3> HIDE DEF nx, y
    <3> QED BY <1>1, <3>1
  <2> HIDE DEF d, e, y
  <2>3. Away(p, e, n) = d
    BY <2>1, <2>2, AwayIs
  <2> QED BY <2>3 DEF d, e
<1> QED BY <1>4, <1>5 DEF a

(* It makes no difference whether the cursor was brought back into the     *)
(* list before it went on, or after.                                       *)
LEMMA RoundAgain ==
    ASSUME NEW n \in Nat \ {0}, NEW c \in Nat, NEW k \in Nat
    PROVE  ((c % n) + k) % n = (c + k) % n
<1> DEFINE s == c % n
           e == s + k
<1>1. PICK u \in Nat, r \in 0 .. n - 1 : c = n * u + r
  BY Quotient
<1>2. s = r
  BY <1>1, Remainder
<1>3. e \in Nat
  BY <1>2
<1>4. PICK v \in Nat, t \in 0 .. n - 1 : e = n * v + t
  <2> HIDE DEF e
  <2> QED BY <1>3, Quotient
<1>5. e % n = t
  <2> HIDE DEF e
  <2> QED BY <1>3, <1>4, Remainder
<1> DEFINE w == u + v
           h == c + k
<1>6. h = n * w + t /\ h \in Nat /\ w \in Int
  <2>1. n * u \in Int /\ n * v \in Int /\ n * w = n * u + n * v
    BY <1>1, <1>4
  <2> DEFINE nu == n * u
             nv == n * v
  <2>2. /\ nu \in Int /\ nv \in Int /\ n * w = nu + nv
        /\ c = nu + s /\ e = nv + t /\ s \in Int
    <3> HIDE DEF w, e, s
    <3> QED BY <1>1, <1>2, <1>4, <2>1
  <2>3. h = nu + nv + t
    <3> HIDE DEF nu, nv, s
    <3> QED BY <2>2, <1>4
  <2>4. h \in Nat /\ w \in Int
    BY <1>1, <1>4
  <2> QED BY <2>2, <2>3, <2>4
<1>7. h % n = t
  <2> HIDE DEF h, w
  <2> QED BY <1>6, Remainder
<1> QED BY <1>5, <1>7

(* The places of a finite list are all taken, each once.                   *)
IsPlacing(p, S) ==
    /\ p \in [S -> 0 .. Cardinality(S) - 1]
    /\ \A x, y \in S : p[x] = p[y] => x = y

(* So of those from c on there are no more than places from c on, and of   *)
(* those before c as many as places.                                       *)
LEMMA PlacesBelow ==
    ASSUME NEW S, IsFiniteSet(S), NEW p, IsPlacing(p, S), NEW c \in 0 .. Cardinality(S)
    PROVE  /\ IsFiniteSet({x \in S : p[x] < c})
           /\ Cardinality({x \in S : p[x] < c}) = c
<1> DEFINE n == Cardinality(S)
           L == {x \in S : p[x] < c}
           H == {x \in S : p[x] >= c}
           l == [x \in L |-> p[x]]
           h == [x \in H |-> p[x]]
<1>1. n \in Nat /\ c \in Nat /\ c <= n /\ \A x \in S : p[x] \in 0 .. n - 1
  BY FS_CardinalityType DEF IsPlacing
<1>2. /\ IsFiniteSet(L) /\ IsFiniteSet(H)
      /\ Cardinality(L) \in Nat /\ Cardinality(H) \in Nat
  BY FS_Subset, FS_CardinalityType
<1>3. Cardinality(L) <= c
  <2>1. l \in [L -> 0 .. c - 1]
    BY <1>1
  <2>2. \A x, y \in L : l[x] = l[y] => x = y
    BY DEF IsPlacing
  <2>3. IsFiniteSet(0 .. c - 1) /\ Cardinality(0 .. c - 1) = c
    <3>1. c \in Nat /\ c - 1 \in Int /\ 0 \in Int
      BY <1>1
    <3>2. IsFiniteSet(0 .. c - 1) /\ Cardinality(0 .. c - 1) = IF 0 > c - 1 THEN 0 ELSE c - 1 - 0 + 1
      BY <3>1, FS_Interval
    <3> QED BY <3>1, <3>2
  <2> HIDE DEF L, l
  <2> QED BY <2>1, <2>2, <2>3, Injects
<1>4. Cardinality(H) <= n - c
  <2>1. h \in [H -> c .. n - 1]
    BY <1>1
  <2>2. \A x, y \in H : h[x] = h[y] => x = y
    BY DEF IsPlacing
  <2>3. IsFiniteSet(c .. n - 1) /\ Cardinality(c .. n - 1) = n - c
    <3>1. c \in Nat /\ n \in Nat /\ c <= n /\ n - 1 \in Int
      BY <1>1
    <3> HIDE DEF n
    <3>2. IsFiniteSet(c .. n - 1)
          /\ Cardinality(c .. n - 1) = IF c > n - 1 THEN 0 ELSE n - 1 - c + 1
      BY <3>1, FS_Interval
    <3> QED BY <3>1, <3>2
  <2> HIDE DEF H, h, n
  <2> QED BY <2>1, <2>2, <2>3, Injects
<1>5. n = Cardinality(L) + Cardinality(H)
  <2>1. S = L \cup H /\ L \cap H = {}
    BY <1>1
  <2>2. Cardinality(L \cup H) = Cardinality(L) + Cardinality(H) - Cardinality(L \cap H)
    BY <1>2, FS_Union
  <2>3. Cardinality(L \cap H) = 0
    BY <2>1, FS_EmptySet
  <2> HIDE DEF L, H
  <2> QED BY <1>2, <2>1, <2>2, <2>3
<1> HIDE DEF L, H, n
<1> QED BY <1>1, <1>2, <1>3, <1>4, <1>5 DEF L

(* Those that come before r, seen from the cursor, in one list and not in  *)
(* the other.                                                              *)
Skipped(E, pe, F, pf, c, r) ==
    {x \in E \cap F : /\ Away(pe[x], c, Cardinality(E)) < Away(pe[r], c, Cardinality(E))
                      /\ ~(Away(pf[x], c, Cardinality(F)) < Away(pf[r], c, Cardinality(F)))}

(* A list loses some of its elements and gets others at its end, and the   *)
(* cursor stays the number it was.  Of the elements that were before r,    *)
(* seen from the cursor, no more come to be behind it than were lost.      *)
LEMMA SkipsFew ==
    ASSUME NEW E, IsFiniteSet(E), NEW pe, IsPlacing(pe, E),
           NEW F, IsFiniteSet(F), NEW pf, IsPlacing(pf, F),
           \A x \in E \cap F : \A y \in F : pf[y] < pf[x] => y \in E,
           \A x, y \in E \cap F : pe[y] < pe[x] <=> pf[y] < pf[x],
           NEW c \in 0 .. Cardinality(E) - 1, NEW r \in E \cap F
    PROVE  Cardinality(Skipped(E, pe, F, pf, c, r)) <= Cardinality(E \ F)
<1> DEFINE n == Cardinality(E)
           f == Cardinality(F)
           Old == E \cap F
           Low == {x \in E : pe[x] < c}
           Kept == {x \in Old : pe[x] < c}
           z == Cardinality(Kept)
           k == c - z
           Lost == {x \in Old : /\ Away(pe[x], c, n) < Away(pe[r], c, n)
                                /\ ~(Away(pf[x], c, f) < Away(pf[r], c, f))}
<1>1. /\ n \in Nat \ {0} /\ f \in Nat \ {0} /\ c \in 0 .. n - 1 /\ c \in Nat
      /\ \A x \in Old : pe[x] \in 0 .. n - 1 /\ pf[x] \in 0 .. f - 1
      /\ \A x \in E : pe[x] \in 0 .. n - 1
      /\ \A x \in F : pf[x] \in 0 .. f - 1
  <2>1. E # {} /\ F # {}
    OBVIOUS
  <2>2. n \in Nat \ {0} /\ f \in Nat \ {0}
    BY <2>1, FS_CardinalityType, FS_EmptySet
  <2> QED BY <2>2 DEF IsPlacing
<1>2. /\ IsFiniteSet(Low) /\ Cardinality(Low) = c
      /\ IsFiniteSet(Kept) /\ z \in Nat
      /\ IsFiniteSet(E \ F) /\ Cardinality(E \ F) \in Nat
      /\ IsFiniteSet(Old)
  <2>1. IsFiniteSet(Low) /\ Cardinality(Low) = c
    BY <1>1, PlacesBelow
  <2>2. IsFiniteSet(Kept) /\ IsFiniteSet(E \ F) /\ IsFiniteSet(Old)
    BY FS_Subset
  <2> QED BY <2>1, <2>2, FS_CardinalityType
<1>3. k \in 0 .. Cardinality(E \ F)
  <2>1. z <= c
    <3>1. Kept \in SUBSET Low
      OBVIOUS
    <3> QED BY <1>2, <3>1, FS_Subset
  <2>2. c <= z + Cardinality(E \ F)
    <3> DEFINE U == Kept \cup (E \ F)
    <3>1. Low \in SUBSET U
      OBVIOUS
    <3>2. /\ IsFiniteSet(U) /\ Cardinality(U) = z + Cardinality(E \ F) - Cardinality(Kept \cap (E \ F))
      BY <1>2, FS_Union
    <3>3. Cardinality(Kept \cap (E \ F)) = 0
      <4>1. Kept \cap (E \ F) = {}
        OBVIOUS
      <4> QED BY <4>1, FS_EmptySet
    <3>4. Cardinality(Low) <= Cardinality(U)
      BY <3>1, <3>2, FS_Subset
    <3> HIDE DEF U, Low, Kept
    <3> QED BY <1>1, <1>2, <3>2, <3>3, <3>4
  <2> HIDE DEF z
  <2> QED BY <1>1, <1>2, <2>1, <2>2
<1>4. ASSUME NEW x \in Old, pe[x] >= c PROVE pf[x] >= z
  <2> DEFINE B == {y \in F : pf[y] < pf[x]}
  <2>1. IsFiniteSet(B) /\ Cardinality(B) = pf[x]
    <3>1. pf[x] \in 0 .. f
      BY <1>1
    <3> QED BY <3>1, PlacesBelow
  <2>2. Kept \in SUBSET B
    <3> SUFFICES ASSUME NEW y \in Kept PROVE pf[y] < pf[x]
      OBVIOUS
    <3>1. y \in Old /\ pe[y] < pe[x]
      BY <1>1, <1>4
    <3> QED BY <3>1
  <2> QED BY <1>1, <1>2, <2>1, <2>2, FS_Subset
<1>5. ASSUME NEW x \in Old, ~(pe[x] >= c) PROVE pf[x] < z
  <2> DEFINE B == {y \in F : pf[y] < pf[x]}
  <2>1. IsFiniteSet(B) /\ Cardinality(B) = pf[x] /\ x \notin B
    <3>1. pf[x] \in 0 .. f
      BY <1>1
    <3>2. x \notin B
      BY <1>1
    <3> QED BY <3>1, <3>2, PlacesBelow
  <2>2. B \cup {x} \in SUBSET Kept
    <3>1. x \in Kept
      BY <1>1, <1>5
    <3>2. ASSUME NEW y \in B PROVE y \in Kept
      <4>1. y \in Old /\ pe[y] < pe[x]
        BY <3>2
      <4> QED BY <1>1, <1>5, <4>1
    <3> QED BY <3>1, <3>2
  <2>3. Cardinality(B \cup {x}) = pf[x] + 1
    BY <2>1, FS_AddElement
  <2>4. Cardinality(B \cup {x}) <= z
    BY <1>2, <2>2, FS_Subset
  <2> QED BY <1>1, <1>2, <2>3, <2>4
<1>6. z \in 0 .. f
  <2>1. Kept \in SUBSET F
    OBVIOUS
  <2>2. z <= f
    BY <2>1, FS_Subset
  <2> QED BY <1>1, <1>2, <2>2
<1>7. ASSUME NEW x \in Old, NEW y \in Old, Away(pe[x], c, n) < Away(pe[y], c, n)
      PROVE  Away(pf[x], z, f) < Away(pf[y], z, f)
  <2>1. /\ Away(pe[x], c, n) = IF pe[x] >= c THEN pe[x] - c ELSE pe[x] + n - c
        /\ Away(pe[y], c, n) = IF pe[y] >= c THEN pe[y] - c ELSE pe[y] + n - c
    <3>1. c % n = c
      BY <1>1, Within
    <3>2. pe[x] \in 0 .. n - 1 /\ pe[y] \in 0 .. n - 1
      BY <1>1
    <3> HIDE DEF n
    <3>3. \A p \in 0 .. n - 1 :
             Away(p, c, n) = IF p >= c % n THEN p - (c % n) ELSE p + n - (c % n)
      BY <1>1, AwayFacts
    <3>4. \A p \in 0 .. n - 1 : Away(p, c, n) = IF p >= c THEN p - c ELSE p + n - c
      BY <3>1, <3>3
    <3> QED BY <3>2, <3>4
  <2> DEFINE s == z % f
  <2>2. /\ Away(pf[x], z, f) = IF pf[x] >= s THEN pf[x] - s ELSE pf[x] + f - s
        /\ Away(pf[y], z, f) = IF pf[y] >= s THEN pf[y] - s ELSE pf[y] + f - s
    BY <1>1, <1>2, AwayFacts
  <2>3. /\ pe[x] >= c <=> pf[x] >= z
        /\ pe[y] >= c <=> pf[y] >= z
    <3>1. z \in Nat /\ pf[x] \in Nat /\ pf[y] \in Nat
      BY <1>1, <1>2
    <3> QED BY <1>4, <1>5, <3>1
  <2>4. z < f => s = z
    BY <1>1, <1>2, Within
  <2>5. z = f => s = 0
    <3>1. f = f * 1 + 0 /\ 0 \in 0 .. f - 1 /\ 1 \in Int
      BY <1>1
    <3> HIDE DEF f, z
    <3>2. f % f = 0
      BY <1>1, <3>1, Remainder
    <3> QED BY <3>2
  <2>6. pe[x] < pe[y] <=> pf[x] < pf[y]
    OBVIOUS
  <2>7. /\ pe[x] \in 0 .. n - 1 /\ pf[x] \in 0 .. f - 1
        /\ pe[y] \in 0 .. n - 1 /\ pf[y] \in 0 .. f - 1
    BY <1>1
  <2> DEFINE ax == pe[x]
             ay == pe[y]
             bx == pf[x]
             by == pf[y]
  <2>8. IF ax >= c THEN ay >= c => bx < by ELSE ~(ay >= c) /\ bx < by
    <3> HIDE DEF n, f
    <3> QED BY <1>1, <1>7, <2>1, <2>6, <2>7
  <2> HIDE DEF n, f, z, s, ax, ay, bx, by
  <2> QED BY <1>1, <1>6, <2>2, <2>3, <2>4, <2>5, <2>7, <2>8 DEF ax, ay, bx, by
<1>8. ASSUME NEW x \in Lost PROVE Away(pf[x], z, f) \in 0 .. k - 1
  <2>1. x \in Old /\ r \in Old /\ Away(pf[x], z, f) < Away(pf[r], z, f)
    BY <1>7
  <2>2. Away(pf[x], z, f) \in 0 .. f - 1 /\ Away(pf[r], z, f) \in 0 .. f - 1
    BY <1>1, <1>2, <2>1, AwayFacts
  <2>3. ASSUME Away(pf[x], z, f) >= k PROVE FALSE
    <3>1. z + k = c /\ k \in Nat
      <4> HIDE DEF z
      <4> QED BY <1>1, <1>2, <1>3
    <3>2. Away(pf[r], z, f) >= k
      <4> HIDE DEF k
      <4> QED BY <2>1, <2>2, <2>3, <3>1
    <3>3. /\ Away(pf[x], z + k, f) = Away(pf[x], z, f) - k
          /\ Away(pf[r], z + k, f) = Away(pf[r], z, f) - k
      <4> HIDE DEF k, z, f
      <4> QED BY <1>1, <1>2, <2>1, <2>3, <3>1, <3>2, GoesOn
    <3>4. Away(pf[x], c, f) < Away(pf[r], c, f)
      <4> HIDE DEF k, z, f
      <4> QED BY <2>1, <2>2, <3>1, <3>3
    <3> QED BY <3>4
  <2> HIDE DEF k, z, f
  <2> QED BY <1>3, <2>2, <2>3
<1>9. Cardinality(Lost) <= k
  <2> DEFINE h == [x \in Lost |-> Away(pf[x], z, f)]
  <2>1. h \in [Lost -> 0 .. k - 1]
    BY <1>8
  <2>2. \A x, y \in Lost : h[x] = h[y] => x = y
    <3> SUFFICES ASSUME NEW x \in Lost, NEW y \in Lost, h[x] = h[y] PROVE x = y
      OBVIOUS
    <3>1. x \in Old /\ y \in Old /\ Away(pf[x], z, f) = Away(pf[y], z, f)
      OBVIOUS
    <3> HIDE DEF z, f, h, Lost
    <3>2. pf[x] = pf[y]
      BY <1>1, <1>2, <3>1, AwayInjects
    <3> QED BY <3>1, <3>2 DEF IsPlacing
  <2>3. IsFiniteSet(0 .. k - 1) /\ Cardinality(0 .. k - 1) = k
    <3> HIDE DEF k
    <3>1. k \in Nat /\ k - 1 \in Int /\ 0 \in Int
      BY <1>2, <1>3
    <3>2. IsFiniteSet(0 .. k - 1) /\ Cardinality(0 .. k - 1) = IF 0 > k - 1 THEN 0 ELSE k - 1 - 0 + 1
      BY <3>1, FS_Interval
    <3> QED BY <3>1, <3>2
  <2> HIDE DEF h, Lost, k
  <2> QED BY <2>1, <2>2, <2>3, Injects
<1>10. Cardinality(Lost) \in Nat
  <2>1. Lost \in SUBSET Old
    OBVIOUS
  <2> QED BY <1>2, <2>1, FS_Subset, FS_CardinalityType
<1>11. Skipped(E, pe, F, pf, c, r) = Lost
  BY DEF Skipped
<1> HIDE DEF k, Lost
<1> QED BY <1>2, <1>3, <1>9, <1>10, <1>11

(* Folding a sequence from its first element on, as SequencesExt defines   *)
(* it: over the subsets of its places, the largest place last.             *)
Largest(d) == CHOOSE x \in d : \A y \in d : x >= y

PlaceFold(g, q, base, step) ==
    \A d \in SUBSET (1 .. Len(q)) :
        g[d] = IF d = {} THEN base ELSE step[g[d \ {Largest(d)}]][q[Largest(d)]]

(* A set of places has a largest one; of the first k that is k. *)
LEMMA LargestPlace ==
    ASSUME NEW n \in Nat
    PROVE  /\ \A d \in SUBSET (1 .. n) : d # {} => Largest(d) \in d
           /\ \A k \in 1 .. n : Largest(1 .. k) = k /\ (1 .. k) \ {k} = 1 .. k - 1
<1>1. ASSUME NEW d \in SUBSET (1 .. n), d # {} PROVE Largest(d) \in d
  <2>1. d \subseteq Nat /\ d \subseteq 0 .. n
    BY <1>1
  <2>2. \E x \in d : \A y \in d : y <= x
    BY <1>1, <2>1, GreatestNatural
  <2>3. \E x \in d : \A y \in d : x >= y
    BY <2>1, <2>2
  <2> QED BY <2>3 DEF Largest
<1>2. ASSUME NEW k \in 1 .. n PROVE Largest(1 .. k) = k /\ (1 .. k) \ {k} = 1 .. k - 1
  <2>1. k \in 1 .. k /\ \A x \in 1 .. k : (\A y \in 1 .. k : x >= y) <=> x = k
    OBVIOUS
  <2>2. Largest(1 .. k) = k
    BY <2>1 DEF Largest
  <2> QED BY <2>2
<1> QED BY <1>1, <1>2

(* The places up to one of them.                                           *)
LEMMA UpToPlace ==
    ASSUME NEW n \in Nat
    PROVE  \A k \in 1 .. n : k \in 0 .. n /\ k - 1 \in 0 .. n /\ 1 .. k # {}
<1> TAKE k \in 1 .. n
<1>1. k \in 1 .. k
  OBVIOUS
<1> QED BY <1>1

(* Two chains that begin alike and go on alike are alike.                  *)
GoAlike(f, g, n) ==
    f[0] = g[0] /\ \A k \in 1 .. n : f[k - 1] = g[k - 1] => f[k] = g[k]

LEMMA SameChain ==
    ASSUME NEW n \in Nat, NEW f, NEW g, GoAlike(f, g, n)
    PROVE  \A k \in 0 .. n : f[k] = g[k]
<1> DEFINE Bad == {k \in 0 .. n : f[k] # g[k]}
<1> SUFFICES ASSUME Bad # {} PROVE FALSE
  OBVIOUS
<1>1. PICK m \in Bad : \A k \in Bad : m <= k
  <2>1. Bad \subseteq Nat
    OBVIOUS
  <2> HIDE DEF Bad
  <2> QED BY <2>1, LeastNatural
<1>2. m \in 1 .. n /\ f[m] # g[m]
  BY <1>1 DEF GoAlike
<1>3. m - 1 \in 0 .. n /\ ~ (m <= m - 1)
  BY <1>2
<1>4. m - 1 \notin Bad
  <2> HIDE DEF Bad
  <2> QED BY <1>1, <1>3
<1> QED BY <1>2, <1>3, <1>4 DEF GoAlike

(* A fold over the places of a sequence exists. *)
LEMMA PlaceFoldExists ==
    ASSUME NEW T, NEW S, NEW q \in Seq(T), NEW base \in S,
           NEW step, \A s \in S : \A r \in T : step[s][r] \in S
    PROVE  \E g \in [SUBSET (1 .. Len(q)) -> S] : PlaceFold(g, q, base, step)
<1> DEFINE D == 1 .. Len(q)
           pick == [d \in SUBSET D |-> Largest(d)]
           turn == [x \in D |-> [s \in S |-> step[s][q[x]]]]
<1>1. Len(q) \in Nat /\ IsFiniteSet(D)
  BY FS_Interval
<1>2. \A d \in SUBSET D : d # {} => pick[d] \in d
  BY <1>1, LargestPlace
<1>3. \A x \in D : \A s \in S : turn[x][s] = step[s][q[x]] /\ turn[x][s] \in S
  OBVIOUS
<1>4. PICK g \in [SUBSET D -> S] : FoldOf(g, D, base, pick, turn)
  <2> HIDE DEF pick, turn, D
  <2> QED BY <1>1, <1>2, <1>3, FoldExists
<1>5. ASSUME NEW d \in SUBSET D
      PROVE  g[d] = IF d = {} THEN base ELSE step[g[d \ {Largest(d)}]][q[Largest(d)]]
  <2>1. g[d] = IF d = {} THEN base ELSE turn[pick[d]][g[d \ {pick[d]}]]
    <3> HIDE DEF pick, turn, D
    <3> QED BY <1>4 DEF FoldOf
  <2>2. d # {} => pick[d] \in D /\ g[d \ {pick[d]}] \in S
    <3>1. d # {} => pick[d] \in D /\ d \ {pick[d]} \in SUBSET D
      BY <1>2
    <3> HIDE DEF pick, D
    <3> QED BY <3>1
  <2>3. pick[d] = Largest(d)
    OBVIOUS
  <2> HIDE DEF pick, turn, D
  <2> QED BY <1>3, <2>1, <2>2, <2>3
<1> QED BY <1>5 DEF PlaceFold

(* Read along the first places it is a chain.                              *)
ChainOf(f, g, q, base, step) ==
    /\ f[0] = base /\ \A k \in 1 .. Len(q) : f[k] = step[f[k - 1]][q[k]]
    /\ \A k \in 0 .. Len(q) : f[k] = g[1 .. k]

LEMMA PlaceFoldIsChain ==
    ASSUME NEW T, NEW S, NEW q \in Seq(T), NEW base \in S,
           NEW step, \A s \in S : \A r \in T : step[s][r] \in S
    PROVE  \E g \in [SUBSET (1 .. Len(q)) -> S] : \E f \in [0 .. Len(q) -> S] :
              PlaceFold(g, q, base, step) /\ ChainOf(f, g, q, base, step)
<1>1. Len(q) \in Nat
  OBVIOUS
<1>2. PICK g \in [SUBSET (1 .. Len(q)) -> S] : PlaceFold(g, q, base, step)
  BY PlaceFoldExists
<1> DEFINE f == [k \in 0 .. Len(q) |-> g[1 .. k]]
<1>3. /\ f \in [0 .. Len(q) -> S]
      /\ \A k \in 0 .. Len(q) : 1 .. k \in SUBSET (1 .. Len(q)) /\ f[k] = g[1 .. k]
  BY <1>1
<1> HIDE DEF f
<1>4. f[0] = base
  <2>1. 1 .. 0 = {} /\ 0 \in 0 .. Len(q)
    BY <1>1
  <2> QED BY <1>2, <1>3, <2>1 DEF PlaceFold
<1>5. ASSUME NEW k \in 1 .. Len(q) PROVE f[k] = step[f[k - 1]][q[k]]
  <2>1. k \in 0 .. Len(q) /\ k - 1 \in 0 .. Len(q) /\ 1 .. k # {}
    BY <1>1
  <2>2. Largest(1 .. k) = k /\ (1 .. k) \ {k} = 1 .. k - 1
    BY <1>1, LargestPlace
  <2>3. g[1 .. k] = step[g[(1 .. k) \ {Largest(1 .. k)}]][q[Largest(1 .. k)]]
    BY <1>2, <1>3, <2>1 DEF PlaceFold
  <2> QED BY <1>3, <2>1, <2>2, <2>3
<1> QED BY <1>2, <1>3, <1>4, <1>5 DEF ChainOf

=============================================================================
