---------------------------- MODULE SequenceLemmas ----------------------------
(***************************************************************************)
(* What the proofs about single components need to know of numbers and of  *)
(* the operators on sets and sequences that the models use.                *)
(***************************************************************************)
EXTENDS Integers, Sequences, FiniteSetsExt, SequencesExt,
        SequenceTheorems, FiniteSetTheorems, TLAPS

(******************************** Numbers ***********************************)

(* A set of natural numbers that is not empty has a least element: the     *)
(* initial segments of its members are finite and well-founded by \subseteq. *)
LEMMA LeastNat ==
    ASSUME NEW T \in SUBSET Nat, T # {}
    PROVE  \E m \in T : \A k \in T : m <= k
<1> DEFINE Below == {0..m : m \in T}
<1>1. Below \subseteq FiniteSubsetsOf(Nat) /\ Below # {}
  <2>1. \A m \in T : 0..m \subseteq Nat /\ IsFiniteSet(0..m)
    BY FS_Interval
  <2> QED
    BY <2>1 DEF FiniteSubsetsOf
<1>2. IsWellFoundedOn(StrictSubsetOrdering(Nat), FiniteSubsetsOf(Nat))
    BY FS_StrictSubsetOrderingWellFounded
<1>3. PICK B \in Below : \A C \in Below : ~ (<<C, B>> \in StrictSubsetOrdering(Nat))
    BY <1>1, <1>2, WFMin
<1>4. PICK m \in T : B = 0..m
    OBVIOUS
<1>5. ASSUME NEW k \in T PROVE m <= k
  <2>1. 0..k \in Below /\ ~ (<<0..k, 0..m>> \in StrictSubsetOrdering(Nat))
    BY <1>3, <1>4
  <2>2. 0..k \in SUBSET Nat /\ 0..m \in SUBSET Nat
    OBVIOUS
  <2>3. ~ (0..k \subseteq 0..m) \/ 0..k = 0..m
    BY <2>1, <2>2 DEF StrictSubsetOrdering
  <2> QED
    BY <2>3
<1> QED
    BY <1>4, <1>5

(* A set of natural numbers up to n that is not empty has a greatest one. *)
LEMMA GreatestNat ==
    ASSUME NEW n \in Nat, NEW T \in SUBSET (1..n), T # {}
    PROVE  \E m \in T : \A k \in T : k <= m
<1> DEFINE Below == {i \in 0..n : n - i \in T}
<1>1. PICK t \in T : TRUE
    OBVIOUS
<1>2. Below \in SUBSET Nat /\ Below # {}
  <2>1. n - t \in 0..n /\ n - (n - t) = t
    OBVIOUS
  <2>2. n - t \in Below
    BY <2>1
  <2>3. Below \subseteq Nat
    OBVIOUS
  <2> QED
    BY <2>2, <2>3
<1>3. PICK i \in Below : \A j \in Below : i <= j
    BY <1>2, LeastNat
<1>4. ASSUME NEW k \in T PROVE k <= n - i
  <2>1. n - k \in 0..n /\ n - (n - k) = k
    OBVIOUS
  <2>2. n - k \in Below
    BY <2>1
  <2>3. i <= n - k
    BY <1>3, <2>2
  <2> QED
    BY <2>3, <1>3
<1> QED
    BY <1>3, <1>4

(* The smaller and the greater of two numbers. *)
LEMMA MinPair ==
    ASSUME NEW a \in Int, NEW b \in Int
    PROVE  Min({a, b}) = IF a <= b THEN a ELSE b
<1> DEFINE m == IF a <= b THEN a ELSE b
<1>1. m \in {a, b} /\ \A y \in {a, b} : m <= y
    OBVIOUS
<1>2. \A x \in {a, b} : (\A y \in {a, b} : x <= y) => x = m
    OBVIOUS
<1>3. Min({a, b}) \in {a, b} /\ \A y \in {a, b} : Min({a, b}) <= y
    BY <1>1 DEF Min
<1> QED
    BY <1>2, <1>3

LEMMA MaxPair ==
    ASSUME NEW a \in Int, NEW b \in Int
    PROVE  Max({a, b}) = IF a >= b THEN a ELSE b
<1> DEFINE m == IF a >= b THEN a ELSE b
<1>1. m \in {a, b} /\ \A y \in {a, b} : m >= y
    OBVIOUS
<1>2. \A x \in {a, b} : (\A y \in {a, b} : x >= y) => x = m
    OBVIOUS
<1>3. Max({a, b}) \in {a, b} /\ \A y \in {a, b} : Max({a, b}) >= y
    BY <1>1 DEF Max
<1> QED
    BY <1>2, <1>3

(* Products are ordered as their factors are. *)
LEMMA TimesLe ==
    ASSUME NEW a \in Nat, NEW b \in Nat, NEW c \in Nat, a <= b
    PROVE  a * c <= b * c
<1>1. PICK d \in Nat : d = b - a
    OBVIOUS
<1>2. b * c = a * c + d * c
    BY <1>1
<1>3. d * c \in Nat
    OBVIOUS
<1>4. a * c \in Nat /\ b * c \in Nat
    OBVIOUS
<1> QED
    BY <1>2, <1>3, <1>4

(* A positive factor is cancelled. *)
LEMMA TimesCancel ==
    ASSUME NEW a \in Nat, NEW b \in Nat, NEW c \in Nat \ {0}, a * c <= b * c
    PROVE  a <= b
<1> SUFFICES ASSUME b + 1 <= a
             PROVE  FALSE
    OBVIOUS
<1>1. (b + 1) * c <= a * c
    BY TimesLe
<1>2. (b + 1) * c = b * c + c
    OBVIOUS
<1>3. b * c \in Nat /\ a * c \in Nat
    OBVIOUS
<1> QED
    BY <1>1, <1>2, <1>3

(* A stake s is added to a quotient n over d of stakes, in a total T that  *)
(* may be more than the one of the others.                                 *)
LEMMA QuotientGrows ==
    ASSUME NEW n \in Nat, NEW d \in Nat, NEW a \in Nat, NEW s \in Nat,
           NEW t \in Nat, NEW u \in Nat, t <= u, n * t <= d * a
    PROVE  (n * u + s * d) * t <= (d * u) * (a + s)
<1>1. PICK x, y, z \in Nat : x = n * t /\ y = d * a /\ z = s * d
    OBVIOUS
<1>2. x * u <= y * u
    BY <1>1, TimesLe
<1>3. t * z <= u * z
    BY TimesLe
<1>4. (n * u + s * d) * t = x * u + t * z
    BY <1>1
<1>5. (d * u) * (a + s) = y * u + u * z
    BY <1>1
<1>6. x * u \in Nat /\ y * u \in Nat /\ t * z \in Nat /\ u * z \in Nat
    OBVIOUS
<1>7. x * u + t * z <= y * u + u * z
    BY <1>2, <1>3, <1>6
<1> QED
    BY <1>4, <1>5, <1>7

(* If the quotient n over d is enough, so is the stake a that it stands for.*)
LEMMA QuotientEnough ==
    ASSUME NEW n \in Nat, NEW d \in Nat \ {0}, NEW a \in Nat, NEW t \in Nat, NEW k \in Nat,
           n * t <= d * a, k * d <= 100 * n
    PROVE  k * t <= 100 * a
<1>1. PICK x, y, z, v \in Nat : x = n * t /\ y = d * a /\ z = k * d /\ v = 100 * n
    OBVIOUS
<1>2. z * t <= v * t
    BY <1>1, TimesLe
<1>3. z * t = (k * t) * d
    BY <1>1
<1>4. v * t = 100 * x
    BY <1>1
<1>5. 100 * y = (100 * a) * d
    BY <1>1
<1>6. 100 * x <= 100 * y
    BY <1>1
<1>7. k * t \in Nat /\ 100 * a \in Nat
    OBVIOUS
<1>8. (k * t) * d <= (100 * a) * d
    BY <1>2, <1>3, <1>4, <1>5, <1>6
<1> QED
    BY <1>7, <1>8, TimesCancel

-----------------------------------------------------------------------------
(************************ The elements of a sequence ************************)

(* The elements of a sequence are finitely many. *)
LEMMA ToSetProperties ==
    ASSUME NEW S, NEW s \in Seq(S)
    PROVE  /\ ToSet(s) = {s[i] : i \in 1..Len(s)}
           /\ ToSet(s) \subseteq S
           /\ IsFiniteSet(ToSet(s))
<1>1. ToSet(s) = {s[i] : i \in 1..Len(s)} /\ Len(s) \in Nat
    BY LenProperties DEF ToSet
<1>2. ToSet(s) \subseteq S
    BY <1>1, ElementOfSeq
<1>3. s \in Surjection(1..Len(s), ToSet(s))
    BY <1>1, LenProperties, Zenon DEF Surjection
<1>4. IsFiniteSet(1..Len(s))
    BY <1>1, FS_Interval
<1> QED
    BY <1>1, <1>2, <1>3, <1>4, FS_Surjection

LEMMA ToSetEmpty == ToSet(<< >>) = {}
BY DEF ToSet

LEMMA ToSetConcat ==
    ASSUME NEW S, NEW s \in Seq(S), NEW t \in Seq(S)
    PROVE  ToSet(s \o t) = ToSet(s) \cup ToSet(t)
<1>1. /\ s \o t \in Seq(S) /\ Len(s \o t) = Len(s) + Len(t)
      /\ Len(s) \in Nat /\ Len(t) \in Nat
      /\ \A i \in 1..Len(s) + Len(t) :
             (s \o t)[i] = IF i <= Len(s) THEN s[i] ELSE t[i - Len(s)]
    BY ConcatProperties, LenProperties
<1> DEFINE u == s \o t
<1>2. ToSet(u) = {u[i] : i \in 1..Len(s) + Len(t)}
  <2> HIDE DEF u
  <2>1. u \in Seq(S) /\ Len(u) = Len(s) + Len(t)
    BY <1>1 DEF u
  <2> QED
    BY <2>1, ToSetProperties
<1>3. ToSet(s) = {s[i] : i \in 1..Len(s)} /\ ToSet(t) = {t[i] : i \in 1..Len(t)}
    BY ToSetProperties
<1>4. ToSet(s \o t) \subseteq ToSet(s) \cup ToSet(t)
  <2> SUFFICES ASSUME NEW i \in 1..Len(s) + Len(t)
               PROVE  (s \o t)[i] \in ToSet(s) \cup ToSet(t)
    BY <1>2
  <2>1. CASE i <= Len(s)
    <3>1. i \in 1..Len(s) /\ (s \o t)[i] = s[i]
      BY <1>1, <2>1
    <3> QED
      BY <3>1, <1>3
  <2>2. CASE ~ (i <= Len(s))
    <3>1. i - Len(s) \in 1..Len(t) /\ (s \o t)[i] = t[i - Len(s)]
      BY <1>1, <2>2
    <3> QED
      BY <3>1, <1>3
  <2> QED
    BY <2>1, <2>2
<1>5. ToSet(s) \subseteq ToSet(s \o t)
  <2> SUFFICES ASSUME NEW i \in 1..Len(s)
               PROVE  s[i] \in ToSet(s \o t)
    BY <1>3
  <2>1. i \in 1..Len(s) + Len(t) /\ (s \o t)[i] = s[i]
    BY <1>1
  <2> QED
    BY <1>2, <2>1
<1>6. ToSet(t) \subseteq ToSet(s \o t)
  <2> SUFFICES ASSUME NEW i \in 1..Len(t)
               PROVE  t[i] \in ToSet(s \o t)
    BY <1>3
  <2>1. /\ Len(s) + i \in 1..Len(s) + Len(t) /\ ~ (Len(s) + i <= Len(s))
        /\ (Len(s) + i) - Len(s) = i
    BY <1>1
  <2>2. (s \o t)[Len(s) + i] = t[i]
    BY <1>1, <2>1
  <2> QED
    BY <1>2, <2>1, <2>2
<1> QED
    BY <1>4, <1>5, <1>6

LEMMA ToSetAppend ==
    ASSUME NEW S, NEW s \in Seq(S), NEW e \in S
    PROVE  ToSet(Append(s, e)) = ToSet(s) \cup {e}
<1>1. <<e>> \in Seq(S) /\ Append(s, e) = s \o <<e>>
    BY AppendIsConcat
<1>2. ToSet(<<e>>) = {e}
    BY DEF ToSet
<1>3. ToSet(s \o <<e>>) = ToSet(s) \cup ToSet(<<e>>)
    BY <1>1, ToSetConcat
<1> QED
    BY <1>1, <1>2, <1>3

(* Turning a sequence round keeps its elements. *)
LEMMA ReverseProperties ==
    ASSUME NEW S, NEW s \in Seq(S)
    PROVE  /\ Reverse(s) \in Seq(S)
           /\ Len(Reverse(s)) = Len(s)
           /\ ToSet(Reverse(s)) = ToSet(s)
<1> DEFINE n == Len(s)
           r == [i \in 1..n |-> s[(n - i) + 1]]
<1>1. n \in Nat /\ Reverse(s) = r
    BY LenProperties DEF Reverse
<1>2. \A i \in 1..n : (n - i) + 1 \in 1..n /\ (n - ((n - i) + 1)) + 1 = i
    BY <1>1
<1>3. r \in [1..n -> S]
    BY <1>2, ElementOfSeq
<1>4. r \in Seq(S) /\ Len(r) = n
    BY <1>1, <1>3
<1>5. ToSet(r) = {r[i] : i \in 1..n} /\ ToSet(s) = {s[i] : i \in 1..n}
  <2> HIDE DEF r
  <2> QED
    BY <1>4, ToSetProperties
<1>6. {r[i] : i \in 1..n} = {s[i] : i \in 1..n}
  <2>1. \A i \in 1..n : r[i] = s[(n - i) + 1] /\ s[i] = r[(n - i) + 1]
    BY <1>2
  <2> HIDE DEF r
  <2> QED
    BY <1>2, <2>1
<1> QED
    BY <1>1, <1>4, <1>5, <1>6

(* A sequence consists of its first n elements and the others. *)
LEMMA SplitProperties ==
    ASSUME NEW S, NEW s \in Seq(S), NEW n \in 0..Len(s)
    PROVE  /\ SubSeq(s, 1, n) \in Seq(S) /\ Len(SubSeq(s, 1, n)) = n
           /\ SubSeq(s, n + 1, Len(s)) \in Seq(S)
           /\ Len(SubSeq(s, n + 1, Len(s))) = Len(s) - n
           /\ s = SubSeq(s, 1, n) \o SubSeq(s, n + 1, Len(s))
           /\ ToSet(s) = ToSet(SubSeq(s, 1, n)) \cup ToSet(SubSeq(s, n + 1, Len(s)))
<1>1. Len(s) \in Nat /\ n \in Nat /\ n <= Len(s)
    BY LenProperties
<1>2. \A i \in 1..Len(s) : s[i] \in S
    BY ElementOfSeq
<1>3. SubSeq(s, 1, n) \in Seq(S) /\ Len(SubSeq(s, 1, n)) = n
  <2>1. \A i \in 1..n : s[i] \in S
    BY <1>1, <1>2
  <2> QED
    BY <1>1, <2>1, SubSeqProperties
<1>4. /\ SubSeq(s, n + 1, Len(s)) \in Seq(S)
      /\ Len(SubSeq(s, n + 1, Len(s))) = Len(s) - n
  <2>1. \A i \in n + 1..Len(s) : s[i] \in S
    BY <1>1, <1>2
  <2> QED
    BY <1>1, <2>1, SubSeqProperties
<1>5. s = SubSeq(s, 1, n) \o SubSeq(s, n + 1, Len(s))
  <2>1. 1 \in 1..Len(s) + 1 /\ n \in 1 - 1..Len(s) /\ Len(s) \in n..Len(s)
    BY <1>1
  <2> QED
    BY <2>1, ConcatAdjacentSubSeq, SubSeqFull
<1> QED
    BY <1>3, <1>4, <1>5, ToSetConcat

(* A part of a sequence has elements of the same set. *)
LEMMA SubSeqType ==
    ASSUME NEW S, NEW s \in Seq(S), NEW m \in Nat \ {0}, NEW n \in Int, n <= Len(s)
    PROVE  SubSeq(s, m, n) \in Seq(S)
<1>1. \A i \in m..n : s[i] \in S
    BY ElementOfSeq, LenProperties
<1> QED
    BY <1>1, SubSeqProperties

(* The orders of a finite set have all of its elements: 1..Cardinality(T)  *)
(* has no smaller injective image.                                         *)
LEMMA SetToSeqsProperties ==
    ASSUME NEW T, IsFiniteSet(T), NEW s \in SetToSeqs(T)
    PROVE  s \in Seq(T) /\ ToSet(s) = T /\ Len(s) = Cardinality(T)
<1> DEFINE D == 1..Cardinality(T)
<1>1. Cardinality(T) \in Nat
    BY FS_CardinalityType
<1>2. s \in [D -> T] /\ \A i, j \in D : i # j => s[i] # s[j]
    BY DEF SetToSeqs
<1>3. s \in Seq(T) /\ Len(s) = Cardinality(T)
    BY <1>1, <1>2
<1>4. s \in Injection(D, T)
    BY <1>2, Zenon DEF Injection, IsInjective
<1>5. IsFiniteSet(D) /\ Cardinality(D) = Cardinality(T)
    BY <1>1, FS_Interval
<1>6. s \in Surjection(D, T)
    BY <1>4, <1>5, FS_Injection
<1>7. \A t \in T : \E i \in D : s[i] = t
    BY <1>6 DEF Surjection
<1>8. ToSet(s) = {s[i] : i \in D}
    BY <1>3, ToSetProperties
<1> QED
    BY <1>2, <1>3, <1>7, <1>8

-----------------------------------------------------------------------------
(********************************** Sums ************************************)

(* The sum of a sequence of numbers, as the models define it.              *)
SumOf(s) ==
    LET sum[i \in 0..Len(s)] == IF i = 0 THEN 0 ELSE sum[i - 1] + s[i]
    IN  sum[Len(s)]

(* f[i] is what the first i numbers of s make, from f[0] on. *)
SumsUp(f, s, n) ==
    /\ \A i \in 0..n : f[i] \in Int
    /\ \A i \in 1..n : f[i] = f[i - 1] + s[i]

LEMMA SumsExist ==
    ASSUME NEW s \in Seq(Int)
    PROVE  \E f \in [0..Len(s) -> Int] : f[0] = 0 /\ SumsUp(f, s, Len(s))
<1> DEFINE Sum(n) == \E f \in [0..n -> Int] : f[0] = 0 /\ SumsUp(f, s, n)
           Bad == {n \in 0..Len(s) : ~ Sum(n)}
<1>1. Len(s) \in Nat /\ \A i \in 1..Len(s) : s[i] \in Int
  OBVIOUS
<1>2. Sum(0)
  <2> DEFINE f == [i \in 0..0 |-> 0]
  <2>1. f \in [0..0 -> Int] /\ f[0] = 0
    OBVIOUS
  <2>2. SumsUp(f, s, 0)
    BY DEF SumsUp
  <2> QED
    BY <2>1, <2>2
<1>3. ASSUME NEW n \in 1..Len(s), Sum(n - 1) PROVE Sum(n)
  <2>1. PICK f \in [0..n - 1 -> Int] : f[0] = 0 /\ SumsUp(f, s, n - 1)
    BY <1>3
  <2>2. n \in Int /\ n - 1 \in 0..n - 1 /\ s[n] \in Int
    BY <1>1
  <2> DEFINE g == [i \in 0..n |-> IF i = n THEN f[n - 1] + s[n] ELSE f[i]]
  <2>3. f[n - 1] \in Int /\ f[n - 1] + s[n] \in Int
    BY <2>1, <2>2
  <2>4. \A i \in 0..n : i # n => i \in 0..n - 1 /\ f[i] \in Int
    BY <2>1, <2>2
  <2>5. g \in [0..n -> Int] /\ g[0] = 0
    BY <2>1, <2>2, <2>3, <2>4
  <2>6. ASSUME NEW i \in 1..n PROVE g[i] = g[i - 1] + s[i]
    <3>1. i - 1 \in 0..n /\ i - 1 # n /\ i \in 0..n
      BY <2>2
    <3>2. g[i - 1] = f[i - 1]
      BY <3>1
    <3>3. CASE i = n
      BY <3>1, <3>2, <3>3
    <3>4. CASE i # n
      <4>1. i \in 1..n - 1
        BY <2>2, <3>4
      <4>2. f[i] = f[i - 1] + s[i]
        BY <2>1, <4>1 DEF SumsUp
      <4> QED
        BY <3>1, <3>2, <3>4, <4>2
    <3> QED
      BY <3>3, <3>4
  <2> HIDE DEF g
  <2>7. SumsUp(g, s, n)
    BY <2>5, <2>6 DEF SumsUp
  <2> QED
    BY <2>5, <2>7
<1>4. Bad = {}
  <2>1. SUFFICES ASSUME Bad # {} PROVE FALSE
    OBVIOUS
  <2>2. Bad \in SUBSET Nat
    BY <1>1
  <2> HIDE DEF Sum
  <2>3. PICK m \in Bad : \A k \in Bad : m <= k
    BY <2>1, <2>2, LeastNat
  <2>4. m # 0 /\ m \in 0..Len(s) /\ ~ Sum(m)
    BY <1>2, <2>3
  <2>5. m \in 1..Len(s) /\ m - 1 \in 0..Len(s) /\ ~ (m <= m - 1)
    BY <1>1, <2>4
  <2>6. Sum(m - 1)
    BY <2>3, <2>5
  <2> QED
    BY <1>3, <2>4, <2>5, <2>6
<1>5. Len(s) \in 0..Len(s) /\ Len(s) \notin Bad
  BY <1>1, <1>4
<1> QED
  BY <1>5

LEMMA SumUnfolds ==
    ASSUME NEW s \in Seq(Int)
    PROVE  \E f : f[0] = 0 /\ SumsUp(f, s, Len(s)) /\ SumOf(s) = f[Len(s)]
<1> DEFINE F(f) == [i \in 0..Len(s) |-> IF i = 0 THEN 0 ELSE f[i - 1] + s[i]]
           sum == CHOOSE f : f = F(f)
<1>1. Len(s) \in Nat
  OBVIOUS
<1>2. PICK g \in [0..Len(s) -> Int] : g[0] = 0 /\ SumsUp(g, s, Len(s))
  BY SumsExist
<1>3. g = F(g)
  <2>1. \A i \in 0..Len(s) : g[i] = IF i = 0 THEN 0 ELSE g[i - 1] + s[i]
    BY <1>1, <1>2 DEF SumsUp
  <2> QED
    BY <2>1
<1>4. sum = F(sum)
  <2> HIDE DEF F
  <2> QED
    BY <1>3
<1>5. SumOf(s) = sum[Len(s)]
  BY DEF SumOf
<1> HIDE DEF sum
<1>6. sum[0] = 0 /\ \A i \in 1..Len(s) : sum[i] = sum[i - 1] + s[i]
  <2>1. 0 \in 0..Len(s) /\ \A i \in 1..Len(s) : i \in 0..Len(s) /\ i # 0
    BY <1>1
  <2>2. \A i \in 0..Len(s) : sum[i] = IF i = 0 THEN 0 ELSE sum[i - 1] + s[i]
    BY <1>4
  <2> QED
    BY <2>1, <2>2
<1>7. \A i \in 0..Len(s) : sum[i] = g[i]
  <2> DEFINE Bad == {i \in 0..Len(s) : sum[i] # g[i]}
  <2>1. SUFFICES ASSUME Bad # {} PROVE FALSE
    OBVIOUS
  <2>2. Bad \in SUBSET Nat
    BY <1>1
  <2>3. PICK m \in Bad : \A k \in Bad : m <= k
    BY <2>1, <2>2, LeastNat
  <2>4. m \in 0..Len(s) /\ sum[m] # g[m] /\ m # 0
    BY <1>2, <1>6
  <2>5. m - 1 \in 0..Len(s) /\ m \in 1..Len(s) /\ ~ (m <= m - 1)
    BY <1>1, <2>4
  <2>6. sum[m - 1] = g[m - 1]
    BY <2>3, <2>5
  <2>7. sum[m] = sum[m - 1] + s[m] /\ g[m] = g[m - 1] + s[m]
    BY <1>2, <1>6, <2>5 DEF SumsUp
  <2> QED
    BY <2>4, <2>6, <2>7
<1>8. SumsUp(sum, s, Len(s))
  BY <1>2, <1>6, <1>7 DEF SumsUp
<1> QED
  BY <1>5, <1>6, <1>8

(* Two sums of the same numbers differ by where they start. *)
LEMMA SumsDiffer ==
    ASSUME NEW n \in Nat, NEW s, NEW f, NEW g, SumsUp(f, s, n), SumsUp(g, s, n),
           \A i \in 1..n : s[i] \in Int
    PROVE  g[n] - g[0] = f[n] - f[0]
<1> DEFINE Bad == {i \in 0..n : g[i] - g[0] # f[i] - f[0]}
<1>1. SUFFICES ASSUME Bad # {} PROVE FALSE
  <2>1. n \in 0..n
    OBVIOUS
  <2> QED
    BY <2>1
<1>2. Bad \in SUBSET Nat
  OBVIOUS
<1>3. PICK m \in Bad : \A k \in Bad : m <= k
  BY <1>1, <1>2, LeastNat
<1>4. 0 \in 0..n /\ f[0] \in Int /\ g[0] \in Int
  BY DEF SumsUp
<1>5. m \in 0..n /\ g[m] - g[0] # f[m] - f[0] /\ m # 0
  BY <1>4
<1>6. m - 1 \in 0..n /\ m \in 1..n /\ ~ (m <= m - 1)
  BY <1>5
<1>7. g[m - 1] - g[0] = f[m - 1] - f[0]
  BY <1>3, <1>6
<1>8. /\ f[m] = f[m - 1] + s[m] /\ g[m] = g[m - 1] + s[m]
      /\ f[m - 1] \in Int /\ g[m - 1] \in Int /\ s[m] \in Int
  BY <1>6 DEF SumsUp
<1>9. g[m] - g[0] = f[m] - f[0]
  BY <1>4, <1>7, <1>8
<1> QED
  BY <1>5, <1>9

(* A sum can be told from any function that grows by the same numbers.     *)
LEMMA SumIs ==
    ASSUME NEW s \in Seq(Int), NEW g, SumsUp(g, s, Len(s))
    PROVE  SumOf(s) = g[Len(s)] - g[0] /\ SumOf(s) \in Int
<1>1. PICK f : f[0] = 0 /\ SumsUp(f, s, Len(s)) /\ SumOf(s) = f[Len(s)]
  BY SumUnfolds
<1>2. Len(s) \in Nat /\ \A i \in 1..Len(s) : s[i] \in Int
  OBVIOUS
<1>3. g[Len(s)] - g[0] = f[Len(s)] - f[0]
  BY <1>1, <1>2, SumsDiffer
<1>4. f[Len(s)] \in Int
  BY <1>1, <1>2 DEF SumsUp
<1> QED
  BY <1>1, <1>3, <1>4

(* Sums of numbers that are not negative grow. *)
LEMMA SumsGrow ==
    ASSUME NEW n \in Nat, NEW s, NEW f, SumsUp(f, s, n), \A i \in 1..n : s[i] \in Nat
    PROVE  \A i, j \in 0..n : i <= j => f[i] <= f[j]
<1> SUFFICES ASSUME NEW i \in 0..n PROVE \A j \in 0..n : i <= j => f[i] <= f[j]
  OBVIOUS
<1> DEFINE Bad == {j \in 0..n : i <= j /\ ~ (f[i] <= f[j])}
<1>1. SUFFICES ASSUME Bad # {} PROVE FALSE
  OBVIOUS
<1>2. Bad \in SUBSET Nat
  OBVIOUS
<1>3. PICK m \in Bad : \A k \in Bad : m <= k
  BY <1>1, <1>2, LeastNat
<1>4. m \in 0..n /\ i <= m /\ ~ (f[i] <= f[m]) /\ f[i] \in Int /\ f[m] \in Int
  BY DEF SumsUp
<1>5. m # i /\ m - 1 \in 0..n /\ m \in 1..n /\ i <= m - 1 /\ ~ (m <= m - 1)
  BY <1>4
<1>6. f[i] <= f[m - 1]
  BY <1>3, <1>5
<1>7. f[m] = f[m - 1] + s[m] /\ f[m - 1] \in Int /\ s[m] \in Nat
  BY <1>5 DEF SumsUp
<1> QED
  BY <1>4, <1>6, <1>7
-----------------------------------------------------------------------------
(************************** Sums over finite sets ***************************)

(* A set of subsets of a finite set has one that contains no other of them.*)
LEMMA MinimalSet ==
    ASSUME NEW S, IsFiniteSet(S), NEW B \in SUBSET (SUBSET S), B # {}
    PROVE  \E s \in B : \A x \in s : s \ {x} \notin B
<1>1. \A s \in B : IsFiniteSet(s) /\ Cardinality(s) \in Nat
  BY FS_Subset, FS_CardinalityType
<1> DEFINE sizes == {Cardinality(s) : s \in B}
<1>2. PICK m \in sizes : \A k \in sizes : m <= k
  <2>1. sizes \in SUBSET Nat /\ sizes # {}
    BY <1>1
  <2> HIDE DEF sizes
  <2> QED
    BY <2>1, LeastNat
<1>3. PICK s \in B : Cardinality(s) = m
  OBVIOUS
<1>4. ASSUME NEW x \in s PROVE s \ {x} \notin B
  <2>1. SUFFICES ASSUME s \ {x} \in B PROVE FALSE
    OBVIOUS
  <2>2. Cardinality(s \ {x}) = m - 1 /\ m \in Nat
    BY <1>1, <1>3, FS_RemoveElement
  <2>3. m <= Cardinality(s \ {x})
    BY <1>2, <2>1
  <2> QED
    BY <2>2, <2>3
<1> QED
  BY <1>4

(* What w gives to the elements of S. *)
SumOn(w, S) == MapThenSumSet(LAMBDA x : w[x], S)

Unfolded(g, w, s) ==
    IF s = {} THEN 0 ELSE w[CHOOSE x \in s : TRUE] + g[s \ {CHOOSE x \in s : TRUE}]

Unfolds(g, w, S) == g = [s \in SUBSET S |-> Unfolded(g, w, s)]

LEMMA SumOnUnfolds ==
    ASSUME NEW w, NEW S
    PROVE  SumOn(w, S) = (CHOOSE g : Unfolds(g, w, S))[S]
BY DEF SumOn, MapThenSumSet, MapThenFoldSet, Unfolds, Unfolded

(* There is such a function, by the sizes up to which there is one.        *)
LEMMA UnfoldsExists ==
    ASSUME NEW w, NEW S, IsFiniteSet(S)
    PROVE  \E g : Unfolds(g, w, S)
<1> DEFINE UpTo(n, g) == \A s \in SUBSET S : Cardinality(s) <= n => g[s] = Unfolded(g, w, s)
           n == Cardinality(S)
           bad == {k \in 0..n : ~ \E g : UpTo(k, g)}
<1>1. n \in Nat
  BY FS_CardinalityType
<1>2. ASSUME NEW s \in SUBSET S
      PROVE  /\ IsFiniteSet(s) /\ Cardinality(s) \in Nat /\ Cardinality(s) <= n
             /\ Cardinality(s) = 0 <=> s = {}
  BY FS_Subset, FS_CardinalityType, FS_EmptySet
<1>3. ASSUME NEW s \in SUBSET S, s # {}
      PROVE  /\ s \ {CHOOSE x \in s : TRUE} \in SUBSET S
             /\ Cardinality(s \ {CHOOSE x \in s : TRUE}) = Cardinality(s) - 1
  <2>1. PICK x : x = CHOOSE y \in s : TRUE
    OBVIOUS
  <2>2. x \in s
    BY <1>3, <2>1
  <2>3. s \ {x} \in SUBSET S /\ Cardinality(s \ {x}) = Cardinality(s) - 1
    BY <1>2, <2>2, FS_RemoveElement
  <2> QED
    BY <2>1, <2>3
<1> HIDE DEF n
<1>4. ASSUME bad # {} PROVE FALSE
  <2>1. bad \in SUBSET Nat
    BY <1>1
  <2>2. PICK m \in bad : \A k \in bad : m <= k
    <3> HIDE DEF bad
    <3> QED
      BY <1>4, <2>1, LeastNat
  <2>3. m \in 0..n /\ ~ \E g : UpTo(m, g)
    OBVIOUS
  <2>4. CASE m = 0
    <3> DEFINE g == [s \in SUBSET S |-> 0]
    <3>1. ASSUME NEW s \in SUBSET S, Cardinality(s) <= 0 PROVE g[s] = Unfolded(g, w, s)
      <4>1. s = {}
        BY <1>2, <3>1
      <4> QED
        BY <4>1 DEF Unfolded
    <3> HIDE DEF g
    <3>2. UpTo(0, g)
      BY <3>1
    <3> QED
      BY <2>3, <2>4, <3>2
  <2>5. CASE m # 0
    <3>1. PICK k \in Nat : k = m - 1 /\ k \in 0..n /\ k < m
      BY <1>1, <2>3, <2>5
    <3>2. k \notin bad
      BY <2>1, <2>2, <3>1
    <3>3. PICK g : UpTo(k, g)
      BY <3>1, <3>2
    <3> DEFINE h == [s \in SUBSET S |-> IF Cardinality(s) <= k THEN g[s] ELSE Unfolded(g, w, s)]
    <3>4. \A s \in SUBSET S : h[s] = Unfolded(g, w, s)
      BY <3>3
    <3>5. \A s \in SUBSET S : Cardinality(s) <= k => h[s] = g[s]
      OBVIOUS
    <3> HIDE DEF h
    <3>6. ASSUME NEW s \in SUBSET S, Cardinality(s) <= m PROVE h[s] = Unfolded(h, w, s)
      <4>1. CASE s = {}
        BY <3>4, <4>1 DEF Unfolded
      <4>2. CASE s # {}
        <5>1. PICK t \in SUBSET S : /\ t = s \ {CHOOSE x \in s : TRUE}
                                    /\ Cardinality(t) = Cardinality(s) - 1
          BY <1>3, <4>2
        <5>2. Cardinality(t) <= k
          BY <1>2, <3>1, <3>6, <5>1
        <5>3. h[t] = g[t]
          BY <3>5, <5>2
        <5> QED
          BY <3>4, <5>1, <5>3 DEF Unfolded
      <4> QED
        BY <4>1, <4>2
    <3>7. UpTo(m, h)
      BY <3>6
    <3> QED
      BY <2>3, <3>7
  <2> QED
    BY <2>4, <2>5
<1>5. PICK g : UpTo(n, g)
  BY <1>1, <1>4
<1> DEFINE G == [s \in SUBSET S |-> g[s]]
<1>6. ASSUME NEW s \in SUBSET S PROVE G[s] = Unfolded(G, w, s)
  <2>1. g[s] = Unfolded(g, w, s)
    BY <1>2, <1>5
  <2>2. CASE s = {}
    BY <2>1, <2>2 DEF Unfolded
  <2>3. CASE s # {}
    <3>1. PICK t \in SUBSET S : t = s \ {CHOOSE x \in s : TRUE}
      BY <1>3, <2>3
    <3>2. G[t] = g[t] /\ G[s] = g[s]
      OBVIOUS
    <3> HIDE DEF G
    <3> QED
      BY <2>1, <3>1, <3>2 DEF Unfolded
  <2> QED
    BY <2>2, <2>3
<1>7. G = [s \in SUBSET S |-> G[s]]
  OBVIOUS
<1> HIDE DEF G
<1>8. Unfolds(G, w, S)
  BY <1>6, <1>7 DEF Unfolds
<1> QED
  BY <1>8

(* Functions that unfold so agree on what is common to their sets.         *)
LEMMA UnfoldsAgree ==
    ASSUME NEW w, NEW S, IsFiniteSet(S), NEW T, NEW g, Unfolds(g, w, S), NEW h, Unfolds(h, w, T),
           S \subseteq T
    PROVE  \A s \in SUBSET S : g[s] = h[s]
<1> DEFINE bad == {s \in SUBSET S : g[s] # h[s]}
<1>1. /\ \A s \in SUBSET S : g[s] = Unfolded(g, w, s)
      /\ \A s \in SUBSET S : h[s] = Unfolded(h, w, s)
  BY DEF Unfolds
<1>2. ASSUME bad # {} PROVE FALSE
  <2>1. bad \in SUBSET (SUBSET S)
    OBVIOUS
  <2>2. PICK s \in bad : \A x \in s : s \ {x} \notin bad
    <3> HIDE DEF bad
    <3> QED
      BY <1>2, <2>1, MinimalSet
  <2>3. s \in SUBSET S /\ g[s] # h[s]
    OBVIOUS
  <2>4. CASE s = {}
    BY <1>1, <2>3, <2>4 DEF Unfolded
  <2>5. CASE s # {}
    <3>1. PICK x \in s : x = CHOOSE y \in s : TRUE
      BY <2>5
    <3>2. PICK t \in SUBSET S : t = s \ {x}
      BY <2>3
    <3>3. g[t] = h[t]
      BY <2>2, <3>1, <3>2
    <3>4. g[s] = w[x] + g[t] /\ h[s] = w[x] + h[t]
      <4>1. Unfolded(g, w, s) = w[x] + g[t] /\ Unfolded(h, w, s) = w[x] + h[t]
        BY <2>5, <3>1, <3>2 DEF Unfolded
      <4> QED
        BY <1>1, <2>3, <4>1
    <3> QED
      BY <2>3, <3>3, <3>4
  <2> QED
    BY <2>4, <2>5
<1> QED
  BY <1>2

LEMMA SumOnIs ==
    ASSUME NEW w, NEW S, IsFiniteSet(S)
    PROVE  \E g : \A s \in SUBSET S : SumOn(w, s) = g[s] /\ g[s] = Unfolded(g, w, s)
<1>1. PICK g : Unfolds(g, w, S)
  BY UnfoldsExists
<1>2. ASSUME NEW s \in SUBSET S PROVE SumOn(w, s) = g[s]
  <2>1. IsFiniteSet(s)
    BY FS_Subset
  <2>2. PICK h : h = CHOOSE f : Unfolds(f, w, s)
    OBVIOUS
  <2>3. Unfolds(h, w, s)
    BY <2>1, <2>2, UnfoldsExists
  <2>4. h[s] = g[s]
    BY <1>1, <2>1, <2>3, UnfoldsAgree
  <2> QED
    BY <2>2, <2>4, SumOnUnfolds
<1>3. \A s \in SUBSET S : g[s] = Unfolded(g, w, s)
  BY <1>1 DEF Unfolds
<1> QED
  BY <1>2, <1>3

(* The sums of the subsets of S, in whichever order they are added up.     *)
SumsOn(w, S) ==
    /\ \A x \in S : w[x] \in Nat
    /\ SumOn(w, {}) = 0
    /\ \A s \in SUBSET S : SumOn(w, s) \in Nat
    /\ \A s \in SUBSET S : \A x \in s : SumOn(w, s) = w[x] + SumOn(w, s \ {x})

LEMMA SumOnProperties ==
    ASSUME NEW w, NEW S, IsFiniteSet(S), \A x \in S : w[x] \in Nat
    PROVE  SumsOn(w, S)
<1>1. PICK g : \A s \in SUBSET S : SumOn(w, s) = g[s] /\ g[s] = Unfolded(g, w, s)
  BY SumOnIs
<1>2. g[{}] = 0
  <2>1. {} \in SUBSET S
    OBVIOUS
  <2> QED
    BY <1>1, <2>1 DEF Unfolded
<1>3. ASSUME NEW s \in SUBSET S, s # {}
      PROVE  \E y \in s : g[s] = w[y] + g[s \ {y}]
  <2>1. PICK y \in s : y = CHOOSE x \in s : TRUE
    BY <1>3
  <2> QED
    BY <1>1, <1>3, <2>1 DEF Unfolded
<1>4. \A s \in SUBSET S : g[s] \in Nat
  <2> DEFINE bad == {s \in SUBSET S : g[s] \notin Nat}
  <2>1. ASSUME bad # {} PROVE FALSE
    <3>1. bad \in SUBSET (SUBSET S)
      OBVIOUS
    <3>2. PICK s \in bad : \A x \in s : s \ {x} \notin bad
      <4> HIDE DEF bad
      <4> QED
        BY <2>1, <3>1, MinimalSet
    <3>3. s # {} /\ s \in SUBSET S /\ g[s] \notin Nat
      BY <1>2
    <3>4. PICK y \in s : g[s] = w[y] + g[s \ {y}]
      BY <1>3, <3>3
    <3>5. g[s \ {y}] \in Nat /\ w[y] \in Nat
      BY <3>2, <3>3
    <3> QED
      BY <3>3, <3>4, <3>5
  <2> QED
    BY <2>1
<1>5. \A s \in SUBSET S : \A x \in s : g[s] = w[x] + g[s \ {x}]
  <2> DEFINE bad == {s \in SUBSET S : \E x \in s : g[s] # w[x] + g[s \ {x}]}
  <2>1. ASSUME bad # {} PROVE FALSE
    <3>1. bad \in SUBSET (SUBSET S)
      OBVIOUS
    <3>2. PICK s \in bad : \A x \in s : s \ {x} \notin bad
      <4> HIDE DEF bad
      <4> QED
        BY <2>1, <3>1, MinimalSet
    <3>3. PICK x \in s : g[s] # w[x] + g[s \ {x}]
      OBVIOUS
    <3>4. s \in SUBSET S /\ s # {}
      OBVIOUS
    <3>5. PICK y \in s : g[s] = w[y] + g[s \ {y}]
      BY <1>3, <3>4
    <3>6. x # y
      BY <3>3, <3>5
    <3>7. PICK t \in SUBSET S : t = (s \ {x}) \ {y} /\ t = (s \ {y}) \ {x}
      BY <3>4
    <3>8. g[s \ {x}] = w[y] + g[t]
      <4>1. y \in s \ {x} /\ s \ {x} \in SUBSET S /\ s \ {x} \notin bad
        BY <3>2, <3>4, <3>6
      <4> QED
        BY <3>7, <4>1
    <3>9. g[s \ {y}] = w[x] + g[t]
      <4>1. x \in s \ {y} /\ s \ {y} \in SUBSET S /\ s \ {y} \notin bad
        BY <3>2, <3>4, <3>6
      <4> QED
        BY <3>7, <4>1
    <3>10. w[x] \in Nat /\ w[y] \in Nat /\ g[t] \in Nat
      BY <1>4, <3>4
    <3> QED
      BY <3>3, <3>5, <3>8, <3>9, <3>10
  <2> QED
    BY <2>1
<1>6. \A s \in SUBSET S : \A x \in s : SumOn(w, s) = w[x] + SumOn(w, s \ {x})
  BY <1>1, <1>5
<1>7. SumOn(w, {}) = 0 /\ \A s \in SUBSET S : SumOn(w, s) \in Nat
  BY <1>1, <1>2, <1>4
<1> QED
  BY <1>6, <1>7 DEF SumsOn

(* The sum over two sets without a common element. *)
LEMMA SumOnDisjoint ==
    ASSUME NEW w, NEW S, IsFiniteSet(S), SumsOn(w, S),
           NEW A \in SUBSET S, NEW B \in SUBSET S, A \cap B = {}
    PROVE  SumOn(w, A \cup B) = SumOn(w, A) + SumOn(w, B)
<1> DEFINE bad == {s \in SUBSET A : SumOn(w, s \cup B) # SumOn(w, s) + SumOn(w, B)}
<1>1. IsFiniteSet(A) /\ SumOn(w, B) \in Nat
  BY FS_Subset DEF SumsOn
<1>2. ASSUME bad # {} PROVE FALSE
  <2>1. bad \in SUBSET (SUBSET A)
    OBVIOUS
  <2>2. PICK s \in bad : \A x \in s : s \ {x} \notin bad
    <3> HIDE DEF bad
    <3> QED
      BY <1>1, <1>2, <2>1, MinimalSet
  <2>3. s \in SUBSET A /\ SumOn(w, s \cup B) # SumOn(w, s) + SumOn(w, B)
    OBVIOUS
  <2>4. s # {}
    <3>1. SUFFICES ASSUME s = {} PROVE FALSE
      OBVIOUS
    <3>2. s \cup B = B /\ SumOn(w, s) = 0
      BY <3>1 DEF SumsOn
    <3> QED
      BY <1>1, <2>3, <3>2
  <2>5. PICK x \in s : TRUE
    BY <2>4
  <2>6. s \in SUBSET S /\ s \cup B \in SUBSET S /\ x \in s \cup B
        /\ s \ {x} \in SUBSET S /\ (s \cup B) \ {x} = (s \ {x}) \cup B
    BY <2>3, <2>5
  <2>7. SumOn(w, s) = w[x] + SumOn(w, s \ {x})
    BY <2>5, <2>6 DEF SumsOn
  <2>8. SumOn(w, s \cup B) = w[x] + SumOn(w, (s \ {x}) \cup B)
    <3>1. SumOn(w, s \cup B) = w[x] + SumOn(w, (s \cup B) \ {x})
      BY <2>6 DEF SumsOn
    <3> QED
      BY <2>6, <3>1
  <2>9. SumOn(w, (s \ {x}) \cup B) = SumOn(w, s \ {x}) + SumOn(w, B)
    <3>1. s \ {x} \in SUBSET A /\ s \ {x} \notin bad
      BY <2>2, <2>3, <2>5
    <3> QED
      BY <3>1
  <2>10. w[x] \in Nat /\ SumOn(w, s \ {x}) \in Nat
    BY <2>5, <2>6 DEF SumsOn
  <2> HIDE DEF bad
  <2> QED
    BY <1>1, <2>3, <2>7, <2>8, <2>9, <2>10
<1>3. A \in SUBSET A /\ A \notin bad
  BY <1>2
<1> QED
  BY <1>3

(* A part of a set has no more than the set.                               *)
LEMMA SumOnGrows ==
    ASSUME NEW w, NEW S, IsFiniteSet(S), SumsOn(w, S), NEW A \in SUBSET S
    PROVE  /\ SumOn(w, A) \in Nat /\ SumOn(w, S) \in Nat /\ SumOn(w, S \ A) \in Nat
           /\ SumOn(w, S) = SumOn(w, A) + SumOn(w, S \ A)
<1>1. S \in SUBSET S /\ S \ A \in SUBSET S /\ A \cap (S \ A) = {} /\ A \cup (S \ A) = S
  OBVIOUS
<1>2. SumOn(w, A \cup (S \ A)) = SumOn(w, A) + SumOn(w, S \ A)
  BY <1>1, SumOnDisjoint
<1>3. SumOn(w, S) = SumOn(w, A) + SumOn(w, S \ A)
  BY <1>1, <1>2
<1> QED
  BY <1>1, <1>3 DEF SumsOn

(* Stakes that are the same have the same sum.                             *)
LEMMA SumOnSame ==
    ASSUME NEW w, NEW v, NEW S, IsFiniteSet(S), \A x \in S : w[x] \in Nat /\ v[x] = w[x]
    PROVE  SumOn(v, S) = SumOn(w, S)
<1> DEFINE bad == {s \in SUBSET S : SumOn(v, s) # SumOn(w, s)}
<1>1. SumsOn(w, S) /\ SumsOn(v, S)
  BY SumOnProperties
<1>2. ASSUME bad # {} PROVE FALSE
  <2>1. bad \in SUBSET (SUBSET S)
    OBVIOUS
  <2>2. PICK s \in bad : \A x \in s : s \ {x} \notin bad
    <3> HIDE DEF bad
    <3> QED
      BY <1>2, <2>1, MinimalSet
  <2>3. s \in SUBSET S /\ SumOn(v, s) # SumOn(w, s)
    OBVIOUS
  <2>4. s # {}
    BY <1>1, <2>3 DEF SumsOn
  <2>5. PICK x \in s : TRUE
    BY <2>4
  <2>6. SumOn(v, s \ {x}) = SumOn(w, s \ {x})
    BY <2>2, <2>3, <2>5
  <2>7. SumOn(v, s) = v[x] + SumOn(v, s \ {x}) /\ SumOn(w, s) = w[x] + SumOn(w, s \ {x})
    BY <1>1, <2>3, <2>5 DEF SumsOn
  <2>8. v[x] = w[x]
    BY <2>3, <2>5
  <2> QED
    BY <2>3, <2>6, <2>7, <2>8
<1> QED
  BY <1>2

(* A pair has two elements. *)
LEMMA PairCardinality ==
    ASSUME NEW i, NEW j, i # j
    PROVE  Cardinality({i, j}) = 2
<1>1. IsFiniteSet({i}) /\ Cardinality({i}) = 1
    BY FS_Singleton
<1>2. {i, j} = {i} \cup {j} /\ j \notin {i}
    OBVIOUS
<1>3. Cardinality({i} \cup {j}) = Cardinality({i}) + 1
    BY <1>1, <1>2, FS_AddElement
<1>4. Cardinality({i} \cup {j}) = 1 + 1
    BY <1>1, <1>3
<1> QED
    BY <1>2, <1>4
=============================================================================
