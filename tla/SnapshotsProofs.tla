-------------------------- MODULE SnapshotsProofs --------------------------
(***************************************************************************)
(* However many chunk files are still to be written: what a node has       *)
(* pruned it can read from its chunk files, the files can be loaded after  *)
(* every stop, and a read across files and memory has no gap, as long as   *)
(* nothing overtakes a write and every start can read its files.           *)
(***************************************************************************)
EXTENDS Snapshots, SequenceLemmas

(* The chunks hold the indices from 1 on. *)
Chained(cs) ==
    /\ cs # << >> => cs[1].first = 1
    /\ \A k \in 1..Len(cs) : cs[k].first <= cs[k].last
    /\ Gapless(cs)

(* The last index of a list of chunks. *)
EndOf(cs) == IF cs = << >> THEN 0 ELSE cs[Len(cs)].last

(* The first m chunks have a file, and the others wait for theirs. *)
HasFiles(m) ==
    /\ m = Len(chunks) - Len(writing)
    /\ written = {chunks[k] : k \in 1..m}
    /\ \A k \in 1..Len(writing) : writing[k] = chunks[m + k]

FilesInv ==
    /\ Chained(chunks)
    /\ persisted = EndOf(chunks)
    /\ \E m \in Nat : HasFiles(m)

(* Memory starts at the border and holds whatever is in no chunk. *)
MemoryInv ==
    up => low = BorderIndex(chunks) + 1 /\ persisted <= fin /\ fin <= last

(* What is so in an orderly history. *)
StoreOrder == FilesInv /\ MemoryInv

(* The part of TypeOK that is not about the read under way.  There is one  *)
(* file of a name.                                                         *)
StoreType ==
    /\ up \in BOOLEAN /\ orderly \in BOOLEAN
    /\ low \in 1..MaxLen + 1 /\ last \in Index /\ fin \in Index
    /\ chunks \in Seq(Chunk) /\ persisted \in Index
    /\ written \subseteq Chunk /\ writing \in Seq(Chunk)
    /\ errors \in 0..MaxErrors /\ stops \in 0..MaxStops
    /\ IsFiniteSet(written)
    /\ \A c \in written, d \in written : c.first = d.first => c = d

Reads == [phase : {"reading", "done", "failed"}, after : Index, state : State,
          had : Index, from : Index, page : Page, part : Page, files : Seq(Chunk)]

ReadType == get \in {NoGet} \cup Reads /\ (get # NoGet => up)

(* What makes a read get somewhere, whether files can be read or not. *)
Progresses(g) ==
    /\ g.phase = "reading" => /\ g.had <= fin
                              /\ g.page = << >> => g.from <= g.after
                              /\ Len(g.page) < PageSize
    /\ g.phase = "done" /\ g.had > g.after => g.page # << >>

(* Chunk c holds index i. *)
Holds(c, i) == c.first <= i /\ i <= c.last

(* A read that goes on after index i with the chunks cs: as long as it has *)
(* found nothing fresh, one of them that is not the last holds the next    *)
(* index.                                                                  *)
Continues(cs, i, fresh) ==
    /\ cs # << >> /\ Gapless(cs)
    /\ \A k \in 1..Len(cs) : cs[k].first <= cs[k].last
    /\ cs[1].first <= i + 1 /\ i <= cs[1].last
    /\ IF fresh THEN cs[1].first = i + 1
                ELSE \E k \in 1..Len(cs) - 1 : Holds(cs[k], i + 1)

(* The list cs is a part of all. *)
Window(cs, all) ==
    \E p \in Nat : /\ p + Len(cs) <= Len(all)
                   /\ \A k \in 1..Len(cs) : cs[k] = all[p + k]

(* What keeps the answer of a read without a gap. *)
Follows(g) ==
    /\ g.phase # "failed"
    /\ g.phase = "done" => g.page = Indices(g.after, g.after + Len(g.page))
    /\ g.phase = "reading" =>
         /\ g.after <= g.from /\ g.page = Indices(g.after, g.from)
         /\ g.part = Indices(g.from, g.from + Len(g.part))
         /\ Continues(g.files, g.from + Len(g.part), g.part # << >>)
         /\ Window(g.files, chunks)

ReadOrder ==
    /\ orderly => Progresses(get)
    /\ errors = 0 /\ orderly => Follows(get)

(* The inductive invariant. *)
IInv == StoreType /\ (orderly => StoreOrder) /\ ReadType /\ ReadOrder

-----------------------------------------------------------------------------
(********************************* Indices **********************************)

LEMMA IndicesProperties ==
    ASSUME NEW a \in Int, NEW b \in Int
    PROVE  /\ Indices(a, b) \in Seq(Int)
           /\ Len(Indices(a, b)) = IF a <= b THEN b - a ELSE 0
           /\ \A i \in 1..(b - a) : Indices(a, b)[i] = a + i
           /\ b <= a => Indices(a, b) = << >>
<1> DEFINE n == IF a <= b THEN b - a ELSE 0
<1>1. n \in Nat /\ 1..n = 1..(b - a)
    OBVIOUS
<1>2. Indices(a, b) = [i \in 1..n |-> a + i]
    BY <1>1, Zenon DEF Indices
<1>3. [i \in 1..n |-> a + i] \in Seq(Int)
    BY <1>1
<1>4. Len([i \in 1..n |-> a + i]) = n
    BY <1>1
<1>5. b <= a => n = 0
    OBVIOUS
<1>6. n = 0 => Indices(a, b) = << >>
    BY <1>2, <1>3, <1>4, EmptySeq
<1> QED
    BY <1>1, <1>2, <1>3, <1>4, <1>5, <1>6

(* The indices are those of batches that there may be. *)
LEMMA IndicesType ==
    ASSUME NEW a \in Nat, NEW b \in Int, b <= MaxLen
    PROVE  Indices(a, b) \in Page
<1> DEFINE s == Indices(a, b)
<1>1. /\ s \in Seq(Int) /\ Len(s) = IF a <= b THEN b - a ELSE 0
      /\ \A i \in 1..(b - a) : s[i] = a + i
    BY IndicesProperties, a \in Int
<1> HIDE DEF s
<1>2. \A i \in 1..Len(s) : s[i] \in 1..MaxLen
    BY <1>1, LimitAssumption
<1>3. s \in Seq(1..MaxLen)
  <2>1. Len(s) \in Nat /\ s \in [1..Len(s) -> Int]
    BY <1>1, LenProperties
  <2>2. s \in [1..Len(s) -> 1..MaxLen]
    BY <1>2, <2>1
  <2> QED
    BY <2>1, <2>2, SeqDef
<1> QED
    BY <1>3 DEF Page, s

LEMMA IndicesConcat ==
    ASSUME NEW a \in Int, NEW b \in Int, NEW c \in Int, a <= b, b <= c
    PROVE  Indices(a, b) \o Indices(b, c) = Indices(a, c)
<1> DEFINE s == Indices(a, b)
           t == Indices(b, c)
           u == Indices(a, c)
<1>1. s \in Seq(Int) /\ Len(s) = b - a /\ \A i \in 1..(b - a) : s[i] = a + i
    BY IndicesProperties
<1>2. t \in Seq(Int) /\ Len(t) = c - b /\ \A i \in 1..(c - b) : t[i] = b + i
    BY IndicesProperties
<1>3. u \in Seq(Int) /\ Len(u) = c - a /\ \A i \in 1..(c - a) : u[i] = a + i
    BY IndicesProperties
<1> HIDE DEF s, t, u
<1>4. /\ s \o t \in Seq(Int)
      /\ Len(s \o t) = Len(s) + Len(t)
      /\ \A i \in 1..Len(s) + Len(t) :
             (s \o t)[i] = IF i <= Len(s) THEN s[i] ELSE t[i - Len(s)]
    BY <1>1, <1>2, ConcatProperties
<1>5. Len(s \o t) = Len(u)
    BY <1>1, <1>2, <1>3, <1>4
<1>6. ASSUME NEW i \in 1..(c - a) PROVE (s \o t)[i] = u[i]
  <2>1. CASE i <= b - a
    BY <2>1, <1>1, <1>2, <1>3, <1>4
  <2>2. CASE i > b - a
    <3>1. i - (b - a) \in 1..(c - b)
      BY <2>2
    <3>2. t[i - (b - a)] = b + (i - (b - a))
      BY <3>1, <1>2
    <3>3. (s \o t)[i] = t[i - (b - a)]
      <4>1. i \in 1..Len(s) + Len(t) /\ ~ (i <= Len(s)) /\ Len(s) = b - a
        BY <2>2, <1>1, <1>2
      <4> QED
        BY <4>1, <1>4
    <3>4. u[i] = a + i
      BY <1>3
    <3> QED
      BY <3>2, <3>3, <3>4
  <2>3. i <= b - a \/ i > b - a
    OBVIOUS
  <2> QED
    BY <2>1, <2>2, <2>3
<1>7. s \o t = u
    BY <1>3, <1>4, <1>5, <1>6, SeqEqual
<1> QED
    BY <1>7 DEF s, t, u

(* The last of them, and the first few. *)
LEMMA IndicesEnds ==
    ASSUME NEW a \in Nat, NEW b \in Nat, a < b
    PROVE  /\ Indices(a, b) # << >>
           /\ Head(Indices(a, b)) = a + 1
           /\ Last(Indices(a, b)) = b
           /\ LastOrZero(Indices(a, b)) = b
<1> DEFINE s == Indices(a, b)
<1>1. s \in Seq(Int) /\ Len(s) = b - a /\ \A i \in 1..(b - a) : s[i] = a + i
    BY IndicesProperties
<1>2. b - a \in 1..(b - a) /\ 1 \in 1..(b - a)
    OBVIOUS
<1> HIDE DEF s
<1>3. s # << >>
    BY <1>1, <1>2, EmptySeq
<1>4. Last(s) = b /\ Head(s) = a + 1
    BY <1>1, <1>2, <1>3, HeadTailProperties DEF Last
<1> QED
    BY <1>3, <1>4 DEF LastOrZero, s

LEMMA IndicesPrefix ==
    ASSUME NEW a \in Nat, NEW b \in Nat, NEW n \in Nat, a + n <= b
    PROVE  SubSeq(Indices(a, b), 1, n) = Indices(a, a + n)
<1> DEFINE s == Indices(a, b)
           t == Indices(a, a + n)
<1>1. s \in Seq(Int) /\ Len(s) = b - a /\ \A i \in 1..(b - a) : s[i] = a + i
    BY IndicesProperties
<1>2. t \in Seq(Int) /\ Len(t) = n /\ \A i \in 1..n : t[i] = a + i
  <2>1. a + n \in Int /\ a <= a + n /\ (a + n) - a = n
    OBVIOUS
  <2>2. /\ t \in Seq(Int)
        /\ Len(t) = IF a <= a + n THEN (a + n) - a ELSE 0
        /\ \A i \in 1..((a + n) - a) : t[i] = a + i
    BY <2>1, IndicesProperties
  <2> HIDE DEF t
  <2>3. Len(t) = n
    BY <2>1, <2>2
  <2>4. ASSUME NEW i \in 1..n PROVE t[i] = a + i
    <3>1. i \in 1..((a + n) - a)
      BY <2>1
    <3> QED
      BY <3>1, <2>2
  <2> QED
    BY <2>2, <2>3, <2>4
<1> HIDE DEF s, t
<1>3. /\ SubSeq(s, 1, n) \in Seq(Int) /\ Len(SubSeq(s, 1, n)) = n
      /\ \A i \in 1..n : SubSeq(s, 1, n)[i] = s[i]
  <2>1. \A i \in 1..n : i \in 1..(b - a)
    OBVIOUS
  <2>2. \A i \in 1..n : s[i] \in Int
    BY <1>1, <2>1
  <2>3. /\ SubSeq(s, 1, n) \in Seq(Int)
        /\ Len(SubSeq(s, 1, n)) = IF 1 <= n THEN n - 1 + 1 ELSE 0
        /\ \A i \in 1..(n - 1 + 1) : SubSeq(s, 1, n)[i] = s[1 + i - 1]
    BY <2>2, SubSeqProperties
  <2>4. Len(SubSeq(s, 1, n)) = n
    BY <2>3
  <2>5. ASSUME NEW i \in 1..n PROVE SubSeq(s, 1, n)[i] = s[i]
    <3>1. i \in 1..(n - 1 + 1) /\ 1 + i - 1 = i
      OBVIOUS
    <3> QED
      BY <3>1, <2>3
  <2> QED
    BY <2>3, <2>4, <2>5
<1>4. \A i \in 1..n : SubSeq(s, 1, n)[i] = t[i]
  <2>1. \A i \in 1..n : i \in 1..(b - a)
    OBVIOUS
  <2> QED
    BY <1>1, <1>2, <1>3, <2>1
<1>5. SubSeq(s, 1, n) = t
    BY <1>2, <1>3, <1>4, SeqEqual
<1> QED
    BY <1>5 DEF s, t

-----------------------------------------------------------------------------
(********************************** Chunks **********************************)

LEMMA ChunkNumbers ==
    ASSUME NEW cs \in Seq(Chunk), NEW k \in 1..Len(cs)
    PROVE  cs[k] \in Chunk /\ cs[k].first \in Nat \ {0} /\ cs[k].last \in Nat \ {0}
<1>1. cs[k] \in Chunk
    BY ElementOfSeq
<1> QED
    BY <1>1, LimitAssumption DEF Chunk

(* Chunks that follow one another are in the order of their indices: the   *)
(* least one that is not after chunk i would follow one that is.           *)
LEMMA GaplessOrder ==
    ASSUME NEW cs \in Seq(Chunk), Gapless(cs),
           \A k \in 1..Len(cs) : cs[k].first <= cs[k].last,
           NEW i \in 1..Len(cs), NEW j \in 1..Len(cs), i < j
    PROVE  cs[i].last < cs[j].first
<1> DEFINE T == {k \in (i + 1)..Len(cs) : ~ (cs[i].last < cs[k].first)}
<1>1. Len(cs) \in Nat
    BY LenProperties
<1>2. \A k \in 1..Len(cs) : cs[k].first \in Nat /\ cs[k].last \in Nat
    BY ChunkNumbers
<1>3. ASSUME T # {} PROVE FALSE
  <2>1. T \in SUBSET Nat
    BY <1>1
  <2>2. PICK k \in T : \A m \in T : k <= m
    BY <2>1, <1>3, LeastNat
  <2>3. k \in (i + 1)..Len(cs) /\ ~ (cs[i].last < cs[k].first) /\ k - 1 \notin T
    BY <2>2, <1>1
  <2>4. k - 1 \in 1..Len(cs) - 1 /\ cs[(k - 1) + 1].first = cs[k - 1].last + 1
    BY <2>3, <1>1 DEF Gapless
  <2>5. cs[k].first = cs[k - 1].last + 1 /\ cs[k - 1].first <= cs[k - 1].last
    BY <2>3, <2>4, <1>1
  <2>6. CASE k - 1 = i
    BY <2>6, <2>3, <2>5, <1>2
  <2>7. CASE k - 1 # i
    <3>1. k - 1 \in (i + 1)..Len(cs) /\ k - 1 \in 1..Len(cs) /\ k \in 1..Len(cs)
      BY <2>7, <2>3, <1>1
    <3>2. cs[i].last < cs[k - 1].first
      BY <3>1, <2>3
    <3> QED
      BY <3>1, <3>2, <2>3, <2>5, <1>2
  <2> QED
    BY <2>6, <2>7
<1>4. j \in (i + 1)..Len(cs)
    BY <1>1
<1> QED
    BY <1>3, <1>4

(* Their first indices are all different. *)
LEMMA GaplessFirst ==
    ASSUME NEW cs \in Seq(Chunk), Gapless(cs),
           \A k \in 1..Len(cs) : cs[k].first <= cs[k].last,
           NEW i \in 1..Len(cs), NEW j \in 1..Len(cs)
    PROVE  cs[i].first < cs[j].first <=> i < j
<1>1. Len(cs) \in Nat
    BY LenProperties
<1>2. /\ cs[i].first \in Nat /\ cs[i].last \in Nat /\ cs[i].first <= cs[i].last
      /\ cs[j].first \in Nat /\ cs[j].last \in Nat /\ cs[j].first <= cs[j].last
    BY ChunkNumbers
<1>3. CASE i < j
    BY <1>3, <1>2, GaplessOrder
<1>4. CASE j < i
  <2>1. cs[j].last < cs[i].first
    BY <1>4, GaplessOrder
  <2> QED
    BY <1>4, <2>1, <1>2
<1>5. CASE i = j
    BY <1>5, <1>2
<1> QED
    BY <1>3, <1>4, <1>5

(* Every index up to the end of a chunk is in that chunk or one before it. *)
LEMMA ChainedCover ==
    ASSUME NEW cs \in Seq(Chunk), Chained(cs),
           NEW k \in 1..Len(cs), NEW i \in 1..cs[k].last
    PROVE  \E j \in 1..k : Holds(cs[j], i)
<1> DEFINE T == {j \in 1..k : i <= cs[j].last}
<1>1. Len(cs) \in Nat
    BY LenProperties
<1>2. \A j \in 1..Len(cs) : cs[j].first \in Nat /\ cs[j].last \in Nat
    BY ChunkNumbers
<1>3. k \in T /\ T \in SUBSET Nat
    BY <1>1, <1>2
<1>4. PICK j \in T : \A m \in T : j <= m
    BY <1>3, LeastNat
<1>5. j \in 1..k /\ j \in 1..Len(cs) /\ i <= cs[j].last
    BY <1>4, <1>1
<1>6. cs[j].first <= i
  <2>1. CASE j = 1
    <3>1. cs # << >>
      BY <1>1, EmptySeq
    <3> QED
      BY <2>1, <3>1, <1>2 DEF Chained
  <2>2. CASE j # 1
    <3>1. j - 1 \in 1..k /\ j - 1 \in 1..Len(cs) - 1 /\ j - 1 \in 1..Len(cs)
      BY <2>2, <1>5, <1>1
    <3>2. j - 1 \notin T
      BY <1>4, <1>5
    <3>3. cs[j - 1].last < i
      BY <3>1, <3>2, <1>2
    <3>4. cs[(j - 1) + 1].first = cs[j - 1].last + 1
      BY <3>1 DEF Chained, Gapless
    <3>5. cs[j].first = cs[j - 1].last + 1
      BY <3>4, <1>5
    <3> QED
      BY <3>1, <3>3, <3>5, <1>2
  <2> QED
    BY <2>1, <2>2
<1> QED
    BY <1>5, <1>6 DEF Holds

(* The position of an index: there is one in every list, behind the last   *)
(* chunk that starts with the index or before it.                          *)
LEMMA FilePosProperties ==
    ASSUME NEW cs \in Seq(Chunk), NEW i \in Nat
    PROVE  /\ FilePos(cs, i) \in 0..Len(cs)
           /\ FilePos(cs, i) > 0 => cs[FilePos(cs, i)].first <= i
           /\ FilePos(cs, i) < Len(cs) => i < cs[FilePos(cs, i) + 1].first
<1> DEFINE T == {k \in 1..Len(cs) : cs[k].first <= i}
           isPos(p) == /\ p > 0 => cs[p].first <= i
                       /\ p < Len(cs) => i < cs[p + 1].first
<1>1. Len(cs) \in Nat
    BY LenProperties
<1>2. \A j \in 1..Len(cs) : cs[j].first \in Nat
    BY ChunkNumbers
<1>3. \E p \in 0..Len(cs) : isPos(p)
  <2>1. CASE T = {}
    <3>1. 0 < Len(cs) => 0 + 1 \in 1..Len(cs) /\ 0 + 1 \notin T
      BY <2>1, <1>1
    <3>2. 0 < Len(cs) => i < cs[0 + 1].first
      BY <3>1, <1>2
    <3>3. isPos(0) /\ 0 \in 0..Len(cs)
      BY <3>2, <1>1
    <3> QED
      BY <3>3
  <2>2. CASE T # {}
    <3>1. T \in SUBSET (1..Len(cs))
      OBVIOUS
    <3>2. PICK p \in T : \A k \in T : k <= p
      BY <2>2, <3>1, <1>1, GreatestNat
    <3>3. p \in 1..Len(cs) /\ cs[p].first <= i
      BY <3>2
    <3>4. p < Len(cs) => p + 1 \in 1..Len(cs) /\ p + 1 \notin T
      BY <3>2, <3>3, <1>1
    <3>5. p < Len(cs) => i < cs[p + 1].first
      BY <3>4, <1>2
    <3>6. isPos(p) /\ p \in 0..Len(cs)
      BY <3>3, <3>5
    <3> QED
      BY <3>6
  <2> QED
    BY <2>1, <2>2
<1>4. FilePos(cs, i) = CHOOSE p \in 0..Len(cs) : isPos(p)
    BY DEF FilePos
<1>5. FilePos(cs, i) \in 0..Len(cs) /\ isPos(FilePos(cs, i))
  <2> HIDE DEF isPos
  <2> QED
    BY <1>3, <1>4
<1> QED
    BY <1>5

(* In a chain it is that of a chunk. *)
LEMMA ChainedPos ==
    ASSUME NEW cs \in Seq(Chunk), Chained(cs), NEW i \in Nat \ {0}
    PROVE  /\ cs = << >> => FilePos(cs, i) = 0
           /\ cs # << >> => FilePos(cs, i) \in 1..Len(cs)
<1> DEFINE p == FilePos(cs, i)
<1>1. Len(cs) \in Nat /\ (cs = << >> <=> Len(cs) = 0)
    BY LenProperties, EmptySeq
<1>2. p \in 0..Len(cs) /\ (p < Len(cs) => i < cs[p + 1].first)
    BY FilePosProperties
<1> HIDE DEF p
<1>3. cs # << >> => p # 0
  <2>1. SUFFICES ASSUME cs # << >>, p = 0 PROVE FALSE
    OBVIOUS
  <2>2. p < Len(cs) /\ cs[p + 1].first = 1
    BY <2>1, <1>1 DEF Chained
  <2> QED
    BY <2>2, <1>2
<1> QED
    BY <1>1, <1>2, <1>3 DEF p

-----------------------------------------------------------------------------
(***************************** The files on disk ****************************)

(* As many chunks as positions: no two of them are the same. *)
LEMMA GaplessCount ==
    ASSUME NEW cs \in Seq(Chunk), Gapless(cs),
           \A k \in 1..Len(cs) : cs[k].first <= cs[k].last,
           NEW m \in 0..Len(cs)
    PROVE  Cardinality({cs[j] : j \in 1..m}) = m
<1> DEFINE T == {cs[j] : j \in 1..m}
           f == [j \in 1..m |-> cs[j]]
<1>1. Len(cs) \in Nat
    BY LenProperties
<1>2. m \in Nat /\ \A j \in 1..m : j \in 1..Len(cs)
    BY <1>1
<1>3. \A i \in 1..m, j \in 1..m : cs[i] = cs[j] => i = j
  <2>1. SUFFICES ASSUME NEW i \in 1..m, NEW j \in 1..m, cs[i] = cs[j], i # j
                 PROVE  FALSE
    OBVIOUS
  <2>2. cs[i].first < cs[j].first <=> i < j
    BY <1>2, GaplessFirst
  <2>3. cs[j].first < cs[i].first <=> j < i
    BY <1>2, GaplessFirst
  <2>4. i < j \/ j < i
    BY <2>1
  <2>5. cs[i].first \in Nat
    BY <1>2, ChunkNumbers
  <2> QED
    BY <2>1, <2>2, <2>3, <2>4, <2>5
<1>4. f \in Bijection(1..m, T)
  <2>1. f \in [1..m -> T] /\ DOMAIN f = 1..m
    OBVIOUS
  <2>2. f \in Injection(1..m, T)
    BY <2>1, <1>3, Zenon DEF Injection, IsInjective
  <2>3. f \in Surjection(1..m, T)
    BY <2>1, Zenon DEF Surjection
  <2> QED
    BY <2>2, <2>3 DEF Bijection
<1>5. IsFiniteSet(1..m) /\ Cardinality(1..m) = m
    BY <1>2, FS_Interval
<1>6. ExistsBijection(1..m, T)
    BY <1>4 DEF ExistsBijection
<1> QED
    BY <1>5, <1>6, FS_Bijection

(* Files that follow one another are found in that order. *)
LEMMA OnDiskInOrder ==
    ASSUME NEW cs \in Seq(Chunk), Gapless(cs),
           \A k \in 1..Len(cs) : cs[k].first <= cs[k].last,
           written = ToSet(cs)
    PROVE  OnDisk = cs
<1> DEFINE before(c) == {d \in written : d.first < c.first}
           isNth(c, k) == c \in written /\ Cardinality(before(c)) = k - 1
<1>1. Len(cs) \in Nat
    BY LenProperties
<1>2. written = {cs[j] : j \in 1..Len(cs)}
    BY ToSetProperties
<1>3. Cardinality(written) = Len(cs)
    BY <1>1, <1>2, GaplessCount
<1>4. ASSUME NEW k \in 1..Len(cs) PROVE Cardinality(before(cs[k])) = k - 1
  <2>1. before(cs[k]) = {cs[j] : j \in {i \in 1..Len(cs) : cs[i].first < cs[k].first}}
    BY <1>2
  <2>2. {i \in 1..Len(cs) : cs[i].first < cs[k].first} = 1..(k - 1)
    <3>1. \A i \in 1..Len(cs) : cs[i].first < cs[k].first <=> i < k
      BY GaplessFirst
    <3> QED
      BY <3>1, <1>1
  <2>3. k - 1 \in 0..Len(cs)
    BY <1>1
  <2>4. Cardinality({cs[j] : j \in 1..(k - 1)}) = k - 1
    BY <2>3, GaplessCount
  <2> QED
    BY <2>1, <2>2, <2>4
<1>5. ASSUME NEW k \in 1..Len(cs)
      PROVE  (CHOOSE c \in written : Cardinality(before(c)) = k - 1) = cs[k]
  <2>1. isNth(cs[k], k)
    BY <1>2, <1>4
  <2>2. ASSUME NEW c \in written, Cardinality(before(c)) = k - 1 PROVE c = cs[k]
    <3>1. PICK j \in 1..Len(cs) : c = cs[j]
      BY <1>2
    <3>2. Cardinality(before(c)) = j - 1
      BY <3>1, <1>4
    <3> QED
      BY <3>1, <3>2, <2>2
  <2> QED
    BY <2>1, <2>2
<1>6. OnDisk = [k \in 1..Len(cs) |-> CHOOSE c \in written : Cardinality(before(c)) = k - 1]
    BY <1>3 DEF OnDisk
<1>7. OnDisk = [k \in 1..Len(cs) |-> cs[k]]
    BY <1>5, <1>6
<1>8. cs \in [1..Len(cs) -> Chunk]
    BY LenProperties
<1> QED
    BY <1>7, <1>8

(* The first chunks of a chain are a chain. *)
LEMMA ChainedPrefix ==
    ASSUME NEW cs \in Seq(Chunk), Chained(cs), NEW m \in 0..Len(cs)
    PROVE  /\ SubSeq(cs, 1, m) \in Seq(Chunk)
           /\ Len(SubSeq(cs, 1, m)) = m
           /\ \A k \in 1..m : SubSeq(cs, 1, m)[k] = cs[k]
           /\ Chained(SubSeq(cs, 1, m))
<1> DEFINE p == SubSeq(cs, 1, m)
<1>1. Len(cs) \in Nat /\ \A k \in 1..m : k \in 1..Len(cs) /\ cs[k] \in Chunk
    BY LenProperties, ElementOfSeq
<1>2. p \in Seq(Chunk) /\ Len(p) = m /\ \A k \in 1..m : p[k] = cs[k]
    BY <1>1, SubSeqProperties
<1> HIDE DEF p
<1>3. p # << >> => p[1].first = 1
  <2>1. p # << >> => m >= 1
    BY <1>2, EmptySeq
  <2>2. m >= 1 => cs # << >> /\ 1 \in 1..m
    BY <1>1, EmptySeq
  <2> QED
    BY <2>1, <2>2, <1>2 DEF Chained
<1>4. \A k \in 1..m : p[k].first <= p[k].last
    BY <1>1, <1>2 DEF Chained
<1>5. \A k \in 1..m - 1 : p[k + 1].first = p[k].last + 1
  <2>1. SUFFICES ASSUME NEW k \in 1..m - 1 PROVE p[k + 1].first = p[k].last + 1
    OBVIOUS
  <2>2. k \in 1..m /\ k + 1 \in 1..m /\ k \in 1..Len(cs) - 1
    BY <1>1
  <2>3. cs[k + 1].first = cs[k].last + 1
    BY <2>2 DEF Chained, Gapless
  <2> QED
    BY <2>2, <2>3, <1>2
<1>6. Chained(p)
    BY <1>2, <1>3, <1>4, <1>5 DEF Chained, Gapless
<1> QED
    BY <1>2, <1>6 DEF p

(* The files that are there, in the order of their names: the k-th one is  *)
(* a file.  Different files have different numbers of others before them,  *)
(* so that every number is that of one.                                    *)
LEMMA OnDiskType ==
    ASSUME StoreType
    PROVE  /\ OnDisk \in Seq(Chunk)
           /\ Len(OnDisk) = Cardinality(written)
           /\ \A k \in 1..Len(OnDisk) : OnDisk[k] \in written
<1> DEFINE n == Cardinality(written)
           before(c) == {d \in written : d.first < c.first}
           rank == [c \in written |-> Cardinality(before(c))]
<1>1. /\ IsFiniteSet(written) /\ written \subseteq Chunk
      /\ \A c \in written, d \in written : c.first = d.first => c = d
    BY DEF StoreType
<1>2. n \in Nat
    BY <1>1, FS_CardinalityType
<1>3. \A c \in written : c.first \in Nat
    BY <1>1, LimitAssumption DEF Chunk
<1>4. ASSUME NEW c \in written
      PROVE  IsFiniteSet(before(c)) /\ Cardinality(before(c)) \in 0..n - 1
  <2>1. before(c) \in SUBSET written
    OBVIOUS
  <2>2. /\ IsFiniteSet(before(c)) /\ Cardinality(before(c)) <= n
        /\ Cardinality(before(c)) = n => written = before(c)
    BY <1>1, <2>1, FS_Subset
  <2>3. Cardinality(before(c)) \in Nat
    BY <2>2, FS_CardinalityType
  <2>4. c \notin before(c)
    BY <1>3
  <2> HIDE DEF before
  <2> QED
    BY <1>2, <2>2, <2>3, <2>4
<1>5. ASSUME NEW c \in written, NEW d \in written, c.first < d.first
      PROVE  Cardinality(before(c)) # Cardinality(before(d))
  <2>1. before(c) \in SUBSET before(d)
    BY <1>3, <1>5
  <2>2. c \in before(d) /\ c \notin before(c)
    BY <1>3, <1>5
  <2>3. IsFiniteSet(before(d))
    BY <1>4
  <2>4. Cardinality(before(d)) = Cardinality(before(c)) => before(d) = before(c)
    BY <2>1, <2>3, FS_Subset
  <2> HIDE DEF before
  <2> QED
    BY <2>2, <2>4
<1>6. rank \in Injection(written, 0..n - 1)
  <2>1. rank \in [written -> 0..n - 1]
    BY <1>4
  <2>2. \A c \in written, d \in written : rank[c] = rank[d] => c = d
    <3>1. SUFFICES ASSUME NEW c \in written, NEW d \in written, rank[c] = rank[d], c # d
                   PROVE  FALSE
      OBVIOUS
    <3>2. c.first < d.first \/ d.first < c.first
      BY <3>1, <1>1, <1>3
    <3>3. rank[c] = Cardinality(before(c)) /\ rank[d] = Cardinality(before(d))
      OBVIOUS
    <3> HIDE DEF rank, before
    <3> QED
      BY <3>1, <3>2, <3>3, <1>5
  <2> HIDE DEF rank
  <2>3. \A c, d \in written : rank[c] = rank[d] => c = d
    BY <2>2
  <2> QED
    BY <2>1, <2>3, Zenon DEF Injection, IsInjective
<1>7. rank \in Surjection(written, 0..n - 1)
  <2>1. IsFiniteSet(0..n - 1) /\ Cardinality(0..n - 1) = n
    BY <1>2, FS_Interval
  <2> HIDE DEF rank
  <2> QED
    BY <1>6, <2>1, FS_Injection
<1>8. ASSUME NEW k \in 1..n
      PROVE  \E c \in written : Cardinality(before(c)) = k - 1
  <2>1. k - 1 \in 0..n - 1
    BY <1>2
  <2>2. \A r \in 0..n - 1 : \E c \in written : rank[c] = r
    <3> HIDE DEF rank
    <3> QED
      BY <1>7, Zenon DEF Surjection
  <2> HIDE DEF n, before
  <2> QED
    BY <2>1, <2>2
<1>9. \A k \in 1..n : (CHOOSE c \in written : Cardinality(before(c)) = k - 1) \in written
  <2> HIDE DEF before, n
  <2> QED
    BY <1>8
<1>10. OnDisk = [k \in 1..n |-> CHOOSE c \in written : Cardinality(before(c)) = k - 1]
    BY DEF OnDisk
<1> HIDE DEF n, before
<1>11. \A k \in 1..n : OnDisk[k] \in written
    BY <1>9, <1>10
<1>12. OnDisk \in [1..n -> Chunk] /\ DOMAIN OnDisk = 1..n
    BY <1>1, <1>9, <1>10
<1>13. OnDisk \in Seq(Chunk) /\ Len(OnDisk) = n
  <2>1. OnDisk \in Seq(Chunk)
    BY <1>2, <1>12
  <2> QED
    BY <1>2, <1>12, <2>1, LenProperties
<1> QED
    BY <1>11, <1>13 DEF n

(* If the first m chunks have a file, that is what is found. *)
LEMMA OnDiskProperties ==
    ASSUME chunks \in Seq(Chunk), writing \in Seq(Chunk), Chained(chunks),
           NEW m \in Nat, HasFiles(m)
    PROVE  /\ OnDisk \in Seq(Chunk) /\ Chained(OnDisk)
           /\ Len(OnDisk) = m
           /\ \A k \in 1..m : OnDisk[k] = chunks[k]
<1> DEFINE front == SubSeq(chunks, 1, m)
<1>1. m \in 0..Len(chunks)
    BY LenProperties DEF HasFiles
<1>2. /\ front \in Seq(Chunk) /\ Len(front) = m
      /\ \A k \in 1..m : front[k] = chunks[k]
      /\ Chained(front)
    BY <1>1, ChainedPrefix
<1> HIDE DEF front
<1>3. ToSet(front) = {front[k] : k \in 1..m}
    BY <1>2, ToSetProperties
<1>4. written = ToSet(front)
    BY <1>2, <1>3 DEF HasFiles
<1>5. OnDisk = front
    BY <1>2, <1>4, OnDiskInOrder DEF Chained
<1> QED
    BY <1>2, <1>5

-----------------------------------------------------------------------------
(*************************** Storing and pruning ***************************)

LEMMA EndOfProperties ==
    ASSUME NEW cs \in Seq(Chunk)
    PROVE  /\ EndOf(cs) \in Index
           /\ cs = << >> => EndOf(cs) = 0
           /\ cs # << >> => Len(cs) \in 1..Len(cs) /\ EndOf(cs) = cs[Len(cs)].last
<1>1. CASE cs = << >>
    BY <1>1, LimitAssumption DEF EndOf, Index
<1>2. CASE cs # << >>
  <2>1. Len(cs) \in 1..Len(cs)
    BY <1>2, EmptySeq
  <2>2. cs[Len(cs)] \in Chunk
    BY <2>1, ElementOfSeq
  <2>3. EndOf(cs) = cs[Len(cs)].last
    BY <1>2 DEF EndOf
  <2> QED
    BY <1>2, <2>1, <2>2, <2>3, LimitAssumption DEF Chunk, Index
<1> QED
    BY <1>1, <1>2

(* The border is the start of a chunk, and never of the last one. *)
LEMMA BorderIndexProperties ==
    ASSUME NEW cs \in Seq(Chunk)
    PROVE  /\ BorderIndex(cs) \in Index
           /\ BorderIndex(cs) # 0 =>
                \E k \in 1..Len(cs) - 1 : BorderIndex(cs) = cs[k].first
<1>1. Len(cs) \in Nat
    BY LenProperties
<1>2. CASE Len(cs) < Border
  <2>1. BorderIndex(cs) = 0
    BY <1>1, <1>2, BorderAssumption DEF BorderIndex
  <2> QED
    BY <2>1, LimitAssumption DEF Index
<1>3. CASE Len(cs) >= Border
  <2> DEFINE k == Len(cs) - Border + 1
  <2>1. k \in 1..Len(cs) - 1 /\ k \in 1..Len(cs)
    BY <1>1, <1>3, BorderAssumption
  <2>2. BorderIndex(cs) = cs[k].first
    BY <1>3 DEF BorderIndex
  <2>3. cs[k] \in Chunk
    BY <2>1, ElementOfSeq
  <2> HIDE DEF k
  <2> QED
    BY <2>1, <2>2, <2>3, LimitAssumption DEF Chunk, Index
<1> QED
    BY <1>1, <1>2, <1>3, BorderAssumption

(* What is pruned is in a chunk before the last one, *)
LEMMA BorderIsCovered ==
    ASSUME NEW cs \in Seq(Chunk), Chained(cs), NEW i \in 1..BorderIndex(cs)
    PROVE  \E j \in 1..Len(cs) - 1 : Holds(cs[j], i)
<1>1. Len(cs) \in Nat /\ BorderIndex(cs) \in Nat
    BY LenProperties, BorderIndexProperties, LimitAssumption DEF Index
<1>2. PICK k \in 1..Len(cs) - 1 : BorderIndex(cs) = cs[k].first
    BY <1>1, BorderIndexProperties
<1>3. k \in 1..Len(cs) /\ cs[k].first <= cs[k].last
    BY <1>1, <1>2 DEF Chained
<1>4. cs[k].last \in Nat
    BY <1>3, ChunkNumbers
<1>5. i \in 1..cs[k].last
    BY <1>1, <1>2, <1>3, <1>4
<1>6. PICK j \in 1..k : Holds(cs[j], i)
    BY <1>3, <1>5, ChainedCover
<1>7. j \in 1..Len(cs) - 1
    BY <1>1, <1>2, <1>6
<1> QED
    BY <1>6, <1>7

(* and so it is before the end. *)
LEMMA BorderIsPersisted ==
    ASSUME NEW cs \in Seq(Chunk), Chained(cs)
    PROVE  BorderIndex(cs) = 0 \/ BorderIndex(cs) < EndOf(cs)
<1> DEFINE b == BorderIndex(cs)
           n == Len(cs)
<1>1. b \in Nat /\ EndOf(cs) \in Nat /\ n \in Nat
    BY BorderIndexProperties, EndOfProperties, LimitAssumption, LenProperties DEF Index
<1>2. SUFFICES ASSUME b # 0 PROVE b < EndOf(cs)
    OBVIOUS
<1>3. PICK j \in 1..n - 1 : Holds(cs[j], b)
    BY <1>1, <1>2, BorderIsCovered
<1>4. j \in 1..n /\ n \in 1..n /\ j < n
    BY <1>1, <1>3
<1>5. cs # << >>
    BY <1>4, EmptySeq
<1>6. EndOf(cs) = cs[n].last
    BY <1>5, EndOfProperties
<1>7. cs[j].last < cs[n].first /\ cs[n].first <= cs[n].last
    BY <1>4, GaplessOrder DEF Chained
<1>8. cs[j].last \in Nat /\ cs[n].first \in Nat
    BY <1>4, ChunkNumbers
<1> QED
    BY <1>1, <1>3, <1>6, <1>7, <1>8 DEF Holds

(* A chunk that starts right after the last one makes the chain longer. *)
LEMMA ChainedAppend ==
    ASSUME NEW cs \in Seq(Chunk), Chained(cs), NEW c \in Chunk, c.first <= c.last,
           c.first = IF cs = << >> THEN 1 ELSE cs[Len(cs)].last + 1
    PROVE  /\ Append(cs, c) \in Seq(Chunk)
           /\ Len(Append(cs, c)) = Len(cs) + 1
           /\ Append(cs, c)[Len(cs) + 1] = c
           /\ \A k \in 1..Len(cs) : Append(cs, c)[k] = cs[k]
           /\ Chained(Append(cs, c))
<1> DEFINE n == Len(cs)
           s == Append(cs, c)
<1>1. n \in Nat /\ cs # << >> => n \in 1..n
    BY EmptySeq, LenProperties
<1>2. n \in Nat /\ (cs = << >> => n = 0)
    BY EmptySeq, LenProperties
<1>3. /\ s \in Seq(Chunk) /\ Len(s) = n + 1 /\ s[n + 1] = c
      /\ \A k \in 1..n : s[k] = cs[k]
    BY AppendProperties
<1> HIDE DEF s
<1>4. s[1].first = 1
  <2>1. CASE cs = << >>
    BY <2>1, <1>2, <1>3
  <2>2. CASE cs # << >>
    <3>1. 1 \in 1..n
      BY <2>2, <1>1
    <3> QED
      BY <2>2, <3>1, <1>3 DEF Chained
  <2> QED
    BY <2>1, <2>2
<1>5. \A k \in 1..n + 1 : k = n + 1 \/ k \in 1..n
    BY <1>2
<1>6. \A k \in 1..n + 1 : s[k].first <= s[k].last
    BY <1>3, <1>5 DEF Chained
<1>7. ASSUME NEW k \in 1..n PROVE s[k + 1].first = s[k].last + 1
  <2>1. CASE k = n
    <3>1. cs # << >>
      BY <1>2
    <3> QED
      BY <2>1, <3>1, <1>3
  <2>2. CASE k # n
    <3>1. k \in 1..n - 1 /\ k + 1 \in 1..n
      BY <2>2, <1>2
    <3>2. cs[k + 1].first = cs[k].last + 1
      BY <3>1 DEF Chained, Gapless
    <3> QED
      BY <3>1, <3>2, <1>3
  <2> QED
    BY <2>1, <2>2
<1>8. (n + 1) - 1 = n
    BY <1>2
<1>9. Chained(s)
    BY <1>3, <1>4, <1>6, <1>7, <1>8 DEF Chained, Gapless
<1> QED
    BY <1>3, <1>9 DEF s

(* Whatever else is listed, a chunk that is stored holds indices. *)
LEMMA FreshType ==
    ASSUME StoreType, NEW f \in Index, Fresh(f) > 0
    PROVE  /\ FreshChunk(f) \in Chunk
           /\ FreshChunk(f).first <= FreshChunk(f).last /\ FreshChunk(f).last = f
<1> DEFINE c == FreshChunk(f)
           a == Max({persisted, low - 1})
<1>1. persisted \in Nat /\ low - 1 \in Nat /\ f \in Nat /\ f <= MaxLen /\ MaxLen \in Nat
    BY LimitAssumption DEF StoreType, Index
<1>2. a \in Nat
  <2>1. a = IF persisted >= low - 1 THEN persisted ELSE low - 1
    BY <1>1, MaxPair
  <2> HIDE DEF a
  <2> QED
    BY <2>1, <1>1
<1>3. c = [first |-> a + 1, last |-> f] /\ c.first = a + 1 /\ c.last = f
    BY DEF FreshChunk
<1>4. Fresh(f) = f - (a + 1) + 1
    BY <1>3 DEF Fresh
<1> HIDE DEF c, a
<1>5. a + 1 <= f
    BY <1>1, <1>2, <1>4
<1>6. a + 1 \in 1..MaxLen /\ f \in 1..MaxLen
    BY <1>1, <1>2, <1>5
<1>7. c \in Chunk
    BY <1>3, <1>6 DEF Chunk
<1> QED
    BY <1>3, <1>5, <1>7 DEF c

(* What is fresh starts right after the last chunk: memory reaches back to *)
(* the border, which is not after it.                                      *)
LEMMA FreshProperties ==
    ASSUME StoreType, StoreOrder, up, NEW f \in Index
    PROVE  /\ FreshChunk(f).first = persisted + 1 /\ FreshChunk(f).last = f
           /\ Fresh(f) = f - persisted
<1>1. /\ chunks \in Seq(Chunk) /\ Chained(chunks) /\ low = BorderIndex(chunks) + 1
      /\ persisted = EndOf(chunks)
    BY DEF StoreType, StoreOrder, FilesInv, MemoryInv
<1>2. BorderIndex(chunks) = 0 \/ BorderIndex(chunks) < persisted
    BY <1>1, BorderIsPersisted
<1>3. BorderIndex(chunks) \in Nat /\ persisted \in Nat /\ f \in Nat
    BY <1>1, BorderIndexProperties, EndOfProperties, LimitAssumption DEF Index
<1>4. low - 1 = BorderIndex(chunks)
    BY <1>1, <1>3
<1>5. Max({persisted, low - 1}) = persisted
    BY <1>2, <1>3, <1>4, MaxPair
<1> QED
    BY <1>3, <1>5 DEF FreshChunk, Fresh

(* The border does not go back when a chunk is listed. *)
LEMMA BorderGrows ==
    ASSUME NEW cs \in Seq(Chunk), Chained(cs), NEW ds \in Seq(Chunk),
           Len(ds) = Len(cs) + 1, \A k \in 1..Len(cs) : ds[k] = cs[k]
    PROVE  BorderIndex(cs) <= BorderIndex(ds)
<1> DEFINE n == Len(cs)
<1>1. n \in Nat /\ BorderIndex(ds) \in Nat
    BY BorderIndexProperties, LimitAssumption, LenProperties DEF Index
<1>2. CASE n < Border
  <2>1. BorderIndex(cs) = 0
    BY <1>1, <1>2, BorderAssumption DEF BorderIndex
  <2> QED
    BY <1>1, <2>1
<1>3. CASE n >= Border
  <2> DEFINE k == n - Border + 1
  <2>1. k \in 1..n - 1 /\ k \in 1..n /\ k + 1 \in 1..n /\ n + 1 >= Border
        /\ (n + 1) - Border + 1 = k + 1
    BY <1>1, <1>3, BorderAssumption
  <2>2. BorderIndex(cs) = cs[k].first
    BY <1>3 DEF BorderIndex
  <2>3. BorderIndex(ds) = ds[k + 1].first
    BY <2>1 DEF BorderIndex
  <2> HIDE DEF k
  <2>4. cs[k].first < cs[k + 1].first
    BY <2>1, <1>1, GaplessFirst DEF Chained
  <2>5. cs[k].first \in Nat /\ cs[k + 1].first \in Nat
    BY <2>1, ChunkNumbers
  <2> QED
    BY <2>1, <2>2, <2>3, <2>4, <2>5
<1> QED
    BY <1>1, <1>2, <1>3, BorderAssumption

(* A chunk is listed and joins the ones that wait for their files. *)
LEMMA StoreChunk ==
    ASSUME StoreType, StoreOrder, up, NEW f \in Index, Fresh(f) > 0,
           Store(FreshChunk(f)), written' = written
    PROVE  /\ FilesInv' /\ persisted' = f
           /\ BorderIndex(chunks) <= BorderIndex(chunks')
           /\ Len(chunks') = Len(chunks) + 1
           /\ \A k \in 1..Len(chunks) : chunks'[k] = chunks[k]
<1> DEFINE n == Len(chunks)
           w == Len(writing)
<1>1. /\ chunks \in Seq(Chunk) /\ writing \in Seq(Chunk) /\ FilesInv
      /\ Chained(chunks) /\ n \in Nat /\ w \in Nat
    BY LenProperties DEF StoreType, StoreOrder, FilesInv
<1>2. PICK c : c = FreshChunk(f)
    OBVIOUS
<1>3. c.first = persisted + 1 /\ c.last = f /\ c.first <= c.last /\ c \in Chunk
    BY <1>2, FreshProperties, FreshType
<1>4. chunks' = Append(chunks, c) /\ persisted' = c.last /\ writing' = Append(writing, c)
    BY <1>2 DEF Store
<1>5. c.first = IF chunks = << >> THEN 1 ELSE chunks[n].last + 1
    BY <1>1, <1>3 DEF FilesInv, EndOf
<1>6. /\ chunks' \in Seq(Chunk) /\ Len(chunks') = n + 1 /\ chunks'[n + 1] = c
      /\ \A k \in 1..n : chunks'[k] = chunks[k]
      /\ Chained(chunks')
    BY <1>1, <1>3, <1>4, <1>5, ChainedAppend
<1>7. /\ writing' \in Seq(Chunk) /\ Len(writing') = w + 1 /\ writing'[w + 1] = c
      /\ \A k \in 1..w : writing'[k] = writing[k]
    BY <1>1, <1>3, <1>4, AppendProperties
<1>8. PICK m \in Nat : HasFiles(m)
    BY <1>1 DEF FilesInv
<1>9. m = n - w /\ m <= n
    BY <1>1, <1>8 DEF HasFiles
<1>10. HasFiles(m)'
  <2>1. m = Len(chunks') - Len(writing')
    BY <1>1, <1>6, <1>7, <1>9
  <2>2. written' = {chunks'[k] : k \in 1..m}
    <3>1. \A k \in 1..m : k \in 1..n
      BY <1>1, <1>9
    <3>2. \A k \in 1..m : chunks'[k] = chunks[k]
      BY <3>1, <1>6
    <3>3. {chunks'[k] : k \in 1..m} = {chunks[k] : k \in 1..m}
      BY <3>2
    <3> QED
      BY <3>3, <1>8 DEF HasFiles
  <2>3. ASSUME NEW k \in 1..w + 1 PROVE writing'[k] = chunks'[m + k]
    <3>1. CASE k = w + 1
      <4>1. m + k = n + 1
        BY <3>1, <1>1, <1>9
      <4> QED
        BY <3>1, <4>1, <1>6, <1>7
    <3>2. CASE k # w + 1
      <4>1. k \in 1..w /\ m + k \in 1..n
        BY <3>2, <1>1, <1>9
      <4> QED
        BY <4>1, <1>6, <1>7, <1>8 DEF HasFiles
    <3> QED
      BY <3>1, <3>2
  <2> QED
    BY <2>1, <2>2, <2>3, <1>7 DEF HasFiles
<1>11. persisted' = EndOf(chunks')
  <2>1. chunks' # << >>
    BY <1>1, <1>6, EmptySeq
  <2> QED
    BY <2>1, <1>3, <1>4, <1>6 DEF EndOf
<1>12. FilesInv'
    BY <1>6, <1>8, <1>10, <1>11 DEF FilesInv
<1>13. BorderIndex(chunks) <= BorderIndex(chunks')
    BY <1>1, <1>6, BorderGrows
<1> QED
    BY <1>3, <1>4, <1>6, <1>12, <1>13

(* Listing a chunk, or not, gives lists of chunks. *)
LEMMA StoreKeepsType ==
    ASSUME StoreType, NEW f \in Index,
           (Fresh(f) > 0 /\ Store(FreshChunk(f))) \/ UNCHANGED <<listed, writing>>
    PROVE  chunks' \in Seq(Chunk) /\ persisted' \in Index /\ writing' \in Seq(Chunk)
<1>1. chunks \in Seq(Chunk) /\ persisted \in Index /\ writing \in Seq(Chunk)
    BY DEF StoreType
<1>2. CASE Fresh(f) > 0 /\ Store(FreshChunk(f))
  <2>1. FreshChunk(f) \in Chunk /\ FreshChunk(f).last = f
    BY <1>2, FreshType
  <2>2. PICK c : c = FreshChunk(f)
    OBVIOUS
  <2>3. chunks' = Append(chunks, c) /\ persisted' = c.last /\ writing' = Append(writing, c)
    BY <1>2, <2>2 DEF Store
  <2> QED
    BY <2>1, <2>2, <2>3, <1>1, AppendProperties
<1>3. CASE UNCHANGED <<listed, writing>>
    BY <1>1, <1>3 DEF listed
<1> QED
    BY <1>2, <1>3

(* Enough that is fresh is something. *)
LEMMA EnoughIsFresh ==
    ASSUME StoreType, NEW f \in Index, Fresh(f) >= ChunkSize
    PROVE  Fresh(f) > 0
<1> DEFINE a == Max({persisted, low - 1})
<1>1. persisted \in Int /\ low - 1 \in Int /\ f \in Int
    BY LimitAssumption DEF StoreType, Index
<1>2. a \in Int
  <2>1. a = IF persisted >= low - 1 THEN persisted ELSE low - 1
    BY <1>1, MaxPair
  <2> HIDE DEF a
  <2> QED
    BY <2>1, <1>1
<1>3. Fresh(f) = f - (a + 1) + 1
    BY DEF Fresh, FreshChunk
<1> HIDE DEF a
<1> QED
    BY <1>1, <1>2, <1>3, SizeAssumption

(* Pruning leaves positions that exist. *)
LEMMA PruneType ==
    ASSUME StoreType, NEW border \in Index, NEW f \in Index, Prune(border, f)
    PROVE  low' \in 1..MaxLen + 1 /\ last' \in Index /\ fin' \in Index
<1>1. /\ low' = IF border < last THEN Max({low, border + 1}) ELSE low
      /\ last' = IF border < last THEN last ELSE low - 1
      /\ fin' = IF border < f THEN f ELSE 0
    BY DEF Prune
<1>2. /\ low \in Nat \ {0} /\ low <= MaxLen + 1 /\ MaxLen \in Nat /\ last \in Index
      /\ border \in Nat /\ border <= MaxLen
    BY LimitAssumption DEF StoreType, Index
<1>3. Max({low, border + 1}) = IF low >= border + 1 THEN low ELSE border + 1
    BY <1>2, MaxPair
<1>4. low' \in 1..MaxLen + 1
    BY <1>1, <1>2, <1>3
<1>5. last' \in Index
    BY <1>1, <1>2 DEF Index
<1>6. fin' \in Index
    BY <1>1, LimitAssumption DEF Index
<1> QED
    BY <1>4, <1>5, <1>6

LEMMA FinalizeType ==
    ASSUME StoreType, NEW f \in 1..MaxLen, Finalize(f)
    PROVE  StoreType'
<1>1. f \in Index
    BY LimitAssumption DEF Index
<1>2. /\ up' = up /\ written' = written /\ errors' = errors /\ stops' = stops
      /\ orderly' = orderly /\ Prune(BorderIndex(chunks'), f)
    BY DEF Finalize
<1>3. chunks' \in Seq(Chunk) /\ persisted' \in Index /\ writing' \in Seq(Chunk)
  <2>1. CASE Fresh(f) >= ChunkSize
    <3>1. Fresh(f) > 0 /\ Store(FreshChunk(f))
      BY <1>1, <2>1, EnoughIsFresh DEF Finalize
    <3> QED
      BY <3>1, <1>1, StoreKeepsType
  <2>2. CASE ~ (Fresh(f) >= ChunkSize)
    <3>1. UNCHANGED <<listed, writing>>
      BY <2>2 DEF Finalize
    <3> QED
      BY <3>1, <1>1, StoreKeepsType
  <2> QED
    BY <2>1, <2>2
<1>4. PICK b : b = BorderIndex(chunks')
    OBVIOUS
<1>5. b \in Index
    BY <1>3, <1>4, BorderIndexProperties
<1>6. low' \in 1..MaxLen + 1 /\ last' \in Index /\ fin' \in Index
    BY <1>1, <1>2, <1>4, <1>5, PruneType
<1> QED
    BY <1>2, <1>3, <1>6 DEF StoreType

LEMMA FilesKept ==
    ASSUME FilesInv, chunks' = chunks, persisted' = persisted,
           writing' = writing, written' = written
    PROVE  FilesInv'
<1>1. PICK m \in Nat : HasFiles(m)
    BY DEF FilesInv
<1>2. HasFiles(m)'
    BY <1>1 DEF HasFiles
<1> QED
    BY <1>2 DEF FilesInv

(* The chunks of a running node only become more. *)
Grown == /\ Len(chunks) <= Len(chunks')
         /\ \A k \in 1..Len(chunks) : chunks'[k] = chunks[k]

LEMMA FinalizeOrder ==
    ASSUME StoreType, StoreOrder, NEW f \in 1..MaxLen, Finalize(f)
    PROVE  StoreOrder' /\ up' /\ fin <= fin' /\ Grown
<1>1. f \in Index /\ f \in Nat
    BY LimitAssumption DEF Index
<1>2. /\ chunks \in Seq(Chunk) /\ FilesInv /\ Chained(chunks) /\ persisted = EndOf(chunks)
      /\ low = BorderIndex(chunks) + 1 /\ persisted <= fin /\ fin \in Nat /\ last \in Nat
      /\ persisted \in Nat
    BY LimitAssumption DEF StoreType, StoreOrder, FilesInv, MemoryInv, Finalize, Index
<1>3. /\ up /\ fin < f /\ f <= last /\ up' = up /\ written' = written
      /\ Prune(BorderIndex(chunks'), f)
    BY DEF Finalize
<1>4. chunks' \in Seq(Chunk)
    BY FinalizeType DEF StoreType
<1>5. /\ FilesInv' /\ persisted' <= f
      /\ BorderIndex(chunks) <= BorderIndex(chunks')
      /\ Grown
  <2>1. CASE Fresh(f) >= ChunkSize
    <3>1. Fresh(f) > 0 /\ Store(FreshChunk(f))
      BY <1>1, <2>1, EnoughIsFresh DEF Finalize
    <3>2. /\ FilesInv' /\ persisted' = f
          /\ BorderIndex(chunks) <= BorderIndex(chunks')
          /\ Len(chunks') = Len(chunks) + 1
          /\ \A k \in 1..Len(chunks) : chunks'[k] = chunks[k]
      BY <3>1, <1>1, <1>3, StoreChunk
    <3>3. Len(chunks) \in Nat
      BY <1>2, LenProperties
    <3> QED
      BY <3>2, <3>3, <1>1 DEF Grown
  <2>2. CASE ~ (Fresh(f) >= ChunkSize)
    <3>1. chunks' = chunks /\ persisted' = persisted /\ writing' = writing
      BY <2>2 DEF Finalize, listed
    <3>2. FilesInv'
      BY <3>1, <1>2, <1>3, FilesKept
    <3>3. BorderIndex(chunks) \in Nat /\ Len(chunks) \in Nat
      BY <1>2, BorderIndexProperties, LimitAssumption, LenProperties DEF Index
    <3>4. persisted <= f
      BY <1>1, <1>2, <1>3
    <3> QED
      BY <3>1, <3>2, <3>3, <3>4 DEF Grown
  <2> QED
    BY <2>1, <2>2
<1>6. PICK b : b = BorderIndex(chunks')
    OBVIOUS
<1>7. /\ BorderIndex(chunks) \in Nat /\ b \in Nat /\ BorderIndex(chunks) <= b
    BY <1>2, <1>4, <1>5, <1>6, BorderIndexProperties, LimitAssumption DEF Index
<1>8. b < f
  <2>1. b = 0 \/ b < persisted'
    <3>1. Chained(chunks') /\ persisted' = EndOf(chunks')
      BY <1>5 DEF FilesInv
    <3> QED
      BY <3>1, <1>4, <1>6, BorderIsPersisted
  <2>2. persisted' \in Nat
    BY FinalizeType, LimitAssumption DEF StoreType, Index
  <2> QED
    BY <2>1, <2>2, <1>1, <1>2, <1>3, <1>5, <1>7
<1>9. low' = b + 1 /\ last' = last /\ fin' = f
  <2>1. /\ low' = IF b < last THEN Max({low, b + 1}) ELSE low
        /\ last' = IF b < last THEN last ELSE low - 1
        /\ fin' = IF b < f THEN f ELSE 0
    BY <1>3, <1>6 DEF Prune
  <2>2. b < last
    BY <1>1, <1>2, <1>3, <1>7, <1>8
  <2>3. low \in Int /\ b + 1 \in Int /\ low <= b + 1
    BY <1>2, <1>7
  <2>4. Max({low, b + 1}) = b + 1
    BY <2>3, MaxPair
  <2> QED
    BY <2>1, <2>2, <2>4, <1>8
<1>10. MemoryInv'
    BY <1>3, <1>5, <1>6, <1>9 DEF MemoryInv
<1> QED
    BY <1>1, <1>2, <1>3, <1>5, <1>9, <1>10 DEF StoreOrder

LEMMA ShutdownStore ==
    ASSUME StoreType, Shutdown
    PROVE  StoreType' /\ (StoreOrder => StoreOrder')
<1>1. /\ up /\ ~ up' /\ up' = FALSE /\ written' = written /\ errors' = errors
      /\ low' = low /\ last' = last /\ fin' = fin /\ orderly' = orderly
      /\ stops' = stops + 1 /\ stops < MaxStops
    BY DEF Shutdown, memory
<1>2. fin \in Index
    BY DEF StoreType
<1>3. (Fresh(fin) > 0 /\ Store(FreshChunk(fin))) \/ UNCHANGED <<listed, writing>>
    BY DEF Shutdown
<1>4. chunks' \in Seq(Chunk) /\ persisted' \in Index /\ writing' \in Seq(Chunk)
    BY <1>2, <1>3, StoreKeepsType
<1>5. stops' \in 0..MaxStops
    BY <1>1, LimitAssumption DEF StoreType
<1>6. StoreType'
    BY <1>1, <1>4, <1>5 DEF StoreType
<1>7. ASSUME StoreOrder PROVE StoreOrder'
  <2>1. FilesInv'
    <3>1. CASE Fresh(fin) > 0 /\ Store(FreshChunk(fin))
      BY <3>1, <1>1, <1>2, <1>7, StoreChunk
    <3>2. CASE UNCHANGED <<listed, writing>>
      BY <3>2, <1>1, <1>7, FilesKept DEF listed, StoreOrder
    <3> QED
      BY <3>1, <3>2, <1>3
  <2>2. MemoryInv'
    BY <1>1 DEF MemoryInv
  <2> QED
    BY <2>1, <2>2 DEF StoreOrder
<1> QED
    BY <1>6, <1>7

-----------------------------------------------------------------------------
(****************************** The process pool ***************************)

(* A file that is written takes the place of one of the same name. *)
LEMMA RenamedProperties ==
    ASSUME StoreType, NEW c \in Chunk
    PROVE  /\ Renamed(c) \subseteq Chunk /\ IsFiniteSet(Renamed(c))
           /\ \A d \in Renamed(c), e \in Renamed(c) : d.first = e.first => d = e
<1> DEFINE rest == {d \in written : d.first # c.first}
<1>1. /\ written \subseteq Chunk /\ IsFiniteSet(written)
      /\ \A d \in written, e \in written : d.first = e.first => d = e
    BY DEF StoreType
<1>2. rest \in SUBSET written /\ Renamed(c) = rest \cup {c}
    BY DEF Renamed
<1>3. \A d \in rest : d.first # c.first
    OBVIOUS
<1> HIDE DEF rest
<1>4. IsFiniteSet(rest)
    BY <1>1, <1>2, FS_Subset
<1>5. IsFiniteSet(rest \cup {c})
    BY <1>4, FS_AddElement
<1> QED
    BY <1>1, <1>2, <1>3, <1>5

(* The next chunk in the order of the list gets its file. *)
LEMMA WriteDoneStore ==
    ASSUME StoreType, WriteDone
    PROVE  StoreType' /\ (StoreOrder => StoreOrder')
<1>1. /\ writing # << >> /\ written' = Renamed(Head(writing)) /\ writing' = Tail(writing)
      /\ up' = up /\ errors' = errors /\ low' = low /\ last' = last /\ fin' = fin
      /\ chunks' = chunks /\ persisted' = persisted
      /\ orderly' = orderly /\ stops' = stops
    BY DEF WriteDone, memory, listed
<1>2. writing \in Seq(Chunk) /\ Len(writing) \in Nat
    BY LenProperties DEF StoreType
<1>3. PICK c : c = Head(writing)
    OBVIOUS
<1>4. /\ c \in Chunk /\ c = writing[1] /\ 1 \in 1..Len(writing)
      /\ writing' \in Seq(Chunk) /\ Len(writing') = Len(writing) - 1
      /\ \A k \in 1..Len(writing) - 1 : writing'[k] = writing[k + 1]
    BY <1>1, <1>2, <1>3, HeadTailProperties, EmptySeq
<1>5. written' = Renamed(c)
    BY <1>1, <1>3
<1>6. /\ written' \subseteq Chunk /\ IsFiniteSet(written')
      /\ \A d \in written', e \in written' : d.first = e.first => d = e
    BY <1>4, <1>5, RenamedProperties
<1>7. StoreType'
    BY <1>1, <1>4, <1>6 DEF StoreType
<1>8. ASSUME StoreOrder PROVE StoreOrder'
  <2>1. chunks \in Seq(Chunk) /\ Chained(chunks) /\ Len(chunks) \in Nat
    BY <1>8, LenProperties DEF StoreType, StoreOrder, FilesInv
  <2>2. PICK m \in Nat : HasFiles(m)
    BY <1>8 DEF StoreOrder, FilesInv
  <2>3. /\ m = Len(chunks) - Len(writing) /\ written = {chunks[k] : k \in 1..m}
        /\ \A k \in 1..Len(writing) : writing[k] = chunks[m + k]
    BY <2>2 DEF HasFiles
  <2>4. m + 1 \in 1..Len(chunks) /\ c = chunks[m + 1]
    BY <2>1, <2>3, <1>2, <1>4
  <2>5. \A k \in 1..m : k \in 1..Len(chunks) /\ chunks[k].first # c.first
    <3>1. SUFFICES ASSUME NEW k \in 1..m PROVE k \in 1..Len(chunks) /\ chunks[k].first # c.first
      OBVIOUS
    <3>2. k \in 1..Len(chunks) /\ k < m + 1
      BY <2>1, <2>4
    <3>3. chunks[k].first < chunks[m + 1].first
      BY <3>2, <2>1, <2>4, GaplessFirst DEF Chained
    <3>4. chunks[k].first \in Nat /\ chunks[m + 1].first \in Nat
      BY <3>2, <2>1, <2>4, ChunkNumbers
    <3> QED
      BY <3>2, <3>3, <3>4, <2>4
  <2>6. written' = {chunks[k] : k \in 1..m + 1}
    <3>1. written' = written \cup {c}
      BY <2>3, <2>5, <1>5 DEF Renamed
    <3>2. \A k : k \in 1..m + 1 <=> k \in 1..m \/ k = m + 1
      OBVIOUS
    <3> QED
      BY <3>1, <3>2, <2>3, <2>4
  <2>7. HasFiles(m + 1)'
    <3>1. m + 1 = Len(chunks') - Len(writing')
      BY <2>1, <2>3, <1>1, <1>2, <1>4
    <3>2. ASSUME NEW k \in 1..Len(writing') PROVE writing'[k] = chunks'[(m + 1) + k]
      <4>1. k \in 1..Len(writing) - 1 /\ k + 1 \in 1..Len(writing) /\ m + (k + 1) = (m + 1) + k
        BY <3>2, <1>2, <1>4
      <4>2. writing'[k] = chunks[m + (k + 1)]
        BY <4>1, <1>4, <2>3
      <4> QED
        BY <4>1, <4>2, <1>1
    <3> QED
      BY <3>1, <3>2, <2>6, <1>1 DEF HasFiles
  <2>8. FilesInv'
    <3>1. m + 1 \in Nat
      OBVIOUS
    <3> QED
      BY <3>1, <2>7, <1>1, <1>8 DEF FilesInv, StoreOrder
  <2>9. MemoryInv'
    BY <1>1, <1>8 DEF MemoryInv, StoreOrder
  <2> QED
    BY <2>8, <2>9 DEF StoreOrder
<1> QED
    BY <1>7, <1>8

(* A write that is done out of turn, or is not done. *)
LEMMA RemoveAtType ==
    ASSUME NEW s \in Seq(Chunk), NEW k \in 1..Len(s)
    PROVE  RemoveAt(s, k) \in Seq(Chunk)
<1>1. Len(s) \in Nat
    BY LenProperties
<1>2. SubSeq(s, 1, k - 1) \in Seq(Chunk)
    BY <1>1, SubSeqType
<1>3. SubSeq(s, k + 1, Len(s)) \in Seq(Chunk)
    BY <1>1, SubSeqType
<1> QED
    BY <1>2, <1>3, ConcatProperties DEF RemoveAt

LEMMA WriteOvertakesStore ==
    ASSUME StoreType, WriteOvertakes
    PROVE  StoreType' /\ ~ orderly'
<1>1. /\ Len(writing) > 1 /\ written' = Renamed(writing[2])
      /\ writing' = RemoveAt(writing, 2) /\ orderly' = FALSE
      /\ up' = up /\ errors' = errors /\ low' = low /\ last' = last /\ fin' = fin
      /\ chunks' = chunks /\ persisted' = persisted /\ stops' = stops
    BY DEF WriteOvertakes, memory, listed
<1>2. writing \in Seq(Chunk) /\ 2 \in 1..Len(writing)
    BY <1>1, LenProperties DEF StoreType
<1>3. PICK c : c = writing[2]
    OBVIOUS
<1>4. c \in Chunk /\ written' = Renamed(c) /\ writing' \in Seq(Chunk)
    BY <1>1, <1>2, <1>3, ElementOfSeq, RemoveAtType
<1>5. /\ written' \subseteq Chunk /\ IsFiniteSet(written')
      /\ \A d \in written', e \in written' : d.first = e.first => d = e
    BY <1>4, RenamedProperties
<1> QED
    BY <1>1, <1>4, <1>5 DEF StoreType

LEMMA WriteFailsStore ==
    ASSUME StoreType, NEW k \in UnderWay, WriteFails(k)
    PROVE  StoreType' /\ ~ orderly'
<1>1. /\ writing' = RemoveAt(writing, k) /\ orderly' = FALSE
      /\ errors' = errors + 1 /\ errors < MaxErrors
      /\ up' = up /\ written' = written /\ low' = low /\ last' = last /\ fin' = fin
      /\ chunks' = chunks /\ persisted' = persisted /\ stops' = stops
    BY DEF WriteFails, memory, listed
<1>2. writing \in Seq(Chunk) /\ Len(writing) \in Nat
    BY LenProperties DEF StoreType
<1>3. k \in 1..Len(writing)
  <2>1. Min({Workers, Len(writing)}) = IF Workers <= Len(writing) THEN Workers ELSE Len(writing)
    BY <1>2, MinPair DEF Workers
  <2> QED
    BY <2>1, <1>2 DEF UnderWay, Workers
<1>4. writing' \in Seq(Chunk)
    BY <1>1, <1>2, <1>3, RemoveAtType
<1>5. errors' \in 0..MaxErrors
    BY <1>1, LimitAssumption DEF StoreType
<1> QED
    BY <1>1, <1>4, <1>5 DEF StoreType

-----------------------------------------------------------------------------
(*************************** Stopping and starting *************************)

(* load_batches gets chunks of the list that it is given, *)
LEMMA FilesAfterType ==
    ASSUME NEW cs \in Seq(Chunk), NEW i \in Nat
    PROVE  /\ FilesAfter(cs, i) \in Seq(Chunk)
           /\ \A k \in 1..Len(FilesAfter(cs, i)) :
                 \E j \in 1..Len(cs) : FilesAfter(cs, i)[k] = cs[j]
<1> DEFINE w == IF i = 0 THEN 1 ELSE i
           p == FilePos(cs, w)
           loaded == FilesAfter(cs, i)
<1>1. Len(cs) \in Nat /\ w \in Nat
    BY LenProperties
<1>2. p \in 0..Len(cs)
  <2> HIDE DEF w
  <2> QED
    BY <1>1, FilePosProperties
<1>3. loaded = IF p = 0 THEN << >> ELSE SubSeq(cs, p, Len(cs))
    BY DEF FilesAfter
<1> HIDE DEF p, loaded
<1>4. CASE p = 0
  <2>1. loaded \in Seq(Chunk) /\ Len(loaded) = 0
    BY <1>3, <1>4, EmptySeq
  <2> QED
    BY <2>1 DEF loaded
<1>5. CASE p # 0
  <2>1. \A k \in p..Len(cs) : k \in 1..Len(cs) /\ cs[k] \in Chunk
    BY <1>1, <1>2, <1>5, ElementOfSeq
  <2>2. p \in Int /\ Len(cs) \in Int /\ loaded = SubSeq(cs, p, Len(cs)) /\ p <= Len(cs)
    BY <1>1, <1>2, <1>3, <1>5
  <2>3. /\ loaded \in Seq(Chunk) /\ Len(loaded) = Len(cs) - p + 1
        /\ \A k \in 1..Len(cs) - p + 1 : loaded[k] = cs[p + k - 1]
    BY <2>1, <2>2, SubSeqProperties
  <2>4. \A k \in 1..Len(cs) - p + 1 : p + k - 1 \in 1..Len(cs)
    BY <1>1, <1>2, <1>5
  <2> QED
    BY <2>3, <2>4 DEF loaded
<1> QED
    BY <1>4, <1>5

(* and from a chain those from one on that does not start after the index  *)
(* that is wanted next, nor ends before the one it was asked for.          *)
LEMMA FilesAfterProperties ==
    ASSUME NEW cs \in Seq(Chunk), Chained(cs), NEW i \in Nat
    PROVE  /\ cs = << >> => FilesAfter(cs, i) = << >>
           /\ cs # << >> =>
                \E p \in 1..Len(cs) :
                   /\ Len(FilesAfter(cs, i)) = Len(cs) - p + 1
                   /\ \A k \in 1..Len(cs) - p + 1 : FilesAfter(cs, i)[k] = cs[p + k - 1]
                   /\ cs[p].first <= i + 1
                   /\ p < Len(cs) => i <= cs[p].last
<1> DEFINE w == IF i = 0 THEN 1 ELSE i
           p == FilePos(cs, w)
           loaded == FilesAfter(cs, i)
<1>1. Len(cs) \in Nat
    BY LenProperties
<1>2. w \in Nat \ {0} /\ w <= i + 1
    OBVIOUS
<1>3. /\ cs = << >> => p = 0
      /\ cs # << >> => /\ p \in 1..Len(cs) /\ cs[p].first <= w
                       /\ p < Len(cs) => w < cs[p + 1].first
  <2> HIDE DEF w
  <2>1. w \in Nat
    BY <1>2
  <2>2. /\ p > 0 => cs[p].first <= w
        /\ p < Len(cs) => w < cs[p + 1].first
    BY <2>1, FilePosProperties
  <2>3. /\ cs = << >> => p = 0
        /\ cs # << >> => p \in 1..Len(cs)
    BY <1>2, ChainedPos
  <2> HIDE DEF p
  <2> QED
    BY <2>2, <2>3
<1>4. loaded = IF p = 0 THEN << >> ELSE SubSeq(cs, p, Len(cs))
    BY DEF FilesAfter
<1> HIDE DEF p, loaded
<1>5. CASE cs = << >>
    BY <1>3, <1>4, <1>5, EmptySeq DEF loaded
<1>6. CASE cs # << >>
  <2>1. p \in 1..Len(cs) /\ loaded = SubSeq(cs, p, Len(cs))
    <3>1. p \in 1..Len(cs)
      BY <1>3, <1>6
    <3>2. p # 0
      BY <3>1
    <3> QED
      BY <3>1, <3>2, <1>4
  <2>2. \A k \in p..Len(cs) : cs[k] \in Chunk
    BY <2>1, <1>1, ElementOfSeq
  <2>3. /\ loaded \in Seq(Chunk) /\ Len(loaded) = Len(cs) - p + 1
        /\ \A k \in 1..Len(cs) - p + 1 : loaded[k] = cs[p + k - 1]
    BY <2>1, <2>2, <1>1, SubSeqProperties
  <2>4. cs[p].first \in Nat /\ cs[p].last \in Nat /\ cs[p].first <= cs[p].last
    BY <2>1, ChunkNumbers DEF Chained
  <2>5. cs[p].first <= i + 1
    BY <1>2, <1>3, <1>6, <2>4
  <2>6. p < Len(cs) => i <= cs[p].last
    <3>1. SUFFICES ASSUME p < Len(cs) PROVE i <= cs[p].last
      OBVIOUS
    <3>2. p \in 1..Len(cs) - 1
      BY <3>1, <2>1, <1>1
    <3>3. cs[p + 1].first = cs[p].last + 1
      BY <3>2 DEF Chained, Gapless
    <3> QED
      BY <3>1, <3>3, <2>4, <1>3, <1>6
  <2> QED
    BY <2>1, <2>3, <2>5, <2>6, <1>6 DEF loaded
<1> QED
    BY <1>5, <1>6

LEMMA EndsOfSet ==
    ASSUME NEW n \in Nat, NEW T \in SUBSET (1..n), T # {}
    PROVE  /\ Min(T) \in T /\ Max(T) \in T
           /\ \A x \in T : Min(T) <= x /\ x <= Max(T)
<1>1. T \in SUBSET Nat
    OBVIOUS
<1>2. \E m \in T : \A k \in T : m <= k
    BY <1>1, LeastNat
<1>3. \E m \in T : \A k \in T : k <= m
    BY GreatestNat
<1>4. \E m \in T : \A k \in T : m >= k
    BY <1>1, <1>3
<1>5. Min(T) \in T /\ \A k \in T : Min(T) <= k
    BY <1>2 DEF Min
<1>6. Max(T) \in T /\ \A k \in T : Max(T) >= k
    BY <1>4 DEF Max
<1> QED
    BY <1>1, <1>5, <1>6

LEMMA StartType ==
    ASSUME StoreType, NEW unread \in SUBSET written, NEW unknown \in BOOLEAN,
           Start(unread, unknown)
    PROVE  StoreType'
<1> DEFINE b == BorderIndex(OnDisk)
           cs == ToSet(FilesAfter(OnDisk, b))
           got == IndicesIn(cs \ unread, b)
<1>1. /\ up' = TRUE /\ chunks' = OnDisk /\ written' = written /\ stops' = stops
      /\ persisted' = IF written = {} \/ unknown THEN 0 ELSE Last(OnDisk).last
      /\ low' = IF got = {} THEN 1 ELSE Min(got)
      /\ last' = IF got = {} THEN 0 ELSE Max(got)
      /\ fin' = last' /\ writing' = << >>
      /\ orderly' = (orderly /\ unread = {} /\ ~ unknown)
      /\ errors' = errors + Cardinality(unread) + (IF unknown THEN 1 ELSE 0)
      /\ errors' <= MaxErrors
    BY DEF Start
<1>2. OnDisk \in Seq(Chunk) /\ Len(OnDisk) = Cardinality(written) /\ IsFiniteSet(written)
    BY OnDiskType DEF StoreType
<1>3. b \in Nat
    BY <1>2, BorderIndexProperties, LimitAssumption DEF Index
<1>4. got \in SUBSET (1..MaxLen)
    BY <1>3 DEF IndicesIn
<1> HIDE DEF got, b
<1>5. low' \in 1..MaxLen + 1 /\ last' \in Index
  <2>1. CASE got = {}
    BY <2>1, <1>1, LimitAssumption DEF Index
  <2>2. CASE got # {}
    <3>1. MaxLen \in Nat
      BY LimitAssumption
    <3>2. Min(got) \in 1..MaxLen /\ Max(got) \in 1..MaxLen
      BY <2>2, <3>1, <1>4, EndsOfSet
    <3> QED
      BY <2>2, <3>1, <3>2, <1>1 DEF Index
  <2> QED
    BY <2>1, <2>2
<1>6. persisted' \in Index
  <2>1. CASE written = {} \/ unknown
    BY <2>1, <1>1, LimitAssumption DEF Index
  <2>2. CASE ~ (written = {} \/ unknown)
    <3>1. Cardinality(written) # 0
      BY <2>2, <1>2, FS_EmptySet
    <3>2. OnDisk # << >> /\ Len(OnDisk) \in 1..Len(OnDisk)
      BY <3>1, <1>2, EmptySeq
    <3>3. OnDisk[Len(OnDisk)] \in Chunk
      BY <3>2, <1>2, ElementOfSeq
    <3>4. persisted' = OnDisk[Len(OnDisk)].last
      BY <2>2, <1>1 DEF Last
    <3> QED
      BY <3>3, <3>4, LimitAssumption DEF Chunk, Index
  <2> QED
    BY <2>1, <2>2
<1>7. errors' \in 0..MaxErrors
  <2>1. IsFiniteSet(unread)
    BY <1>2, FS_Subset
  <2>2. Cardinality(unread) \in Nat
    BY <2>1, FS_CardinalityType
  <2>3. errors \in Nat /\ MaxErrors \in Nat
    BY LimitAssumption DEF StoreType
  <2>4. (IF unknown THEN 1 ELSE 0) \in Nat
    OBVIOUS
  <2>5. PICK u : u = IF unknown THEN 1 ELSE 0
    OBVIOUS
  <2> QED
    BY <2>2, <2>3, <2>4, <2>5, <1>1
<1>8. orderly' \in BOOLEAN
    BY <1>1
<1>9. writing' \in Seq(Chunk)
    BY <1>1, EmptySeq
<1> QED
    BY <1>1, <1>2, <1>5, <1>6, <1>7, <1>8, <1>9 DEF StoreType

(* A node that could read its files has them as its chunks, and in memory  *)
(* what they hold from the border on.                                      *)
LEMMA StartOrder ==
    ASSUME StoreType, StoreOrder, NEW unread \in SUBSET written, NEW unknown \in BOOLEAN,
           Start(unread, unknown), orderly'
    PROVE  StoreOrder'
<1> DEFINE b == BorderIndex(OnDisk)
           n == Len(OnDisk)
           loaded == FilesAfter(OnDisk, b)
           got == IndicesIn(ToSet(loaded), b)
<1>1. unread = {} /\ ~ unknown
    BY DEF Start
<1>2. ToSet(loaded) \ {} = ToSet(loaded)
    OBVIOUS
<1>3. /\ up' = TRUE /\ chunks' = OnDisk /\ written' = written
      /\ persisted' = IF written = {} THEN 0 ELSE Last(OnDisk).last
      /\ low' = IF got = {} THEN 1 ELSE Min(got)
      /\ last' = IF got = {} THEN 0 ELSE Max(got)
      /\ fin' = last' /\ writing' = << >>
    BY <1>1, <1>2 DEF Start
<1>4. /\ chunks \in Seq(Chunk) /\ writing \in Seq(Chunk) /\ Chained(chunks)
      /\ \E k \in Nat : HasFiles(k)
    BY DEF StoreType, StoreOrder, FilesInv
<1>5. PICK m \in Nat : HasFiles(m)
    BY <1>4
<1>6. /\ OnDisk \in Seq(Chunk) /\ Chained(OnDisk) /\ n = m
      /\ \A k \in 1..m : OnDisk[k] = chunks[k]
    BY <1>4, <1>5, OnDiskProperties
<1>7. /\ b \in Nat /\ b <= MaxLen /\ EndOf(OnDisk) \in Nat /\ EndOf(OnDisk) <= MaxLen
      /\ (b = 0 \/ b < EndOf(OnDisk))
    BY <1>6, BorderIndexProperties, EndOfProperties, BorderIsPersisted, LimitAssumption DEF Index
<1>8. written = {} <=> OnDisk = << >>
  <2>1. Cardinality(written) = n /\ IsFiniteSet(written)
    BY OnDiskType DEF StoreType
  <2>2. OnDisk = << >> <=> n = 0
    BY <1>6, EmptySeq
  <2> QED
    BY <2>1, <2>2, FS_EmptySet
<1>9. persisted' = EndOf(OnDisk)
    BY <1>3, <1>8 DEF EndOf, Last
<1>10. FilesInv'
  <2>1. HasFiles(m)'
    <3>1. written = {chunks[k] : k \in 1..m}
      BY <1>5 DEF HasFiles
    <3>2. {chunks[k] : k \in 1..m} = {OnDisk[k] : k \in 1..m}
      BY <1>6
    <3>3. written' = {chunks'[k] : k \in 1..m}
      BY <3>1, <3>2, <1>3
    <3>4. Len(writing') = 0 /\ Len(chunks') = m
      BY <1>3, <1>6
    <3> QED
      BY <3>3, <3>4 DEF HasFiles
  <2> QED
    BY <2>1, <1>3, <1>6, <1>9 DEF FilesInv
<1>11. low' = b + 1 /\ last' = EndOf(OnDisk)
  <2>1. CASE OnDisk = << >>
    <3>1. b = 0 /\ EndOf(OnDisk) = 0
      BY <2>1, BorderAssumption DEF BorderIndex, EndOf
    <3>2. loaded = << >>
      <4> HIDE DEF b
      <4> QED
        BY <2>1, <1>6, <1>7, FilesAfterProperties
    <3>3. got = {}
      BY <3>2, ToSetEmpty DEF IndicesIn
    <3> QED
      BY <3>1, <3>3, <1>3
  <2>2. CASE OnDisk # << >>
    <3> HIDE DEF b
    <3>1. n \in 1..n /\ n \in Nat /\ EndOf(OnDisk) = OnDisk[n].last
      BY <2>2, <1>6, EndOfProperties
    <3>2. PICK p \in 1..n :
            /\ Len(loaded) = n - p + 1
            /\ \A k \in 1..n - p + 1 : loaded[k] = OnDisk[p + k - 1]
            /\ OnDisk[p].first <= b + 1
      BY <2>2, <1>6, <1>7, FilesAfterProperties
    <3>3. loaded \in Seq(Chunk)
      BY <1>6, <1>7, FilesAfterType
    <3>4. ToSet(loaded) = {loaded[k] : k \in 1..n - p + 1}
      BY <3>2, <3>3, ToSetProperties
    <3> HIDE DEF loaded
    <3>5. \A k \in 1..n : /\ OnDisk[k].first \in Nat /\ OnDisk[k].last \in Nat
                          /\ OnDisk[k].first <= OnDisk[k].last
      BY <1>6, ChunkNumbers DEF Chained
    <3>6. \A j \in p..n : OnDisk[j] \in ToSet(loaded)
      <4>1. SUFFICES ASSUME NEW j \in p..n PROVE OnDisk[j] \in ToSet(loaded)
        OBVIOUS
      <4>2. j - p + 1 \in 1..n - p + 1 /\ p + (j - p + 1) - 1 = j
        BY <3>1
      <4> QED
        BY <4>2, <3>2, <3>4
    <3>7. \A c \in ToSet(loaded) : \E j \in 1..n : c = OnDisk[j]
      <4>1. \A k \in 1..n - p + 1 : p + k - 1 \in 1..n
        BY <3>1
      <4> QED
        BY <4>1, <3>2, <3>4
    <3>8. \A j \in 1..n : OnDisk[j].last <= EndOf(OnDisk)
      <4>1. SUFFICES ASSUME NEW j \in 1..n PROVE OnDisk[j].last <= OnDisk[n].last
        BY <3>1
      <4>2. CASE j = n
        BY <4>2, <3>1, <3>5
      <4>3. CASE j # n
        <5>1. OnDisk[j].last < OnDisk[n].first
          BY <4>3, <3>1, <1>6, GaplessOrder DEF Chained
        <5> QED
          BY <5>1, <3>1, <3>5
      <4> QED
        BY <4>2, <4>3
    <3>9. EndOf(OnDisk) >= b + 1
      BY <3>1, <3>5, <1>6, <1>7, ChunkNumbers
    <3>10. got = b + 1..EndOf(OnDisk)
      <4>1. ASSUME NEW i \in got PROVE i \in b + 1..EndOf(OnDisk)
        <5>1. PICK c \in ToSet(loaded) : i \in b + 1..MaxLen /\ i <= c.last
          BY DEF IndicesIn
        <5>2. PICK j \in 1..n : c = OnDisk[j]
          BY <3>7
        <5> QED
          BY <5>1, <5>2, <3>5, <3>8, <1>7
      <4>2. ASSUME NEW i \in b + 1..EndOf(OnDisk) PROVE i \in got
        <5>1. i \in 1..OnDisk[n].last /\ i \in b + 1..MaxLen
          BY <3>1, <1>7, LimitAssumption
        <5>2. PICK j \in 1..n : Holds(OnDisk[j], i)
          BY <5>1, <3>1, <1>6, ChainedCover
        <5>3. j \in p..n
          <6>1. SUFFICES ASSUME j < p PROVE FALSE
            BY <3>1
          <6>2. OnDisk[j].last < OnDisk[p].first
            BY <6>1, <1>6, GaplessOrder DEF Chained
          <6> QED
            BY <6>2, <5>1, <5>2, <3>2, <3>5, <1>7 DEF Holds
        <5> QED
          BY <5>1, <5>2, <5>3, <3>6 DEF IndicesIn, Holds
      <4> HIDE DEF got
      <4> QED
        BY <4>1, <4>2
    <3> HIDE DEF got
    <3>11. got \in SUBSET (1..MaxLen) /\ got # {} /\ MaxLen \in Nat
      BY <3>9, <3>10, <1>7, LimitAssumption
    <3>12. /\ Min(got) \in got /\ Max(got) \in got
           /\ \A x \in got : Min(got) <= x /\ x <= Max(got)
      BY <3>11, EndsOfSet
    <3>13. b + 1 \in got /\ EndOf(OnDisk) \in got
      BY <3>9, <3>10, <1>7
    <3>14. Min(got) = b + 1 /\ Max(got) = EndOf(OnDisk)
      <4>1. PICK x, y : x = Min(got) /\ y = Max(got)
        OBVIOUS
      <4>2. x \in got /\ y \in got /\ x <= b + 1 /\ EndOf(OnDisk) <= y
        BY <4>1, <3>12, <3>13
      <4> QED
        BY <4>1, <4>2, <3>10, <1>7
    <3> QED
      BY <3>11, <3>14, <1>3
  <2> QED
    BY <2>1, <2>2
<1>12. MemoryInv'
  <2>1. low' = BorderIndex(chunks') + 1
    BY <1>3, <1>11
  <2> QED
    BY <2>1, <1>3, <1>7, <1>9, <1>11 DEF MemoryInv
<1> QED
    BY <1>10, <1>12 DEF StoreOrder

(* The other steps list no chunk, write no file and prune nothing. *)
LEMMA QuietStore ==
    ASSUME StoreType, chunks' = chunks, persisted' = persisted,
           written' = written, writing' = writing, orderly' = orderly,
           low' = low, fin' = fin, last' \in Index,
           up' => up /\ fin <= last',
           up' \in BOOLEAN, errors' \in 0..MaxErrors, stops' \in 0..MaxStops
    PROVE  StoreType' /\ (StoreOrder => StoreOrder')
<1>1. StoreType'
    BY DEF StoreType
<1>2. ASSUME StoreOrder PROVE StoreOrder'
  <2>1. FilesInv'
    BY <1>2, FilesKept DEF StoreOrder
  <2>2. MemoryInv'
    BY <1>2 DEF StoreOrder, MemoryInv
  <2> QED
    BY <2>1, <2>2 DEF StoreOrder
<1> QED
    BY <1>1, <1>2

-----------------------------------------------------------------------------
(********************************** Reading *********************************)

(* What is in memory after an index: indices there are, *)
LEMMA MemoryPageType ==
    ASSUME StoreType, NEW from \in Index, NEW state \in State, NEW limit \in Int
    PROVE  MemoryPage(from, state, limit) \in Page
<1> DEFINE a == Max({from, low - 1})
           b == IF state = "finalized" THEN fin ELSE last
           e == Min({b, a + limit})
<1>1. from \in Nat /\ low - 1 \in Nat /\ b \in Nat /\ b <= MaxLen
    BY LimitAssumption DEF StoreType, Index
<1> HIDE DEF b
<1>2. a \in Nat
  <2>1. a = IF from >= low - 1 THEN from ELSE low - 1
    BY <1>1, MaxPair
  <2> HIDE DEF a
  <2> QED
    BY <2>1, <1>1
<1> HIDE DEF a
<1>3. e \in Int /\ e <= MaxLen
  <2>1. e = IF b <= a + limit THEN b ELSE a + limit
    BY <1>1, <1>2, MinPair
  <2> HIDE DEF e
  <2> QED
    BY <2>1, <1>1, <1>2, LimitAssumption
<1>4. MemoryPage(from, state, limit) = Indices(a, e)
    BY DEF MemoryPage, a, b
<1> HIDE DEF e
<1> QED
    BY <1>2, <1>3, <1>4, IndicesType

(* from there to the end or the limit. *)
LEMMA MemoryPageProperties ==
    ASSUME StoreType, StoreOrder, NEW from \in Index, NEW state \in State, NEW limit \in Nat,
           up
    PROVE  LET a == IF from >= low - 1 THEN from ELSE low - 1
           IN  \E e \in Index :
                  /\ MemoryPage(from, state, limit) = Indices(a, e)
                  /\ limit > 0 /\ a < fin => a < e
<1> DEFINE a == IF from >= low - 1 THEN from ELSE low - 1
           b == IF state = "finalized" THEN fin ELSE last
           e == IF b <= a + limit THEN b ELSE a + limit
<1>1. low \in Nat \ {0} /\ from \in Nat /\ from <= MaxLen /\ fin \in Index /\ last \in Index
      /\ fin <= last /\ fin \in Nat /\ last \in Nat
    BY LimitAssumption DEF StoreType, StoreOrder, MemoryInv, Index
<1>2. a \in Nat /\ b \in Index /\ b \in Nat /\ fin <= b
    BY <1>1
<1>3. Max({from, low - 1}) = a
    BY <1>1, MaxPair
<1>4. Min({b, a + limit}) = e
    BY <1>2, MinPair
<1>5. MemoryPage(from, state, limit) = Indices(a, e)
    BY <1>3, <1>4 DEF MemoryPage
<1>6. e \in Index
    BY <1>2, LimitAssumption DEF Index
<1>7. limit > 0 /\ a < fin => a < e
    BY <1>1, <1>2
<1> QED
    BY <1>5, <1>6, <1>7

(* The loop of the read leaves a page of indices there are, *)
LEMMA ContinueType ==
    ASSUME StoreType, NEW g \in Reads
    PROVE  Continue(g) \in Reads
<1> DEFINE rest == MemoryPage(g.from, g.state, PageSize - Len(g.page))
           first == IF fin = 0 THEN 0 ELSE low
<1>1. /\ g.from \in Index /\ g.page \in Page /\ g.state \in State
      /\ chunks \in Seq(Chunk) /\ << >> \in Page
    BY EmptySeq DEF Reads, StoreType, Page
<1>2. FilesAfter(chunks, g.from) \in Seq(Chunk)
  <2>1. g.from \in Nat
    BY <1>1, LimitAssumption DEF Index
  <2> QED
    BY <2>1, <1>1, FilesAfterType
<1>3. rest \in Page
  <2>1. PageSize - Len(g.page) \in Int
    BY <1>1, LenProperties, SizeAssumption DEF Page
  <2> QED
    BY <2>1, <1>1, MemoryPageType
<1>4. g.page \o rest \in Page
  <2> HIDE DEF rest
  <2> QED
    BY <1>1, <1>3, ConcatProperties DEF Page
<1>5. CASE g.from + 1 < first
  <2>1. Continue(g) = [g EXCEPT !.files = FilesAfter(chunks, g.from), !.part = << >>]
    BY <1>5 DEF Continue
  <2> QED
    BY <2>1, <1>1, <1>2 DEF Reads
<1>6. CASE ~ (g.from + 1 < first) /\ Joins(g.page, rest)
  <2>1. Continue(g) = [g EXCEPT !.phase = "done", !.page = @ \o rest]
    BY <1>6 DEF Continue
  <2> HIDE DEF rest
  <2> QED
    BY <2>1, <1>4 DEF Reads
<1>7. CASE ~ (g.from + 1 < first) /\ ~ Joins(g.page, rest)
  <2>1. Continue(g) = [g EXCEPT !.phase = "failed"]
    BY <1>7 DEF Continue
  <2> QED
    BY <2>1 DEF Reads
<1> QED
    BY <1>5, <1>6, <1>7

(* that is not empty if something was final after the index asked for, *)
LEMMA ContinueProgresses ==
    ASSUME StoreType, StoreOrder, up, NEW g \in Reads, g.phase = "reading", Progresses(g)
    PROVE  Progresses(Continue(g))
<1> DEFINE limit == PageSize - Len(g.page)
           rest == MemoryPage(g.from, g.state, limit)
           first == IF fin = 0 THEN 0 ELSE low
<1>1. /\ g.had <= fin /\ Len(g.page) < PageSize
      /\ g.page = << >> => g.from <= g.after
    BY DEF Progresses
<1>2. /\ g.from \in Index /\ g.page \in Page /\ g.state \in State
      /\ g.had \in Nat /\ g.after \in Nat /\ g.from \in Nat /\ fin \in Nat /\ low \in Nat
    BY LimitAssumption DEF Reads, StoreType, Index
<1>3. CASE g.from + 1 < first
  <2>1. Continue(g) = [g EXCEPT !.files = FilesAfter(chunks, g.from), !.part = << >>]
    BY <1>3 DEF Continue
  <2>2. /\ Continue(g).phase = "reading" /\ Continue(g).had = g.had
        /\ Continue(g).page = g.page /\ Continue(g).from = g.from
        /\ Continue(g).after = g.after
    BY <2>1 DEF Reads
  <2> QED
    BY <2>2, <1>1 DEF Progresses
<1>4. CASE ~ (g.from + 1 < first) /\ Joins(g.page, rest)
  <2>1. Continue(g) = [g EXCEPT !.phase = "done", !.page = @ \o rest]
    BY <1>4 DEF Continue
  <2>2. /\ Continue(g).phase = "done" /\ Continue(g).had = g.had
        /\ Continue(g).page = g.page \o rest /\ Continue(g).after = g.after
    BY <2>1 DEF Reads
  <2>3. limit \in Nat /\ limit > 0
    BY <1>1, <1>2, LenProperties, SizeAssumption DEF Page
  <2> DEFINE a == IF g.from >= low - 1 THEN g.from ELSE low - 1
  <2>4. PICK e \in Index : rest = Indices(a, e) /\ (limit > 0 /\ a < fin => a < e)
    <3> HIDE DEF limit
    <3> QED
      BY <1>2, <2>3, MemoryPageProperties
  <2> HIDE DEF limit, rest
  <2>5. ASSUME g.had > g.after PROVE g.page \o rest # << >>
    <3>1. CASE g.page # << >>
      <4>1. rest \in Seq(Int) /\ g.page \in Seq(Int)
        <5>1. a \in Int /\ e \in Int
          BY <1>2, LimitAssumption DEF Index
        <5>2. 1..MaxLen \subseteq Int
          OBVIOUS
        <5> HIDE DEF a
        <5>3. rest \in Seq(Int)
          BY <5>1, <2>4, IndicesProperties
        <5> QED
          BY <5>2, <5>3, <1>2, SeqMonotonic DEF Page
      <4> QED
        BY <3>1, <4>1, ConcatSimplifications!concIsEmpty
    <3>2. CASE g.page = << >>
      <4>1. g.from < fin /\ fin # 0
        BY <2>5, <3>2, <1>1, <1>2
      <4>2. low <= g.from + 1 /\ a = g.from
        BY <4>1, <1>2, <1>4
      <4>3. g.from < e /\ rest = Indices(g.from, e)
        BY <4>1, <4>2, <2>3, <2>4
      <4>4. e \in Nat
        BY LimitAssumption DEF Index
      <4>5. rest # << >> /\ rest \in Seq(Int)
        <5>1. g.from \in Int /\ e \in Int
          BY <4>4, <1>2
        <5>2. Indices(g.from, e) # << >> /\ Indices(g.from, e) \in Seq(Int)
          BY <5>1, <4>3, <4>4, <1>2, IndicesEnds, IndicesProperties
        <5> QED
          BY <5>2, <4>3
      <4>6. g.page \o rest = rest
        BY <3>2, <4>5, ConcatEmptySeq
      <4> QED
        BY <4>5, <4>6
    <3> QED
      BY <3>1, <3>2
  <2> QED
    BY <2>2, <2>5 DEF Progresses
<1>5. CASE ~ (g.from + 1 < first) /\ ~ Joins(g.page, rest)
  <2>1. Continue(g) = [g EXCEPT !.phase = "failed"]
    BY <1>5 DEF Continue
  <2>2. Continue(g).phase = "failed"
    BY <2>1 DEF Reads
  <2> QED
    BY <2>2 DEF Progresses
<1> QED
    BY <1>3, <1>4, <1>5

(* and that goes on where the page ends. *)
LEMMA ContinueFollows ==
    ASSUME StoreType, StoreOrder, up, NEW g \in Reads, g.phase = "reading",
           Len(g.page) < PageSize,
           g.after <= g.from, g.page = Indices(g.after, g.from)
    PROVE  Follows(Continue(g))
<1> DEFINE limit == PageSize - Len(g.page)
           rest == MemoryPage(g.from, g.state, limit)
           first == IF fin = 0 THEN 0 ELSE low
<1>1. /\ g.from \in Index /\ g.page \in Page /\ g.state \in State
      /\ g.after \in Nat /\ g.from \in Nat /\ fin \in Nat /\ low \in Nat
      /\ chunks \in Seq(Chunk) /\ Chained(chunks) /\ Len(chunks) \in Nat
    BY LimitAssumption, LenProperties DEF Reads, StoreType, StoreOrder, FilesInv, Index
<1>2. low = BorderIndex(chunks) + 1 /\ BorderIndex(chunks) \in Nat /\ fin >= BorderIndex(chunks)
  <2>1. low = BorderIndex(chunks) + 1 /\ persisted <= fin /\ persisted = EndOf(chunks)
    BY DEF StoreOrder, MemoryInv, FilesInv
  <2>2. BorderIndex(chunks) = 0 \/ BorderIndex(chunks) < persisted
    BY <1>1, <2>1, BorderIsPersisted
  <2>3. BorderIndex(chunks) \in Nat /\ persisted \in Nat
    BY <1>1, <2>1, BorderIndexProperties, EndOfProperties, LimitAssumption DEF Index
  <2> QED
    BY <1>1, <2>1, <2>2, <2>3
<1>3. CASE g.from + 1 < first
  <2> DEFINE cs == FilesAfter(chunks, g.from)
             n == Len(chunks)
             i == g.from
  <2>1. Continue(g) = [g EXCEPT !.files = cs, !.part = << >>]
    BY <1>3 DEF Continue
  <2>2. /\ Continue(g).phase = "reading" /\ Continue(g).after = g.after
        /\ Continue(g).page = g.page /\ Continue(g).from = i
        /\ Continue(g).part = << >> /\ Continue(g).files = cs
    BY <2>1 DEF Reads
  <2>3. i + 1 \in 1..BorderIndex(chunks)
    BY <1>1, <1>2, <1>3
  <2>4. PICK j \in 1..n - 1 : Holds(chunks[j], i + 1)
    BY <1>1, <2>3, BorderIsCovered
  <2>5. j \in 1..n /\ chunks # << >> /\ n >= 1
    BY <1>1, <2>4, EmptySeq
  <2>6. PICK p \in 1..n :
          /\ Len(cs) = n - p + 1
          /\ \A k \in 1..n - p + 1 : cs[k] = chunks[p + k - 1]
          /\ chunks[p].first <= i + 1
          /\ p < n => i <= chunks[p].last
    BY <1>1, <2>5, FilesAfterProperties
  <2>7. cs \in Seq(Chunk)
    BY <1>1, FilesAfterType
  <2> HIDE DEF cs
  <2>8. \A k \in 1..Len(cs) : /\ p + k - 1 \in 1..n /\ cs[k] = chunks[p + k - 1]
                              /\ k < Len(cs) => p + k - 1 \in 1..n - 1
    BY <1>1, <2>6
  <2>9. /\ \A k \in 1..n : /\ chunks[k].first \in Nat /\ chunks[k].last \in Nat
                           /\ chunks[k].first <= chunks[k].last
        /\ \A k \in 1..n - 1 : chunks[k + 1].first = chunks[k].last + 1
    BY <1>1, ChunkNumbers DEF Chained, Gapless
  <2>10. Gapless(cs)
    <3>1. SUFFICES ASSUME NEW k \in 1..Len(cs) - 1 PROVE cs[k + 1].first = cs[k].last + 1
      BY DEF Gapless
    <3>2. k \in 1..Len(cs) /\ k + 1 \in 1..Len(cs) /\ k < Len(cs)
      BY <1>1, <2>6
    <3>3. /\ cs[k] = chunks[p + k - 1] /\ p + k - 1 \in 1..n - 1
          /\ cs[k + 1] = chunks[(p + k - 1) + 1]
      <4>1. p + (k + 1) - 1 = (p + k - 1) + 1
        BY <1>1
      <4>2. cs[k] = chunks[p + k - 1] /\ p + k - 1 \in 1..n - 1
        BY <3>2, <2>8
      <4>3. cs[k + 1] = chunks[p + (k + 1) - 1]
        BY <3>2, <2>8
      <4> QED
        BY <4>1, <4>2, <4>3
    <3> QED
      BY <3>3, <2>9
  <2>11. j >= p
    <3>1. SUFFICES ASSUME j < p PROVE FALSE
      BY <1>1
    <3>2. chunks[j].last < chunks[p].first
      BY <3>1, <2>5, <1>1, GaplessOrder DEF Chained
    <3> QED
      BY <3>2, <2>4, <2>5, <2>6, <2>9, <1>1 DEF Holds
  <2>12. /\ p < n /\ 1 \in 1..Len(cs) /\ cs[1] = chunks[p] /\ cs # << >>
    <3>1. p < n /\ 1 \in 1..Len(cs) /\ p + 1 - 1 = p
      BY <1>1, <2>4, <2>6, <2>11
    <3> QED
      BY <3>1, <2>8, EmptySeq
  <2>13. j - p + 1 \in 1..Len(cs) - 1 /\ cs[j - p + 1] = chunks[j]
    <3>1. /\ j - p + 1 \in 1..Len(cs) - 1 /\ j - p + 1 \in 1..Len(cs)
          /\ p + (j - p + 1) - 1 = j
      BY <1>1, <2>4, <2>5, <2>6, <2>11
    <3> QED
      BY <3>1, <2>8
  <2>14. \A k \in 1..Len(cs) : cs[k].first <= cs[k].last
    BY <2>8, <2>9
  <2>16. Holds(cs[j - p + 1], i + 1)
    BY <2>4, <2>13
  <2>17. Continues(cs, i, FALSE)
    BY <2>6, <2>10, <2>12, <2>13, <2>14, <2>16 DEF Continues
  <2>19. Window(cs, chunks)
    <3>1. p - 1 \in Nat /\ (p - 1) + Len(cs) <= n
      <4>1. PICK l : l = Len(cs)
        OBVIOUS
      <4>2. p \in 1..n /\ n \in Nat /\ l = n - p + 1
        BY <4>1, <1>1, <2>6
      <4> HIDE DEF n
      <4> QED
        BY <4>1, <4>2
    <3>2. ASSUME NEW k \in 1..Len(cs) PROVE cs[k] = chunks[(p - 1) + k]
      <4>1. p + k - 1 = (p - 1) + k
        BY <1>1
      <4> QED
        BY <4>1, <2>8
    <3> QED
      BY <3>1, <3>2 DEF Window
  <2>18. Indices(i, i + Len(<< >>)) = << >> /\ i + Len(<< >>) = i
    <3>1. Len(<< >>) = 0 /\ i + 0 = i /\ i \in Int /\ i <= i
      BY <1>1
    <3>2. Indices(i, i) = << >>
      BY <3>1, IndicesProperties
    <3> QED
      BY <3>1, <3>2
  <2> QED
    BY <2>2, <2>17, <2>18, <2>19 DEF Follows
<1>4. CASE ~ (g.from + 1 < first)
  <2>1. low <= g.from + 1
    BY <1>1, <1>2, <1>4
  <2>2. limit \in Nat /\ limit > 0
    BY <1>1, LenProperties, SizeAssumption DEF Page
  <2>3. PICK e \in Index : rest = Indices(g.from, e)
    <3>1. g.from >= low - 1
      BY <2>1, <1>1
    <3> HIDE DEF limit
    <3> QED
      BY <1>1, <2>2, <3>1, MemoryPageProperties
  <2>4. e \in Nat
    BY LimitAssumption DEF Index
  <2> DEFINE m == IF g.from <= e THEN e ELSE g.from
  <2>5. rest = Indices(g.from, m) /\ m \in Nat /\ g.from <= m
    <3>1. CASE g.from <= e
      BY <3>1, <2>3, <2>4
    <3>2. CASE ~ (g.from <= e)
      <4>1. rest = << >> /\ Indices(g.from, g.from) = << >>
        <5>1. g.from \in Int /\ e \in Int /\ e <= g.from /\ g.from <= g.from
          BY <3>2, <2>4, <1>1
        <5> QED
          BY <5>1, <2>3, IndicesProperties
      <4> QED
        BY <3>2, <4>1, <2>4, <1>1
    <3> QED
      BY <3>1, <3>2
  <2> HIDE DEF m, rest, limit
  <2>6. g.page \o rest = Indices(g.after, m)
    <3>1. g.after \in Int /\ g.from \in Int /\ m \in Int
      BY <2>5, <1>1
    <3> QED
      <4>1. g.after <= g.from /\ g.from <= m
        BY <2>5
      <4>2. Indices(g.after, g.from) \o Indices(g.from, m) = Indices(g.after, m)
        BY <3>1, <4>1, IndicesConcat
      <4> QED
        BY <4>2, <2>5
  <2>7. Len(g.page \o rest) = m - g.after
    <3>1. g.after \in Int /\ m \in Int /\ g.after <= m
      BY <2>5, <1>1
    <3> QED
      BY <3>1, <2>6, IndicesProperties
  <2>8. g.after + (m - g.after) = m
    BY <2>5, <1>1
  <2>9. Joins(g.page, rest)
    <3>1. g.page # << >> => Last(g.page) = g.from
      <4>1. g.after \in Nat /\ g.from \in Nat /\ g.after <= g.from
        BY <1>1
      <4>2. CASE g.after < g.from
        <5>1. Last(Indices(g.after, g.from)) = g.from
          BY <4>1, <4>2, IndicesEnds
        <5> QED
          BY <5>1, <1>1
      <4>3. CASE ~ (g.after < g.from)
        <5>1. g.after \in Int /\ g.from \in Int /\ g.from <= g.after
          BY <4>1, <4>3
        <5>2. Indices(g.after, g.from) = << >>
          BY <5>1, IndicesProperties
        <5> QED
          BY <5>2, <1>1
      <4> QED
        BY <4>2, <4>3
    <3>2. rest # << >> => Head(rest) = g.from + 1
      <4>1. g.from \in Nat /\ m \in Nat /\ g.from <= m
        BY <2>5, <1>1
      <4>2. CASE g.from < m
        <5>1. Head(Indices(g.from, m)) = g.from + 1
          BY <4>1, <4>2, IndicesEnds
        <5> QED
          BY <5>1, <2>5
      <4>3. CASE ~ (g.from < m)
        <5>1. g.from \in Int /\ m \in Int /\ m <= g.from
          BY <4>1, <4>3
        <5>2. Indices(g.from, m) = << >>
          BY <5>1, IndicesProperties
        <5> QED
          BY <5>2, <2>5
      <4> QED
        BY <4>2, <4>3
    <3> QED
      BY <3>1, <3>2 DEF Joins
  <2>10. Continue(g) = [g EXCEPT !.phase = "done", !.page = @ \o rest]
    BY <2>9, <1>4 DEF Continue, rest, limit
  <2>11. /\ Continue(g).phase = "done" /\ Continue(g).after = g.after
         /\ Continue(g).page = g.page \o rest
    BY <2>10 DEF Reads
  <2> QED
    BY <2>6, <2>7, <2>8, <2>11 DEF Follows
<1> QED
    BY <1>3, <1>4

LEMMA LastOrZeroType ==
    ASSUME NEW p \in Page
    PROVE  LastOrZero(p) \in Index /\ (p = << >> => LastOrZero(p) = 0)
<1>1. CASE p = << >>
    BY <1>1, LimitAssumption DEF LastOrZero, Index
<1>2. CASE p # << >>
  <2>1. Len(p) \in 1..Len(p)
    BY <1>2, EmptySeq DEF Page
  <2>2. p[Len(p)] \in 1..MaxLen
    BY <2>1, ElementOfSeq DEF Page
  <2> QED
    BY <1>2, <2>2, LimitAssumption DEF LastOrZero, Last, Index
<1> QED
    BY <1>1, <1>2

(* A file that was read: the next file, an answer, or on with the loop. *)
LEMMA WithChunkType ==
    ASSUME StoreType, NEW g \in Reads, g.files # << >>, NEW fresh \in Page
    PROVE  WithChunk(g, fresh) \in Reads
<1> DEFINE part == g.part \o fresh
           page == g.page \o part
           h == WithChunk(g, fresh)
           next == [g EXCEPT !.page = page, !.from = NextFrom(g, page)]
<1>1. g.page \in Page /\ g.part \in Page /\ g.files \in Seq(Chunk)
    BY DEF Reads
<1>2. part \in Page /\ page \in Page /\ Tail(g.files) \in Seq(Chunk)
    BY <1>1, ConcatProperties, HeadTailProperties DEF Page
<1>3. Len(page) \in Nat /\ PageSize \in Nat \ {0}
    BY <1>2, LenProperties, SizeAssumption DEF Page
<1> HIDE DEF part, page
<1>4. CASE ~ Joins(g.part, fresh) \/ ~ Joins(g.page, part)
  <2>1. h = [g EXCEPT !.phase = "failed"]
    BY <1>4 DEF WithChunk, part, page
  <2> QED
    BY <2>1 DEF Reads
<1>5. CASE /\ ~ (~ Joins(g.part, fresh) \/ ~ Joins(g.page, part))
           /\ Tail(g.files) # << >> /\ Len(page) < PageSize
  <2>1. h = [g EXCEPT !.part = part, !.files = Tail(@)]
    BY <1>5 DEF WithChunk, part, page
  <2> QED
    BY <1>2, <2>1 DEF Reads
<1>6. CASE /\ ~ (~ Joins(g.part, fresh) \/ ~ Joins(g.page, part))
           /\ ~ (Tail(g.files) # << >> /\ Len(page) < PageSize)
           /\ Len(page) >= PageSize
  <2>1. h = [g EXCEPT !.phase = "done", !.page = SubSeq(page, 1, PageSize)]
    BY <1>6 DEF WithChunk, part, page
  <2>2. SubSeq(page, 1, PageSize) \in Page
    <3>1. 1 \in Nat \ {0} /\ PageSize \in Int /\ PageSize <= Len(page)
      BY <1>3, <1>6
    <3> QED
      BY <3>1, <1>2, SubSeqType DEF Page
  <2> QED
    BY <2>1, <2>2 DEF Reads
<1>7. CASE /\ ~ (~ Joins(g.part, fresh) \/ ~ Joins(g.page, part))
           /\ ~ (Tail(g.files) # << >> /\ Len(page) < PageSize)
           /\ ~ (Len(page) >= PageSize)
  <2>1. h = Continue(next)
    BY <1>7 DEF WithChunk, part, page
  <2>2. NextFrom(g, page) \in Index
    BY <1>2, LastOrZeroType DEF NextFrom
  <2>3. next \in Reads
    BY <1>2, <2>2 DEF Reads
  <2> HIDE DEF next
  <2>4. Continue(next) \in Reads
    BY <2>3, ContinueType
  <2> QED
    BY <2>1, <2>4
<1> QED
    BY <1>4, <1>5, <1>6, <1>7

LEMMA WithChunkProgresses ==
    ASSUME StoreType, StoreOrder, up,
           NEW g \in Reads, g.phase = "reading", g.files # << >>,
           Progresses(g), NEW fresh \in Page
    PROVE  Progresses(WithChunk(g, fresh))
<1> DEFINE part == g.part \o fresh
           page == g.page \o part
           h == WithChunk(g, fresh)
           next == [g EXCEPT !.page = page, !.from = NextFrom(g, page)]
<1>1. /\ g.page \in Page /\ g.part \in Page /\ g.files \in Seq(Chunk)
      /\ g.had <= fin /\ (g.page = << >> => g.from <= g.after)
      /\ Len(g.page) < PageSize /\ g.after \in Nat
    BY LimitAssumption DEF Reads, Progresses, Index
<1>2. part \in Page /\ page \in Page /\ Tail(g.files) \in Seq(Chunk)
    BY <1>1, ConcatProperties, HeadTailProperties DEF Page
<1>3. Len(page) \in Nat /\ PageSize \in Nat \ {0}
    BY <1>2, LenProperties, SizeAssumption DEF Page
<1> HIDE DEF part, page
<1>4. CASE ~ Joins(g.part, fresh) \/ ~ Joins(g.page, part)
  <2>1. h = [g EXCEPT !.phase = "failed"]
    BY <1>4 DEF WithChunk, part, page
  <2>2. h \in Reads /\ h.phase = "failed"
    BY <2>1 DEF Reads
  <2> QED
    BY <2>2 DEF Progresses
<1>5. CASE /\ ~ (~ Joins(g.part, fresh) \/ ~ Joins(g.page, part))
           /\ Tail(g.files) # << >> /\ Len(page) < PageSize
  <2>1. h = [g EXCEPT !.part = part, !.files = Tail(@)]
    BY <1>5 DEF WithChunk, part, page
  <2>2. h \in Reads /\ h.phase = "reading" /\ h.had = g.had /\ h.page = g.page
        /\ h.from = g.from /\ h.after = g.after
    BY <1>2, <2>1 DEF Reads
  <2> QED
    BY <1>1, <2>2 DEF Progresses
<1>6. CASE /\ ~ (~ Joins(g.part, fresh) \/ ~ Joins(g.page, part))
           /\ ~ (Tail(g.files) # << >> /\ Len(page) < PageSize)
           /\ Len(page) >= PageSize
  <2>1. h = [g EXCEPT !.phase = "done", !.page = SubSeq(page, 1, PageSize)]
    BY <1>6 DEF WithChunk, part, page
  <2>2. \A i \in 1..PageSize : i \in 1..Len(page) /\ page[i] \in 1..MaxLen
    <3>1. \A i \in 1..PageSize : i \in 1..Len(page)
      BY <1>3, <1>6
    <3>2. \A i \in 1..Len(page) : page[i] \in 1..MaxLen
      BY <1>2, ElementOfSeq DEF Page
    <3> QED
      BY <3>1, <3>2
  <2>3. SubSeq(page, 1, PageSize) \in Page /\ Len(SubSeq(page, 1, PageSize)) = PageSize
    BY <1>3, <2>2, SubSeqProperties DEF Page
  <2>4. h \in Reads /\ h.phase = "done" /\ h.page = SubSeq(page, 1, PageSize)
    BY <2>1, <2>3 DEF Reads
  <2>5. h.page # << >>
    BY <2>3, <2>4, <1>3, EmptySeq
  <2> QED
    BY <2>4, <2>5 DEF Progresses
<1>7. CASE /\ ~ (~ Joins(g.part, fresh) \/ ~ Joins(g.page, part))
           /\ ~ (Tail(g.files) # << >> /\ Len(page) < PageSize)
           /\ ~ (Len(page) >= PageSize)
  <2>1. h = Continue(next)
    BY <1>7 DEF WithChunk, part, page
  <2>2. /\ NextFrom(g, page) \in Index
        /\ page = << >> => NextFrom(g, page) = 0
    BY <1>2, LastOrZeroType DEF NextFrom
  <2>3. /\ next \in Reads /\ next.phase = "reading" /\ next.had = g.had
        /\ next.page = page /\ next.from = NextFrom(g, page) /\ next.after = g.after
    BY <1>2, <2>2 DEF Reads
  <2>4. Len(page) < PageSize
    BY <1>3, <1>7
  <2> HIDE DEF next, h
  <2>5. Progresses(next)
    BY <1>1, <2>2, <2>3, <2>4 DEF Progresses
  <2>7. Progresses(Continue(next))
    BY <2>3, <2>5, ContinueProgresses
  <2>8. WithChunk(g, fresh) = Continue(next)
    BY <2>1 DEF h
  <2> QED
    BY <2>7, <2>8
<1> QED
    BY <1>4, <1>5, <1>6, <1>7

LEMMA TailEmpty ==
    ASSUME NEW cs \in Seq(Chunk), cs # << >>, Tail(cs) = << >>
    PROVE  Len(cs) = 1
<1>1. \A s \in Seq(Chunk) : s = << >> <=> Len(s) = 0
    BY EmptySeq
<1> DEFINE t == Tail(cs)
<1>2. t \in Seq(Chunk) /\ Len(t) = Len(cs) - 1 /\ Len(cs) \in Nat
    BY HeadTailProperties, LenProperties
<1>3. t = << >>
    OBVIOUS
<1> HIDE DEF t
<1>4. Len(t) = 0
    BY <1>1, <1>2, <1>3
<1> QED
    BY <1>2, <1>4

(* The chunks behind one that was read continue what it held. *)
LEMMA ContinuesBehind ==
    ASSUME NEW cs \in Seq(Chunk), NEW i \in Nat, NEW fresh \in BOOLEAN,
           Continues(cs, i, fresh), Tail(cs) # << >>
    PROVE  Continues(Tail(cs), cs[1].last, fresh \/ i < cs[1].last)
<1> DEFINE n == Len(cs)
           t == Tail(cs)
<1>1. /\ n \in Nat /\ cs # << >> /\ i <= cs[1].last /\ cs[1].first <= i + 1
      /\ \A k \in 1..n : cs[k].first <= cs[k].last
      /\ \A k \in 1..n - 1 : cs[k + 1].first = cs[k].last + 1
    BY LenProperties DEF Continues, Gapless
<1>2. /\ t \in Seq(Chunk) /\ Len(t) = n - 1
      /\ \A k \in 1..n - 1 : t[k] = cs[k + 1]
    BY <1>1, HeadTailProperties
<1> HIDE DEF t
<1>3. n >= 2 /\ 1 \in 1..n - 1 /\ 1 \in 1..n
  <2>1. Len(t) \in Nat \ {0}
    BY <1>2, EmptySeq DEF t
  <2> QED
    BY <2>1, <1>1, <1>2
<1>4. cs[1].last \in Nat /\ cs[1].first \in Nat
    BY <1>3, ChunkNumbers
<1>5. \A k \in 1..n - 1 : /\ k + 1 \in 1..n /\ k \in 1..n
                          /\ k < n - 1 => k + 1 \in 1..n - 1
    BY <1>1
<1>6. Gapless(t)
  <2>1. SUFFICES ASSUME NEW k \in 1..Len(t) - 1 PROVE t[k + 1].first = t[k].last + 1
    BY DEF Gapless
  <2>2. k \in 1..n - 1 /\ k + 1 \in 1..n - 1
    BY <1>1, <1>2
  <2>3. t[k] = cs[k + 1] /\ t[k + 1] = cs[(k + 1) + 1]
    BY <2>2, <1>2
  <2>4. cs[(k + 1) + 1].first = cs[k + 1].last + 1
    BY <2>2, <1>1
  <2> QED
    BY <2>3, <2>4
<1>7. \A k \in 1..Len(t) : t[k].first <= t[k].last
    BY <1>1, <1>2, <1>5
<1>9. t[1].first = cs[1].last + 1 /\ t[1].first <= t[1].last /\ t[1].last \in Nat
  <2>1. t[1] = cs[1 + 1] /\ 1 \in 1..Len(t)
    BY <1>2, <1>3
  <2>2. t[1].first = cs[1].last + 1
    BY <2>1, <1>1, <1>3
  <2> QED
    BY <2>1, <2>2, <1>2, <1>7, ChunkNumbers
<1>10. ASSUME ~ (fresh \/ i < cs[1].last)
       PROVE  \E k \in 1..Len(t) - 1 : Holds(t[k], cs[1].last + 1)
  <2>1. cs[1].last = i
    BY <1>1, <1>4, <1>10
  <2>2. PICK k \in 1..n - 1 : Holds(cs[k], i + 1)
    BY <1>10 DEF Continues
  <2>3. k # 1
    BY <2>1, <2>2, <1>4 DEF Holds
  <2>4. k - 1 \in 1..n - 1 /\ (k - 1) + 1 = k /\ k - 1 \in 1..(n - 1) - 1
    BY <2>2, <2>3, <1>1
  <2>5. t[k - 1] = cs[k] /\ k - 1 \in 1..Len(t) - 1
    BY <2>4, <1>2
  <2> QED
    BY <2>1, <2>2, <2>5
<1>11. /\ t[1].first <= cs[1].last + 1 /\ cs[1].last <= t[1].last
       /\ t # << >>
    BY <1>4, <1>9 DEF t
<1>12. Continues(t, cs[1].last, fresh \/ i < cs[1].last)
    BY <1>6, <1>7, <1>9, <1>10, <1>11 DEF Continues
<1> QED
    BY <1>12 DEF t

(* The rest of a part is a part. *)
LEMMA WindowBehind ==
    ASSUME NEW cs \in Seq(Chunk), cs # << >>, NEW all \in Seq(Chunk), Window(cs, all)
    PROVE  Window(Tail(cs), all)
<1> DEFINE t == Tail(cs)
<1>1. /\ t \in Seq(Chunk) /\ Len(t) = Len(cs) - 1 /\ Len(cs) \in Nat
      /\ \A k \in 1..Len(cs) - 1 : t[k] = cs[k + 1]
    BY HeadTailProperties, LenProperties
<1> HIDE DEF t
<1>2. PICK p \in Nat : /\ p + Len(cs) <= Len(all)
                       /\ \A k \in 1..Len(cs) : cs[k] = all[p + k]
    BY DEF Window
<1>3. p + 1 \in Nat /\ (p + 1) + Len(t) <= Len(all)
  <2>1. Len(all) \in Nat
    BY LenProperties
  <2> QED
    BY <2>1, <1>1, <1>2
<1>4. ASSUME NEW k \in 1..Len(t) PROVE t[k] = all[(p + 1) + k]
  <2>1. k \in 1..Len(cs) - 1 /\ k + 1 \in 1..Len(cs) /\ p + (k + 1) = (p + 1) + k
    BY <1>1, <1>2
  <2>2. t[k] = cs[k + 1] /\ cs[k + 1] = all[p + (k + 1)]
    BY <2>1, <1>1, <1>2
  <2> QED
    BY <2>1, <2>2
<1> QED
    BY <1>3, <1>4 DEF Window, t

(* When a worker reads the next file, it is there, unless it is that of    *)
(* the last chunk: of two files to read that are not there, two writes are *)
(* under way.                                                              *)
LEMMA FileIsThere ==
    ASSUME StoreType, StoreOrder, NEW cs \in Seq(Chunk), Window(cs, chunks),
           Cardinality({k \in DOMAIN writing : writing[k] \in ToSet(cs)}) < Workers,
           cs # << >>, Tail(cs) # << >>
    PROVE  cs[1] \in written
<1> DEFINE n == Len(chunks)
           w == Len(writing)
           W == {k \in DOMAIN writing : writing[k] \in ToSet(cs)}
<1>1. /\ chunks \in Seq(Chunk) /\ writing \in Seq(Chunk) /\ n \in Nat /\ w \in Nat
      /\ Len(cs) \in Nat
    BY LenProperties DEF StoreType
<1>2. Len(cs) >= 2
  <2> DEFINE t == Tail(cs)
  <2>1. t \in Seq(Chunk) /\ Len(t) = Len(cs) - 1 /\ t # << >>
    BY HeadTailProperties
  <2> HIDE DEF t
  <2>2. Len(t) # 0 /\ Len(t) \in Nat
    BY <2>1, EmptySeq, LenProperties
  <2> QED
    BY <2>1, <2>2, <1>1
<1>3. PICK p \in Nat : p + Len(cs) <= n /\ \A k \in 1..Len(cs) : cs[k] = chunks[p + k]
    BY DEF Window
<1>4. PICK m \in Nat : HasFiles(m)
    BY DEF StoreOrder, FilesInv
<1>5. /\ m = n - w /\ written = {chunks[k] : k \in 1..m}
      /\ \A k \in 1..w : writing[k] = chunks[m + k]
    BY <1>4 DEF HasFiles
<1>6. SUFFICES ASSUME cs[1] \notin written PROVE FALSE
    OBVIOUS
<1>7. p + 1 > m
  <2>1. cs[1] = chunks[p + 1]
    BY <1>1, <1>2, <1>3
  <2>2. p + 1 \notin 1..m
    BY <2>1, <1>5, <1>6
  <2> QED
    BY <2>2
<1>8. /\ p + 1 - m \in 1..w /\ m + (p + 1 - m) = p + 1
      /\ p + 2 - m \in 1..w /\ m + (p + 2 - m) = p + 2
      /\ p + 1 - m # p + 2 - m
    BY <1>1, <1>2, <1>3, <1>5, <1>7
<1>9. writing[p + 1 - m] = cs[1] /\ writing[p + 2 - m] = cs[2]
  <2>1. writing[p + 1 - m] = chunks[p + 1] /\ writing[p + 2 - m] = chunks[p + 2]
    <3>1. \A k \in 1..w : writing[k] = chunks[m + k]
      BY <1>5
    <3>2. writing[p + 1 - m] = chunks[m + (p + 1 - m)]
      BY <3>1, <1>8
    <3>3. writing[p + 2 - m] = chunks[m + (p + 2 - m)]
      BY <3>1, <1>8
    <3> QED
      BY <3>2, <3>3, <1>8
  <2>2. cs[1] = chunks[p + 1] /\ cs[2] = chunks[p + 2]
    BY <1>1, <1>2, <1>3
  <2> QED
    BY <2>1, <2>2
<1>10. cs[1] \in ToSet(cs) /\ cs[2] \in ToSet(cs)
  <2>1. ToSet(cs) = {cs[k] : k \in 1..Len(cs)}
    BY ToSetProperties
  <2> QED
    BY <2>1, <1>1, <1>2
<1>11. DOMAIN writing = 1..w
    BY <1>1, LenProperties
<1>12. p + 1 - m \in W /\ p + 2 - m \in W
    BY <1>8, <1>9, <1>10, <1>11
<1>13. PICK i, j : i = p + 1 - m /\ j = p + 2 - m
    OBVIOUS
<1>14. IsFiniteSet(W) /\ {i, j} \in SUBSET W /\ i # j
  <2>1. IsFiniteSet(1..w) /\ W \in SUBSET (1..w)
    BY <1>1, <1>11, FS_Interval
  <2>2. IsFiniteSet(W)
    BY <2>1, FS_Subset
  <2> HIDE DEF W
  <2> QED
    BY <2>2, <1>8, <1>12, <1>13
<1>15. Cardinality({i, j}) = 2
    BY <1>14, PairCardinality
<1> HIDE DEF W
<1>16. Cardinality({i, j}) <= Cardinality(W) /\ Cardinality(W) \in Nat
    BY <1>14, FS_Subset, FS_CardinalityType
<1>17. Cardinality(W) < 2
    BY DEF W, Workers
<1> QED
    BY <1>15, <1>16, <1>17

(* A file that is there is read, and no other one in its place. *)
LEMMA LoadedIs ==
    ASSUME StoreType, StoreOrder, NEW cs \in Seq(Chunk), Window(cs, chunks), cs # << >>,
           NEW from \in Index
    PROVE  /\ cs[1] \in written =>
                Loaded(cs[1], from) = Indices(Max({cs[1].first - 1, from}), cs[1].last)
           /\ cs[1] \notin written => Loaded(cs[1], from) = << >>
<1> DEFINE c == cs[1]
           file == {d \in written : d.first = c.first}
<1>1. Loaded(c, from) = IF file = {} THEN << >>
                        ELSE Indices(Max({c.first - 1, from}), (CHOOSE d \in file : TRUE).last)
    BY DEF Loaded
<1>2. ASSUME c \in written
      PROVE  Loaded(c, from) = Indices(Max({c.first - 1, from}), c.last)
  <2>1. file = {c}
    BY <1>2 DEF StoreType
  <2>2. (CHOOSE d \in file : TRUE) = c
    BY <2>1
  <2> HIDE DEF c, file
  <2> QED
    BY <2>1, <2>2, <1>1
<1>3. ASSUME c \notin written
      PROVE  Loaded(c, from) = << >>
  <2>1. chunks \in Seq(Chunk) /\ Chained(chunks) /\ Len(chunks) \in Nat /\ Len(cs) \in Nat
    BY LenProperties DEF StoreType, StoreOrder, FilesInv
  <2>2. PICK p \in Nat : p + Len(cs) <= Len(chunks)
                         /\ \A k \in 1..Len(cs) : cs[k] = chunks[p + k]
    BY DEF Window
  <2>3. p + 1 \in 1..Len(chunks) /\ c = chunks[p + 1]
    <3>1. Len(cs) # 0
      BY EmptySeq
    <3> QED
      BY <3>1, <2>1, <2>2
  <2>4. PICK m \in Nat : HasFiles(m)
    BY DEF StoreOrder, FilesInv
  <2>5. m <= Len(chunks) /\ written = {chunks[k] : k \in 1..m}
    <3>1. m = Len(chunks) - Len(writing) /\ Len(writing) \in Nat
      BY <2>4, LenProperties DEF HasFiles, StoreType
    <3> QED
      BY <3>1, <2>1, <2>4 DEF HasFiles
  <2>6. ASSUME NEW d \in file PROVE FALSE
    <3>1. PICK k \in 1..m : d = chunks[k]
      BY <2>5
    <3>2. k \in 1..Len(chunks) /\ chunks[k].first = chunks[p + 1].first
      BY <3>1, <2>1, <2>3, <2>5
    <3>3. chunks[k].first \in Nat
      BY <3>2, <2>1, ChunkNumbers
    <3>4. ~ (k < p + 1) /\ ~ (p + 1 < k)
      <4>1. chunks[k].first < chunks[p + 1].first <=> k < p + 1
        BY <3>2, <2>1, <2>3, GaplessFirst DEF Chained
      <4>2. chunks[p + 1].first < chunks[k].first <=> p + 1 < k
        BY <3>2, <2>1, <2>3, GaplessFirst DEF Chained
      <4> QED
        BY <4>1, <4>2, <3>2, <3>3
    <3>5. k = p + 1
      BY <3>4
    <3> QED
      BY <3>1, <3>5, <2>3, <1>3
  <2>7. file = {}
    BY <2>6
  <2> QED
    BY <2>7, <1>1
<1> QED
    BY <1>2, <1>3

(* What a file adds to the part that is being put together: all up to some *)
(* index e, which is right before the next file; without a next file, it   *)
(* is not before the index that was wanted next.                           *)
LEMMA LoadedPart ==
    ASSUME StoreType, StoreOrder, NEW g \in Reads, g.phase = "reading", Follows(g), Runs(g)
    PROVE  \E e \in Nat :
              /\ g.from + Len(g.part) <= e /\ e <= MaxLen
              /\ Loaded(Head(g.files), g.from) = Indices(g.from + Len(g.part), e)
              /\ IF Tail(g.files) = << >>
                 THEN g.from < e
                 ELSE Continues(Tail(g.files), e, g.from < e) /\ Window(Tail(g.files), chunks)
<1> DEFINE i == g.from + Len(g.part)
           c == g.files[1]
<1>1. /\ g.files \in Seq(Chunk) /\ g.part \in Page /\ g.from \in Nat /\ Len(g.part) \in Nat
      /\ g.from <= MaxLen
    BY LenProperties, LimitAssumption DEF Reads, Page, Index
<1>2. /\ g.part = Indices(g.from, i) /\ Continues(g.files, i, g.part # << >>)
      /\ g.files # << >> /\ Window(g.files, chunks)
    BY DEF Follows, Continues
<1>3. i \in Nat /\ 1 \in 1..Len(g.files) /\ Len(g.files) \in Nat /\ Head(g.files) = c
    BY <1>1, <1>2, EmptySeq, LenProperties
<1>4. /\ c.first \in Nat \ {0} /\ c.last \in Nat /\ c.last <= MaxLen /\ c.first <= c.last
      /\ c.first <= i + 1 /\ i <= c.last
  <2>1. c \in Chunk /\ c.first \in Nat \ {0} /\ c.last \in Nat
    BY <1>1, <1>3, ChunkNumbers
  <2>2. c.last <= MaxLen
    BY <2>1, LimitAssumption DEF Chunk
  <2> QED
    BY <2>1, <2>2, <1>2, <1>3 DEF Continues
<1>5. g.part # << >> <=> g.from < i
  <2>1. g.part = << >> <=> Len(g.part) = 0
    BY <1>1, EmptySeq DEF Page
  <2> QED
    BY <2>1, <1>1
<1>8. /\ c \in written =>
           Loaded(Head(g.files), g.from) = Indices(Max({c.first - 1, g.from}), c.last)
      /\ c \notin written => Loaded(Head(g.files), g.from) = << >>
  <2>1. g.from \in Index /\ chunks \in Seq(Chunk)
    BY DEF Reads, StoreType
  <2> QED
    BY <2>1, <1>1, <1>2, <1>3, LoadedIs
<1>9. ASSUME Tail(g.files) # << >> PROVE c \in written /\ Window(Tail(g.files), chunks)
  <2>1. chunks \in Seq(Chunk)
    BY DEF StoreType
  <2>2. Cardinality({k \in DOMAIN writing : writing[k] \in ToSet(g.files)}) < Workers
    BY DEF Runs
  <2>3. c \in written
    BY <2>2, <1>1, <1>2, <1>9, FileIsThere
  <2>4. Window(Tail(g.files), chunks)
    BY <2>1, <1>1, <1>2, WindowBehind
  <2> QED
    BY <2>3, <2>4
<1>10. g.part = << >> => Len(g.files) # 1
  <2>1. SUFFICES ASSUME g.part = << >>, Len(g.files) = 1 PROVE FALSE
    OBVIOUS
  <2>2. \E k \in 1..Len(g.files) - 1 : Holds(g.files[k], i + 1)
    BY <2>1, <1>2 DEF Continues
  <2> QED
    BY <2>1, <2>2
<1>6. CASE c \in written
  <2>1. Max({c.first - 1, g.from}) = i
    <3>1. CASE g.part # << >>
      <4>1. c.first = i + 1
        BY <3>1, <1>2 DEF Continues
      <4>2. c.first - 1 = i /\ g.from < i
        BY <4>1, <3>1, <1>3, <1>5
      <4> HIDE DEF i, c
      <4> QED
        BY <4>2, <1>1, <1>3, MaxPair
    <3>2. CASE g.part = << >>
      <4>1. i = g.from
        BY <3>2, <1>1, EmptySeq
      <4>2. c.first - 1 <= g.from /\ c.first - 1 \in Int
        BY <4>1, <1>1, <1>4
      <4> HIDE DEF i, c
      <4> QED
        BY <4>1, <4>2, <1>1, MaxPair
    <3> QED
      BY <3>1, <3>2
  <2>2. Loaded(Head(g.files), g.from) = Indices(i, c.last)
    BY <2>1, <1>6, <1>8
  <2>3. ASSUME Tail(g.files) = << >> PROVE g.from < c.last
    <3>1. CASE g.part # << >>
      BY <3>1, <1>1, <1>4, <1>5
    <3>2. CASE g.part = << >>
      <4>1. Len(g.files) = 1
        BY <1>1, <1>2, <2>3, TailEmpty
      <4> QED
        BY <4>1, <3>2, <1>10
    <3> QED
      BY <3>1, <3>2
  <2>4. ASSUME Tail(g.files) # << >>
        PROVE  Continues(Tail(g.files), c.last, g.from < c.last)
    <3>1. Continues(Tail(g.files), c.last, g.part # << >> \/ i < c.last)
      <4> HIDE DEF i
      <4> QED
        BY <2>4, <1>1, <1>2, <1>3, ContinuesBehind
    <3>2. (g.part # << >> \/ i < c.last) <=> g.from < c.last
      BY <1>1, <1>3, <1>4, <1>5
    <3> HIDE DEF i
    <3> QED
      BY <3>1, <3>2 DEF Continues
  <2> QED
    BY <2>2, <2>3, <2>4, <1>4, <1>9
<1>7. CASE c \notin written
  <2>1. Tail(g.files) = << >>
    BY <1>7, <1>9
  <2>2. g.part # << >>
    <3>1. Len(g.files) = 1
      BY <1>1, <1>2, <2>1, TailEmpty
    <3> QED
      BY <3>1, <1>10
  <2>3. Loaded(Head(g.files), g.from) = Indices(i, i)
    <3>1. i \in Int /\ i <= i
      BY <1>3
    <3> HIDE DEF i
    <3>2. Indices(i, i) = << >>
      BY <3>1, IndicesProperties
    <3> QED
      BY <3>2, <1>7, <1>8
  <2>4. i <= MaxLen
    BY <1>3, <1>4, LimitAssumption
  <2> QED
    BY <2>1, <2>2, <2>3, <2>4, <1>3, <1>5
<1> QED
    BY <1>6, <1>7

(* An answer that is put together from the files has no gap. *)
LEMMA WithChunkFollows ==
    ASSUME StoreType, StoreOrder, up, NEW g \in Reads, g.phase = "reading",
           Progresses(g), Follows(g), Runs(g)
    PROVE  Follows(WithChunk(g, Loaded(Head(g.files), g.from)))
<1> DEFINE fresh == Loaded(Head(g.files), g.from)
           i == g.from + Len(g.part)
           part == g.part \o fresh
           page == g.page \o part
           h == WithChunk(g, fresh)
           next == [g EXCEPT !.page = page, !.from = NextFrom(g, page)]
<1>1. /\ g.page = Indices(g.after, g.from) /\ g.part = Indices(g.from, i)
      /\ g.after <= g.from /\ g.after \in Nat /\ g.from \in Nat /\ i \in Nat
      /\ g.from <= i
  <2>1. Len(g.part) \in Nat
    BY LenProperties DEF Reads, Page
  <2> QED
    BY <2>1, LimitAssumption DEF Follows, Reads, Index
<1>2. PICK e \in Nat :
        /\ i <= e /\ e <= MaxLen /\ fresh = Indices(i, e)
        /\ IF Tail(g.files) = << >> THEN g.from < e
                                    ELSE /\ Continues(Tail(g.files), e, g.from < e)
                                         /\ Window(Tail(g.files), chunks)
    BY LoadedPart
<1> HIDE DEF fresh, i
<1>3. part = Indices(g.from, e) /\ g.from <= e /\ g.after <= e
  <2>1. Indices(g.from, i) \o Indices(i, e) = Indices(g.from, e)
    <3>1. g.from \in Int /\ i \in Int /\ e \in Int
      BY <1>1
    <3> QED
      BY <3>1, <1>1, <1>2, IndicesConcat
  <2> QED
    BY <2>1, <1>1, <1>2
<1>4. page = Indices(g.after, e)
  <2>1. Indices(g.after, g.from) \o Indices(g.from, e) = Indices(g.after, e)
    <3>1. g.after \in Int /\ g.from \in Int /\ e \in Int
      BY <1>1
    <3> QED
      BY <3>1, <1>1, <1>3, IndicesConcat
  <2> HIDE DEF part
  <2> QED
    BY <2>1, <1>1, <1>3
<1> HIDE DEF part, page
<1>5. ASSUME NEW a \in Nat, NEW b \in Nat, NEW c \in Nat, a <= b, b <= c
      PROVE  Joins(Indices(a, b), Indices(b, c))
  <2>1. a \in Int /\ b \in Int /\ c \in Int
    BY <1>5
  <2>2. Indices(a, b) = << >> \/ (a < b /\ Last(Indices(a, b)) = b)
    BY <2>1, <1>5, IndicesProperties, IndicesEnds
  <2>3. Indices(b, c) = << >> \/ (b < c /\ Head(Indices(b, c)) = b + 1)
    BY <2>1, <1>5, IndicesProperties, IndicesEnds
  <2> QED
    BY <2>2, <2>3 DEF Joins
<1>6. Joins(g.part, fresh) /\ Joins(g.page, part)
  <2>1. Joins(Indices(g.from, i), Indices(i, e))
    BY <1>1, <1>2, <1>5
  <2>2. Joins(Indices(g.after, g.from), Indices(g.from, e))
    BY <1>1, <1>3, <1>5
  <2> QED
    BY <2>1, <2>2, <1>1, <1>2, <1>3
<1>7. Len(page) = e - g.after
  <2>1. g.after \in Int /\ e \in Int
    BY <1>1, <1>2
  <2> QED
    BY <2>1, <1>3, <1>4, IndicesProperties
<1>8. Len(part) = e - g.from /\ (part # << >> <=> g.from < e)
  <2>1. g.from \in Int /\ e \in Int
    BY <1>1, <1>2
  <2>2. Len(part) = e - g.from /\ part \in Seq(Int)
    BY <2>1, <1>3, IndicesProperties
  <2>3. part = << >> <=> Len(part) = 0
    BY <2>2, EmptySeq
  <2> QED
    BY <2>2, <2>3, <1>1, <1>3
<1>9. PageSize \in Nat \ {0}
    BY SizeAssumption
<1>10. CASE Tail(g.files) # << >> /\ Len(page) < PageSize
  <2>1. h = [g EXCEPT !.part = part, !.files = Tail(@)]
    BY <1>6, <1>10 DEF WithChunk, part, page
  <2>2. /\ h.phase = "reading" /\ h.after = g.after /\ h.page = g.page
        /\ h.from = g.from /\ h.part = part /\ h.files = Tail(g.files)
    BY <2>1 DEF Reads
  <2>3. g.from + Len(part) = e
    BY <1>1, <1>8
  <2>4. Continues(Tail(g.files), e, part # << >>) /\ Window(Tail(g.files), chunks)
    BY <1>2, <1>8, <1>10 DEF Continues
  <2> HIDE DEF h
  <2>5. Follows(h)
    BY <2>2, <2>3, <2>4, <1>1, <1>3 DEF Follows
  <2> QED
    BY <2>5 DEF h, fresh
<1>11. CASE ~ (Tail(g.files) # << >> /\ Len(page) < PageSize) /\ Len(page) >= PageSize
  <2>1. h = [g EXCEPT !.phase = "done", !.page = SubSeq(page, 1, PageSize)]
    BY <1>6, <1>11 DEF WithChunk, part, page
  <2>2. g.after + PageSize <= e
    BY <1>1, <1>7, <1>9, <1>11
  <2>3. SubSeq(page, 1, PageSize) = Indices(g.after, g.after + PageSize)
    BY <2>2, <1>1, <1>4, <1>9, IndicesPrefix
  <2>4. Len(Indices(g.after, g.after + PageSize)) = PageSize
    <3>1. g.after \in Int /\ g.after + PageSize \in Int /\ g.after <= g.after + PageSize
          /\ (g.after + PageSize) - g.after = PageSize
      BY <1>1, <1>9
    <3> QED
      BY <3>1, IndicesProperties
  <2>5. /\ h.phase = "done" /\ h.after = g.after
        /\ h.page = Indices(g.after, g.after + PageSize)
    BY <2>1, <2>3 DEF Reads
  <2> HIDE DEF h
  <2>6. Follows(h)
    BY <2>4, <2>5 DEF Follows
  <2> QED
    BY <2>6 DEF h, fresh
<1>12. CASE ~ (Tail(g.files) # << >> /\ Len(page) < PageSize) /\ ~ (Len(page) >= PageSize)
  <2>1. h = Continue(next)
    BY <1>6, <1>12 DEF WithChunk, part, page
  <2>2. Len(page) < PageSize
    BY <1>1, <1>7, <1>9, <1>12
  <2>3. g.from < e
    BY <2>2, <1>2, <1>12
  <2>4. NextFrom(g, page) = e
    BY <2>3, <1>1, <1>4, IndicesEnds DEF NextFrom
  <2>5. page \in Page /\ e \in Index
    <3>1. e \in Int
      BY <1>2
    <3>2. Indices(g.after, e) \in Page
      BY <3>1, <1>1, <1>2, IndicesType
    <3> QED
      BY <3>2, <1>2, <1>4, LimitAssumption DEF Index
  <2>6. /\ next \in Reads /\ next.phase = "reading" /\ next.after = g.after
        /\ next.page = page /\ next.from = e
    BY <2>4, <2>5 DEF Reads
  <2> HIDE DEF next, h
  <2>7. Follows(Continue(next))
    BY <2>2, <2>6, <1>3, <1>4, ContinueFollows
  <2> QED
    BY <2>1, <2>7 DEF h, fresh
<1> QED
    BY <1>10, <1>11, <1>12

-----------------------------------------------------------------------------
(************************** The inductive invariant *************************)

LEMMA InitIInv == Init => IInv
<1> SUFFICES ASSUME Init PROVE IInv
    OBVIOUS
<1> USE DEF Init
<1>1. /\ chunks \in Seq(Chunk) /\ Len(chunks) = 0
      /\ writing \in Seq(Chunk) /\ Len(writing) = 0
    BY EmptySeq
<1>2. StoreType
    BY <1>1, LimitAssumption, FS_EmptySet DEF StoreType, Index
<1>3. FilesInv
  <2>1. HasFiles(0)
    BY <1>1 DEF HasFiles
  <2> QED
    BY <2>1, <1>1 DEF FilesInv, Chained, Gapless, EndOf
<1>4. MemoryInv
    BY <1>1, BorderAssumption DEF MemoryInv, BorderIndex
<1>5. ReadType /\ ReadOrder
    BY DEF ReadType, ReadOrder, Progresses, Follows, NoGet
<1> QED
    BY <1>2, <1>3, <1>4, <1>5 DEF IInv, StoreOrder

(* What a step leaves of the files and of memory.  A history that has been *)
(* disorderly stays so.                                                    *)
StoreKept ==
    /\ StoreType' /\ (orderly' => orderly)
    /\ orderly' => StoreOrder'
    /\ orderly' /\ up /\ up' => fin <= fin' /\ Grown

LEMMA QuietKept ==
    ASSUME IInv, chunks' = chunks, fin' = fin, StoreType',
           orderly' => orderly, orderly => StoreOrder'
    PROVE  StoreKept
<1>1. fin \in Nat /\ Len(chunks) \in Nat
    BY LimitAssumption, LenProperties DEF IInv, StoreType, Index
<1> QED
    BY <1>1 DEF StoreKept, Grown

LEMMA StoreStep ==
    ASSUME IInv, Next
    PROVE  StoreKept
<1>1. /\ StoreType /\ (orderly => StoreOrder) /\ up \in BOOLEAN /\ orderly \in BOOLEAN
      /\ last \in Index /\ fin \in Index
      /\ errors \in 0..MaxErrors /\ stops \in 0..MaxStops
    BY DEF IInv, StoreType
<1>2. fin \in Nat /\ last \in Nat /\ low \in Nat \ {0} /\ low <= MaxLen + 1 /\ MaxLen \in Nat
    BY <1>1, LimitAssumption DEF Index, StoreType
<1>3. orderly /\ up => fin <= last
    BY <1>1 DEF StoreOrder, MemoryInv
<1>4. ASSUME chunks' = chunks, persisted' = persisted, written' = written,
             writing' = writing, orderly' = orderly, low' = low, fin' = fin,
             last' \in Index, up' => up /\ (orderly => fin <= last'),
             up' \in BOOLEAN, errors' \in 0..MaxErrors, stops' \in 0..MaxStops
      PROVE  StoreKept
  <2>1. StoreType'
    BY <1>1, <1>4 DEF StoreType
  <2>2. ASSUME orderly PROVE StoreOrder'
    BY <2>2, <1>1, <1>4, QuietStore
  <2> QED
    BY <2>1, <2>2, <1>4, QuietKept
<1>5. CASE AppendBatch
  <2>1. /\ up /\ last < MaxLen /\ last' = last + 1 /\ up' = up /\ low' = low /\ fin' = fin
        /\ chunks' = chunks /\ persisted' = persisted /\ written' = written
        /\ writing' = writing /\ errors' = errors /\ stops' = stops /\ orderly' = orderly
    BY <1>5 DEF AppendBatch, listed, disk
  <2>2. last' \in Index /\ (orderly => fin <= last')
    BY <1>2, <1>3, <2>1 DEF Index
  <2> QED
    BY <1>1, <1>4, <2>1, <2>2
<1>6. ASSUME NEW k \in 0..MaxLen, ReinitializeSequenced(k) PROVE StoreKept
  <2>1. /\ up /\ fin <= k /\ k < last /\ last' = Max({k, low - 1})
        /\ up' = up /\ low' = low /\ fin' = fin
        /\ chunks' = chunks /\ persisted' = persisted /\ written' = written
        /\ writing' = writing /\ errors' = errors /\ stops' = stops /\ orderly' = orderly
    BY <1>6 DEF ReinitializeSequenced, listed, disk
  <2>2. Max({k, low - 1}) = IF k >= low - 1 THEN k ELSE low - 1
    BY <1>2, MaxPair
  <2>3. last' \in Index /\ fin <= last'
    BY <1>2, <2>1, <2>2 DEF Index
  <2> QED
    BY <1>1, <1>4, <2>1, <2>3
<1>7. ASSUME NEW f \in 1..MaxLen, Finalize(f) PROVE StoreKept
  <2>1. StoreType' /\ orderly' = orderly
    BY <1>1, <1>7, FinalizeType DEF Finalize
  <2>2. ASSUME orderly PROVE StoreOrder' /\ fin <= fin' /\ Grown
    BY <2>2, <1>1, <1>7, FinalizeOrder
  <2> QED
    BY <2>1, <2>2, <1>1 DEF StoreKept
<1>8. CASE WriteDone
  <2>1. StoreType' /\ (StoreOrder => StoreOrder')
    BY <1>1, <1>8, WriteDoneStore
  <2>2. chunks' = chunks /\ fin' = fin /\ orderly' = orderly
    BY <1>8 DEF WriteDone, listed, memory
  <2> QED
    BY <2>1, <2>2, <1>1, QuietKept
<1>9. CASE WriteOvertakes
  <2>1. StoreType' /\ ~ orderly'
    BY <1>1, <1>9, WriteOvertakesStore
  <2> QED
    BY <2>1 DEF StoreKept
<1>10. ASSUME NEW k \in UnderWay, WriteFails(k) PROVE StoreKept
  <2>1. StoreType' /\ ~ orderly'
    BY <1>1, <1>10, WriteFailsStore
  <2> QED
    BY <2>1 DEF StoreKept
<1>11. CASE Crash
  <2>1. /\ ~ up' /\ up' \in BOOLEAN /\ low' = low /\ last' = last /\ fin' = fin
        /\ chunks' = chunks /\ persisted' = persisted /\ written' = written
        /\ writing' = writing /\ errors' = errors /\ orderly' = orderly
        /\ stops' = stops + 1 /\ stops < MaxStops
    BY <1>11 DEF Crash, memory, listed, disk
  <2>2. stops' \in 0..MaxStops
    BY <1>1, <2>1, LimitAssumption
  <2> QED
    BY <1>1, <1>4, <2>1, <2>2
<1>12. CASE Shutdown
  <2>1. StoreType' /\ (StoreOrder => StoreOrder')
    BY <1>1, <1>12, ShutdownStore
  <2>2. ~ up' /\ orderly' = orderly
    BY <1>12 DEF Shutdown
  <2> QED
    BY <2>1, <2>2, <1>1 DEF StoreKept
<1>13. ASSUME NEW unread \in SUBSET written, NEW unknown \in BOOLEAN, Start(unread, unknown)
       PROVE  StoreKept
  <2>1. ~ up /\ (orderly' => orderly)
    BY <1>13 DEF Start
  <2>2. StoreType'
    BY <1>1, <1>13, StartType
  <2>3. ASSUME orderly' PROVE StoreOrder'
    BY <2>1, <2>3, <1>1, <1>13, StartOrder
  <2> QED
    BY <2>1, <2>2, <2>3 DEF StoreKept
<1>14. ASSUME NEW after \in 0..MaxLen, NEW state \in State, BeginGet(after, state)
       PROVE  StoreKept
  <2>1. /\ up' = up /\ low' = low /\ last' = last /\ fin' = fin
        /\ chunks' = chunks /\ persisted' = persisted /\ written' = written
        /\ writing' = writing /\ errors' = errors /\ stops' = stops /\ orderly' = orderly
    BY <1>14 DEF BeginGet, memory, listed, disk
  <2> QED
    BY <1>1, <1>3, <1>4, <2>1
<1>15. CASE ReadChunk \/ Respond
  <2>1. /\ up' = up /\ low' = low /\ last' = last /\ fin' = fin
        /\ chunks' = chunks /\ persisted' = persisted /\ written' = written
        /\ writing' = writing /\ errors' = errors /\ stops' = stops /\ orderly' = orderly
    BY <1>15 DEF ReadChunk, Respond, memory, listed, disk
  <2> QED
    BY <1>1, <1>3, <1>4, <2>1
<1>16. CASE ReadFails
  <2>1. /\ up' = up /\ low' = low /\ last' = last /\ fin' = fin
        /\ chunks' = chunks /\ persisted' = persisted /\ written' = written
        /\ writing' = writing /\ stops' = stops /\ orderly' = orderly
        /\ errors' = errors + 1 /\ errors < MaxErrors
    BY <1>16 DEF ReadFails, memory, listed, disk
  <2>2. errors' \in 0..MaxErrors
    BY <1>1, <2>1, LimitAssumption
  <2> QED
    BY <1>1, <1>3, <1>4, <2>1, <2>2
<1>17. CASE ReadOvertakes
  <2>1. /\ up' = up /\ low' = low /\ last' = last /\ fin' = fin
        /\ chunks' = chunks /\ persisted' = persisted /\ written' = written
        /\ writing' = writing /\ errors' = errors /\ stops' = stops /\ ~ orderly'
        /\ orderly' \in BOOLEAN
    BY <1>17 DEF ReadOvertakes, memory, listed, disk
  <2>2. StoreType'
    BY <1>1, <2>1 DEF StoreType
  <2> QED
    BY <2>1, <2>2 DEF StoreKept
<1> QED
    BY <1>5, <1>6, <1>7, <1>8, <1>9, <1>10, <1>11, <1>12, <1>13, <1>14, <1>15, <1>16,
       <1>17
    DEF Next

(* A part of the list stays one when the list grows. *)
LEMMA WindowGrows ==
    ASSUME StoreType, StoreType', Grown, NEW cs \in Seq(Chunk), Window(cs, chunks)
    PROVE  Window(cs, chunks')
<1>1. Len(chunks) \in Nat /\ Len(chunks') \in Nat /\ Len(cs) \in Nat
    BY LenProperties DEF StoreType
<1>2. PICK p \in Nat : /\ p + Len(cs) <= Len(chunks)
                       /\ \A k \in 1..Len(cs) : cs[k] = chunks[p + k]
    BY DEF Window
<1>3. p + Len(cs) <= Len(chunks')
    BY <1>1, <1>2 DEF Grown
<1>4. \A k \in 1..Len(cs) : p + k \in 1..Len(chunks)
    BY <1>1, <1>2
<1>5. \A k \in 1..Len(cs) : cs[k] = chunks'[p + k]
    BY <1>2, <1>4 DEF Grown
<1> QED
    BY <1>3, <1>5 DEF Window

(* A read under way is not disturbed by what else happens: chunks are      *)
(* listed, none goes away.                                                 *)
LEMMA ReadKept ==
    ASSUME IInv, get' = get, errors' = errors, get # NoGet => up', StoreKept
    PROVE  ReadType' /\ ReadOrder'
<1>1. CASE get = NoGet
    BY <1>1 DEF ReadType, ReadOrder, Progresses, Follows, NoGet
<1>2. CASE get # NoGet
  <2>1. /\ get \in Reads /\ up /\ up' /\ StoreType /\ StoreType'
        /\ get.had \in Nat /\ fin \in Nat /\ fin' \in Nat /\ get.files \in Seq(Chunk)
    <3>1. get \in Reads /\ up
      BY <1>2 DEF IInv, ReadType
    <3>2. up'
      BY <1>2
    <3>3. StoreType /\ StoreType'
      BY DEF IInv, StoreKept
    <3>4. get.had \in Nat /\ get.files \in Seq(Chunk)
      BY <3>1, LimitAssumption DEF Reads, Index
    <3>5. fin \in Nat /\ fin' \in Nat
      BY <3>3, LimitAssumption DEF StoreType, Index
    <3> QED
      BY <3>1, <3>2, <3>3, <3>4, <3>5
  <2>2. ASSUME orderly' PROVE Progresses(get)'
    <3>1. fin <= fin' /\ orderly
      BY <2>1, <2>2 DEF StoreKept
    <3>2. get.had <= fin => get.had <= fin'
      BY <2>1, <3>1
    <3> QED
      BY <3>1, <3>2 DEF IInv, ReadOrder, Progresses
  <2>3. ASSUME errors' = 0, orderly' PROVE Follows(get)'
    <3>1. orderly /\ errors = 0 /\ Grown
      BY <2>1, <2>3 DEF StoreKept
    <3>2. Follows(get)
      BY <3>1 DEF IInv, ReadOrder
    <3>3. Window(get.files, chunks) => Window(get.files, chunks')
      BY <2>1, <3>1, WindowGrows
    <3> QED
      BY <3>2, <3>3 DEF Follows
  <2> QED
    BY <2>1, <2>2, <2>3 DEF ReadType, ReadOrder
<1> QED
    BY <1>1, <1>2

LEMMA NoRead ==
    ASSUME get' = NoGet
    PROVE  ReadType' /\ ReadOrder'
BY DEF ReadType, ReadOrder, Progresses, Follows, NoGet

LEMMA NewRead ==
    ASSUME NEW h \in Reads, get' = h, up', fin' = fin, chunks' = chunks,
           orderly' => Progresses(h), errors' = 0 /\ orderly' => Follows(h)
    PROVE  ReadType' /\ ReadOrder'
<1>1. ASSUME orderly' PROVE Progresses(get)'
    BY <1>1 DEF Progresses
<1>2. ASSUME errors' = 0, orderly' PROVE Follows(get)'
    BY <1>2 DEF Follows
<1> QED
    BY <1>1, <1>2 DEF ReadType, ReadOrder

(* A read begins, *)
LEMMA BeginGetReads ==
    ASSUME IInv, NEW after \in 0..MaxLen, NEW state \in State, BeginGet(after, state)
    PROVE  ReadType' /\ ReadOrder'
<1> DEFINE g == [phase |-> "reading", after |-> after, state |-> state,
                 had |-> fin, from |-> after, page |-> << >>,
                 part |-> << >>, files |-> << >>]
<1>1. /\ up /\ up' = up /\ fin' = fin /\ chunks' = chunks /\ orderly' = orderly
      /\ get' = Continue(g)
    BY DEF BeginGet, memory, listed
<1>2. /\ StoreType /\ (orderly => StoreOrder)
      /\ fin \in Index /\ after \in Index /\ after \in Nat /\ fin \in Nat
    BY LimitAssumption DEF IInv, StoreType, Index
<1>3. /\ << >> \in Page /\ << >> \in Seq(Chunk) /\ Len(<< >>) = 0
    BY EmptySeq DEF Page
<1>4. g \in Reads
    BY <1>2, <1>3 DEF Reads
<1>5. /\ g.phase = "reading" /\ g.after = after /\ g.from = after /\ g.had = fin
      /\ g.page = << >> /\ Len(g.page) < PageSize
    BY <1>3, SizeAssumption
<1>6. Indices(after, after) = << >>
    BY <1>2, IndicesProperties, after \in Int, after <= after
<1> HIDE DEF g
<1>7. Progresses(g)
    BY <1>2, <1>5 DEF Progresses
<1>8. Continue(g) \in Reads
    BY <1>2, <1>4, ContinueType
<1>9. ASSUME orderly PROVE Progresses(Continue(g)) /\ Follows(Continue(g))
    BY <1>9, <1>1, <1>2, <1>4, <1>5, <1>6, <1>7, ContinueProgresses, ContinueFollows
<1>10. PICK h : h = Continue(g)
    OBVIOUS
<1> QED
    BY <1>1, <1>8, <1>9, <1>10, NewRead

LEMMA LoadedType ==
    ASSUME StoreType, NEW c \in Chunk, NEW from \in Index
    PROVE  Loaded(c, from) \in Page
<1> DEFINE file == {d \in written : d.first = c.first}
           a == Max({c.first - 1, from})
<1>1. << >> \in Page
    BY EmptySeq DEF Page
<1>2. Loaded(c, from) = IF file = {} THEN << >>
                        ELSE Indices(a, (CHOOSE d \in file : TRUE).last)
    BY DEF Loaded
<1>3. ASSUME file # {} PROVE Indices(a, (CHOOSE d \in file : TRUE).last) \in Page
  <2>1. PICK d : d = CHOOSE e \in file : TRUE
    OBVIOUS
  <2>2. d \in file
    BY <2>1, <1>3
  <2>3. d.last \in Int /\ d.last <= MaxLen
    BY <2>2, LimitAssumption DEF StoreType, Chunk
  <2>4. a \in Nat
    <3>1. c.first - 1 \in Nat /\ from \in Nat
      BY LimitAssumption DEF Chunk, Index
    <3>2. a = IF c.first - 1 >= from THEN c.first - 1 ELSE from
      BY <3>1, MaxPair
    <3> HIDE DEF a
    <3> QED
      BY <3>1, <3>2
  <2> HIDE DEF a
  <2>5. Indices(a, d.last) \in Page
    BY <2>3, <2>4, IndicesType
  <2> QED
    BY <2>1, <2>5
<1> QED
    BY <1>1, <1>2, <1>3

(* and goes on with a file, *)
LEMMA ReadChunkReads ==
    ASSUME IInv, ReadChunk
    PROVE  ReadType' /\ ReadOrder'
<1> DEFINE fresh == Loaded(Head(get.files), get.from)
<1>1. /\ Runs(get) /\ get.phase = "reading" /\ get.files # << >>
      /\ up' = up /\ fin' = fin /\ chunks' = chunks /\ errors' = errors /\ orderly' = orderly
      /\ get' = WithChunk(get, fresh)
    BY DEF ReadChunk, Runs, memory, listed
<1>2. /\ StoreType /\ (orderly => StoreOrder) /\ get \in Reads /\ up
      /\ (orderly => Progresses(get)) /\ (errors = 0 /\ orderly => Follows(get))
    BY <1>1 DEF IInv, ReadType, ReadOrder, NoGet
<1>3. fresh \in Page
  <2>1. get.files \in Seq(Chunk) /\ get.from \in Index
    BY <1>2 DEF Reads
  <2>2. Head(get.files) \in Chunk
    BY <1>1, <2>1, HeadTailProperties
  <2> QED
    BY <2>1, <2>2, <1>2, LoadedType
<1>4. WithChunk(get, fresh) \in Reads
  <2> HIDE DEF fresh
  <2> QED
    BY <1>1, <1>2, <1>3, WithChunkType
<1>5. orderly => Progresses(WithChunk(get, fresh))
  <2> HIDE DEF fresh
  <2> QED
    BY <1>1, <1>2, <1>3, WithChunkProgresses
<1>6. errors = 0 /\ orderly => Follows(WithChunk(get, fresh))
    BY <1>1, <1>2, WithChunkFollows
<1>7. PICK h : h = WithChunk(get, fresh)
    OBVIOUS
<1> HIDE DEF fresh
<1> QED
    BY <1>1, <1>2, <1>4, <1>5, <1>6, <1>7, NewRead

(* even before it may be there, *)
LEMMA ReadOvertakesReads ==
    ASSUME IInv, ReadOvertakes
    PROVE  ReadType' /\ ReadOrder'
<1> DEFINE fresh == Loaded(Head(get.files), get.from)
<1>1. /\ get.phase = "reading" /\ get.files # << >>
      /\ up' = up /\ ~ orderly' /\ get' = WithChunk(get, fresh)
    BY DEF ReadOvertakes
<1>2. StoreType /\ get \in Reads /\ up
    BY <1>1 DEF IInv, ReadType, NoGet
<1>3. fresh \in Page
  <2>1. get.files \in Seq(Chunk) /\ get.from \in Index
    BY <1>2 DEF Reads
  <2>2. Head(get.files) \in Chunk
    BY <1>1, <2>1, HeadTailProperties
  <2> QED
    BY <2>1, <2>2, <1>2, LoadedType
<1> HIDE DEF fresh
<1>4. WithChunk(get, fresh) \in Reads
    BY <1>1, <1>2, <1>3, WithChunkType
<1> QED
    BY <1>1, <1>2, <1>4 DEF ReadType, ReadOrder

(* or without one that cannot be read. *)
LEMMA ReadFailsReads ==
    ASSUME IInv, ReadFails
    PROVE  ReadType' /\ ReadOrder'
<1>1. /\ get.phase = "reading" /\ get.files # << >>
      /\ up' = up /\ fin' = fin /\ chunks' = chunks /\ errors' = errors + 1
      /\ orderly' = orderly /\ get' = WithChunk(get, << >>)
    BY DEF ReadFails, Runs, memory, listed
<1>2. /\ StoreType /\ (orderly => StoreOrder) /\ get \in Reads /\ up
      /\ (orderly => Progresses(get)) /\ errors' # 0 /\ << >> \in Page
    BY <1>1, LimitAssumption, EmptySeq DEF IInv, ReadType, ReadOrder, NoGet, StoreType, Page
<1>3. WithChunk(get, << >>) \in Reads
    BY <1>1, <1>2, WithChunkType
<1>4. orderly => Progresses(WithChunk(get, << >>))
    BY <1>1, <1>2, WithChunkProgresses
<1>5. PICK h : h = WithChunk(get, << >>)
    OBVIOUS
<1> QED
    BY <1>1, <1>2, <1>3, <1>4, <1>5, NewRead

LEMMA ReadStep ==
    ASSUME IInv, Next, StoreKept
    PROVE  ReadType' /\ ReadOrder'
<1>1. get # NoGet => up
    BY DEF IInv, ReadType
<1>2. ASSUME get' = get, errors' = errors, up' = up PROVE ReadType' /\ ReadOrder'
    BY <1>1, <1>2, ReadKept
<1>3. CASE AppendBatch
    BY <1>2, <1>3 DEF AppendBatch
<1>4. ASSUME NEW k \in 0..MaxLen, ReinitializeSequenced(k) PROVE ReadType' /\ ReadOrder'
    BY <1>2, <1>4 DEF ReinitializeSequenced
<1>5. ASSUME NEW f \in 1..MaxLen, Finalize(f) PROVE ReadType' /\ ReadOrder'
    BY <1>2, <1>5 DEF Finalize
<1>6. CASE WriteDone
    BY <1>2, <1>6 DEF WriteDone
<1>7. CASE WriteOvertakes
    BY <1>2, <1>7 DEF WriteOvertakes
<1>8. ASSUME NEW k \in UnderWay, WriteFails(k) PROVE ReadType' /\ ReadOrder'
  <2>1. get' = get /\ up' = up /\ orderly' = FALSE
    BY <1>8 DEF WriteFails
  <2> QED
    BY <2>1 DEF IInv, ReadType, ReadOrder
<1>9. CASE Crash \/ Shutdown \/ Respond
    BY <1>9, NoRead DEF Crash, Shutdown, Respond
<1>10. ASSUME NEW unread \in SUBSET written, NEW unknown \in BOOLEAN, Start(unread, unknown)
       PROVE  ReadType' /\ ReadOrder'
  <2>1. get = NoGet /\ get' = get
    BY <1>1, <1>10 DEF Start
  <2> QED
    BY <2>1, NoRead
<1>11. ASSUME NEW after \in 0..MaxLen, NEW state \in State, BeginGet(after, state)
       PROVE  ReadType' /\ ReadOrder'
    BY <1>11, BeginGetReads
<1>12. CASE ReadChunk
    BY <1>12, ReadChunkReads
<1>13. CASE ReadFails
    BY <1>13, ReadFailsReads
<1>14. CASE ReadOvertakes
    BY <1>14, ReadOvertakesReads
<1> QED
    BY <1>3, <1>4, <1>5, <1>6, <1>7, <1>8, <1>9, <1>10, <1>11, <1>12, <1>13, <1>14
    DEF Next

LEMMA Invariance == Spec => []IInv
<1>1. IInv /\ [Next]_vars => IInv'
  <2>1. ASSUME IInv, Next PROVE IInv'
    <3>1. StoreKept
      BY <2>1, StoreStep
    <3>2. ReadType' /\ ReadOrder'
      BY <2>1, <3>1, ReadStep
    <3> QED
      BY <3>1, <3>2 DEF IInv, StoreKept
  <2>2. ASSUME IInv, UNCHANGED vars PROVE IInv'
    <3>1. /\ up' = up /\ low' = low /\ last' = last /\ fin' = fin
          /\ chunks' = chunks /\ persisted' = persisted /\ written' = written
          /\ writing' = writing /\ get' = get /\ errors' = errors /\ stops' = stops
          /\ orderly' = orderly
      BY <2>2 DEF vars, memory, listed, disk
    <3>2. StoreType'
      BY <2>2, <3>1 DEF IInv, StoreType
    <3>3. ASSUME orderly PROVE StoreOrder'
      <4>1. StoreOrder
        BY <2>2, <3>3 DEF IInv
      <4>2. FilesInv'
        BY <4>1, <3>1, FilesKept DEF StoreOrder
      <4> QED
        BY <4>1, <4>2, <3>1 DEF StoreOrder, MemoryInv
    <3>4. StoreKept
      BY <2>2, <3>1, <3>2, <3>3, QuietKept
    <3>5. ReadType' /\ ReadOrder'
      BY <2>2, <3>1, <3>4, ReadKept DEF IInv, ReadType
    <3> QED
      BY <3>4, <3>5 DEF IInv, StoreKept
  <2> QED
    BY <2>1, <2>2
<1> QED
    BY <1>1, InitIInv, PTL DEF Spec

-----------------------------------------------------------------------------
(********************************* Theorems *********************************)

(* Memory, chunks, files and reads under way hold indices of batches that  *)
(* exist, for every size of chunks and pages and every border of 2 or      *)
(* more, whatever is written out of turn or cannot be read or written.     *)
THEOREM TypeCorrect == Spec => []TypeOK
<1>1. IInv => TypeOK
    BY DEF IInv, StoreType, ReadType, TypeOK, Reads
<1> QED
    BY <1>1, Invariance, PTL

(* What a running node has pruned from memory is in a file that is there,  *)
(* unless Border chunks are still to be written, a write was overtaken or  *)
(* failed, or a file could not be read at a start.                         *)
THEOREM PrunedIsOnDisk == Spec => []PrunedIsWritten
<1>1. IInv => PrunedIsWritten
  <2>1. SUFFICES ASSUME IInv, up, orderly, Len(writing) < Border, NEW i \in 1..low - 1
                 PROVE  \E c \in written : c.first <= i /\ i <= c.last
    BY DEF PrunedIsWritten
  <2>2. /\ chunks \in Seq(Chunk) /\ Chained(chunks) /\ low = BorderIndex(chunks) + 1
        /\ Len(chunks) \in Nat /\ Len(writing) \in Nat
        /\ \E k \in Nat : HasFiles(k)
    BY <2>1, LenProperties DEF IInv, StoreType, StoreOrder, FilesInv, MemoryInv
  <2>3. PICK m \in Nat : HasFiles(m)
    BY <2>2
  <2>4. BorderIndex(chunks) \in Nat /\ i \in 1..BorderIndex(chunks)
    BY <2>2, BorderIndexProperties, LimitAssumption DEF Index
  <2>5. Len(chunks) >= Border
    <3>1. BorderIndex(chunks) # 0
      BY <2>4
    <3> QED
      BY <3>1, <2>2, BorderAssumption DEF BorderIndex
  <2> DEFINE k == Len(chunks) - Border + 1
  <2>6. k \in 1..Len(chunks) /\ k <= m
    BY <2>1, <2>2, <2>3, <2>5, BorderAssumption DEF HasFiles
  <2>7. BorderIndex(chunks) = chunks[k].first
    BY <2>5 DEF BorderIndex
  <2> HIDE DEF k
  <2>8. /\ chunks[k].first <= chunks[k].last
        /\ chunks[k].first \in Nat /\ chunks[k].last \in Nat
    BY <2>2, <2>6, ChunkNumbers DEF Chained
  <2>9. i \in 1..chunks[k].last
    BY <2>4, <2>7, <2>8
  <2>10. PICK j \in 1..k : Holds(chunks[j], i)
    BY <2>2, <2>6, <2>9, ChainedCover
  <2>11. j \in 1..m
    BY <2>6, <2>10
  <2> QED
    BY <2>3, <2>10, <2>11 DEF HasFiles, Holds
<1> QED
    BY <1>1, Invariance, PTL

(* At whatever step the process stops, it can load the files again: they   *)
(* start at index 1 and follow one another, as long as the writes were     *)
(* done in their order.                                                    *)
THEOREM FilesLoadable == Spec => []FilesGapless
<1>1. IInv => FilesGapless
  <2>1. SUFFICES ASSUME IInv, orderly
                 PROVE  Gapless(OnDisk) /\ (OnDisk # << >> => Head(OnDisk).first = 1)
    BY DEF FilesGapless
  <2>2. /\ chunks \in Seq(Chunk) /\ writing \in Seq(Chunk) /\ Chained(chunks)
        /\ \E k \in Nat : HasFiles(k)
    BY <2>1 DEF IInv, StoreType, StoreOrder, FilesInv
  <2>3. PICK m \in Nat : HasFiles(m)
    BY <2>2
  <2>4. OnDisk \in Seq(Chunk) /\ Chained(OnDisk)
    BY <2>2, <2>3, OnDiskProperties
  <2> QED
    BY <2>4, HeadTailProperties DEF Chained
<1> QED
    BY <1>1, Invariance, PTL

(* Whatever is stored and pruned while its files are read, and however     *)
(* many of them are still to be written, an answer holds the batches right *)
(* after the index that was asked for, as long as every file can be read   *)
(* and nothing overtakes a write,                                          *)
THEOREM PagesContiguous == Spec => []PageContiguous
<1>1. IInv => PageContiguous
    BY DEF IInv, ReadOrder, Follows, PageContiguous, FollowsRequest
<1> QED
    BY <1>1, Invariance, PTL

(* and some of them if there are any, even if a file cannot be read.       *)
THEOREM PagesProgress == Spec => []PageProgress
<1>1. IInv => PageProgress
    BY DEF IInv, ReadOrder, Progresses, PageProgress
<1> QED
    BY <1>1, Invariance, PTL
=============================================================================
