---------------------------- MODULE WindowProofs -----------------------------
(***************************************************************************)
(* Two windows of time at a follower.  The head of the queue of sequencing *)
(* times tells whether a batch is overdue, however answers, answers that   *)
(* raise, cuts and switches follow one another; and what the rate          *)
(* limiters of the follower and of the sequencer let through in a window   *)
(* stays within the limit, and is the same on both sides.                  *)
(***************************************************************************)
EXTENDS Latency, RateLimit, SequenceLemmas

(****************************** Latency queue ******************************)
Entry == [time : Nat, index : Nat]

(* Later entries are for later batches, and not older. *)
Ordered(q) ==
    \A i, j \in 1..Len(q) : i < j => q[i].index < q[j].index /\ q[i].time <= q[j].time

(* What the queue q says about the batches f + 1, ..., n, which are there  *)
(* since the times s: the last entry is for the last batch, an entry has   *)
(* the time of its batch, and no batch above an entry is older than the    *)
(* next one.                                                               *)
TracksAbove(q, f, n, s) ==
    /\ f < n => q # << >> /\ q[Len(q)].index = n
    /\ \A k \in 1..Len(q) :
         q[k].index > f => q[k].index <= n /\ s[q[k].index] = q[k].time
    /\ \A k \in 1..Len(q), i \in f + 1..n :
         (k = 1 \/ q[k - 1].index < i) => q[k].time <= s[i]

(* There is nothing else in the queue. *)
Tracks(q, f, n, s) ==
    TracksAbove(q, f, n, s) /\ \A k \in 1..Len(q) : q[k].index > f

(* The queue is that of the log up to what was tracked last.               *)
UpToDate ==
    /\ tracked.last <= last /\ tracked.final <= final /\ tracked.final <= tracked.last
    /\ Tracks(queue, tracked.final, tracked.last, since)

(* The inductive invariant behind DelayIsOverdue.  A switch that is under  *)
(* way or has failed leaves the queue behind.                              *)
QueueInv == TypeOK /\ (~ switching /\ ~ failed => UpToDate)

-----------------------------------------------------------------------------
(* The type invariant in parts: the queue has entries in order, of batches *)
(* that may be and of times that have been.                                *)
Fits(q, c) ==
    /\ q \in Seq(Entry) /\ Ordered(q)
    /\ \A k \in 1..Len(q) : q[k].time <= c /\ q[k].index \in 1..MaxLen

LEMMA QueueType ==
    ASSUME NEW q, NEW c \in Nat
    PROVE  (/\ q \in Seq([time : 0..c, index : 1..MaxLen])
            /\ \A i, j \in DOMAIN q :
                 i < j => q[i].index < q[j].index /\ q[i].time <= q[j].time)
           <=> Fits(q, c)
<1> DEFINE T == [time : 0..c, index : 1..MaxLen]
<1>1. ASSUME q \in Seq(T)
      PROVE  /\ q \in Seq(Entry) /\ DOMAIN q = 1..Len(q)
             /\ \A k \in 1..Len(q) : q[k].time <= c /\ q[k].index \in 1..MaxLen
  <2>1. T \subseteq Entry
    BY DEF Entry
  <2>2. \A k \in 1..Len(q) : q[k] \in T
    BY <1>1, ElementOfSeq
  <2>3. \A k \in 1..Len(q) : q[k].time <= c /\ q[k].index \in 1..MaxLen
    BY <2>2
  <2> HIDE DEF T
  <2> QED
    BY <1>1, <2>1, <2>3, SeqMonotonic, LenProperties
<1>2. ASSUME q \in Seq(Entry), \A k \in 1..Len(q) : q[k].time <= c /\ q[k].index \in 1..MaxLen
      PROVE  q \in Seq(T) /\ DOMAIN q = 1..Len(q)
  <2>1. \A k \in 1..Len(q) : q[k] \in Entry
    BY <1>2, ElementOfSeq
  <2>2. \A k \in 1..Len(q) : q[k] \in T
    BY <1>2, <2>1 DEF Entry
  <2> HIDE DEF T
  <2>3. q \in [1..Len(q) -> T] /\ Len(q) \in Nat
    BY <1>2, <2>2, LenProperties
  <2> QED
    BY <1>2, <2>3, LenProperties
<1>3. ASSUME q \in Seq(T),
             \A i, j \in DOMAIN q : i < j => q[i].index < q[j].index /\ q[i].time <= q[j].time
      PROVE  Fits(q, c)
  <2> HIDE DEF T
  <2> QED
    BY <1>1, <1>3 DEF Fits, Ordered
<1>4. ASSUME Fits(q, c)
      PROVE  /\ q \in Seq(T)
             /\ \A i, j \in DOMAIN q :
                  i < j => q[i].index < q[j].index /\ q[i].time <= q[j].time
  <2> HIDE DEF T
  <2> QED
    BY <1>2, <1>4 DEF Fits, Ordered
<1> QED
  BY <1>3, <1>4

(* The entries that FinalizedUpTo drops are those up to the index.         *)
LEMMA FinalizedUpToProperties ==
    ASSUME NEW q \in Seq(Entry), Ordered(q), NEW f \in Nat
    PROVE  \E d \in 0..Len(q) :
             /\ FinalizedUpTo(q, f) \in Seq(Entry)
             /\ Len(FinalizedUpTo(q, f)) = Len(q) - d
             /\ \A j \in 1..Len(q) - d : FinalizedUpTo(q, f)[j] = q[d + j]
             /\ \A j \in 1..d : q[j].index <= f
             /\ \A j \in d + 1..Len(q) : q[j].index > f
<1> DEFINE I == {i \in 1..Len(q) : q[i].index > f}
           k == IF I # {} THEN Min(I) ELSE 0
           r == IF k = 0 THEN << >> ELSE SubSeq(q, k, Len(q))
<1>1. FinalizedUpTo(q, f) = r
    BY DEF FinalizedUpTo, SelectInSeq
<1>2. Len(q) \in Nat /\ \A j \in 1..Len(q) : q[j].index \in Nat
  <2>1. \A j \in 1..Len(q) : q[j] \in Entry
    BY ElementOfSeq
  <2> QED
    BY <2>1, LenProperties DEF Entry
<1>3. CASE I = {}
  <2>1. r = << >>
    BY <1>3
  <2>2. \A j \in 1..Len(q) : q[j].index <= f
    BY <1>2, <1>3
  <2> HIDE DEF r
  <2> WITNESS Len(q) \in 0..Len(q)
  <2> QED
    BY <1>1, <1>2, <2>1, <2>2, EmptySeq
<1>4. CASE I # {}
  <2>1. k \in I /\ \A i \in I : k <= i
    <3>1. I \subseteq Nat
      OBVIOUS
    <3>2. \E m \in I : \A i \in I : m <= i
      BY <1>4, <3>1, LeastNat
    <3> QED
      BY <1>4, <3>2 DEF Min
  <2> HIDE DEF k
  <2>2. k \in 1..Len(q) /\ r = SubSeq(q, k, Len(q))
    BY <2>1
  <2>3. \A j \in k..Len(q) : q[j] \in Entry
    BY <2>2, ElementOfSeq, <1>2
  <2>4. /\ r \in Seq(Entry) /\ Len(r) = Len(q) - k + 1
        /\ \A j \in 1..Len(q) - k + 1 : r[j] = q[k + j - 1]
    BY <1>2, <2>2, <2>3, SubSeqProperties
  <2>5. \A j \in 1..k - 1 : q[j].index <= f
    BY <1>2, <2>1
  <2>6. \A j \in k..Len(q) : q[j].index > f
    <3> TAKE j \in k..Len(q)
    <3>1. CASE j = k
      BY <2>1, <3>1
    <3>2. CASE j # k
      <4>1. k \in 1..Len(q) /\ j \in 1..Len(q) /\ k < j
        BY <1>2, <2>2, <3>2
      <4>2. q[k].index < q[j].index /\ q[k].index > f
        BY <2>1, <4>1 DEF Ordered
      <4>3. q[k].index \in Nat /\ q[j].index \in Nat
        BY <1>2, <4>1
      <4> QED
        BY <4>2, <4>3
    <3> QED
      BY <3>1, <3>2
  <2> HIDE DEF r
  <2>7. k - 1 \in 0..Len(q) /\ (k - 1) + 1 = k /\ Len(q) - (k - 1) = Len(q) - k + 1
    BY <1>2, <2>2
  <2>8. \A j \in 1..Len(q) - (k - 1) : r[j] = q[(k - 1) + j]
    BY <1>2, <2>2, <2>4
  <2> QED
    BY <1>1, <2>4, <2>5, <2>6, <2>7, <2>8
<1> QED
    BY <1>3, <1>4

(* What is left in the queue after a finalization tracks what is left to   *)
(* be finalized.                                                           *)
LEMMA FinalizedTracks ==
    ASSUME NEW q, NEW c \in Nat, Fits(q, c), NEW f \in Nat
    PROVE  /\ Fits(FinalizedUpTo(q, f), c)
           /\ \A n \in Nat : \A s :
                TracksAbove(q, f, n, s) => Tracks(FinalizedUpTo(q, f), f, n, s)
<1> DEFINE r == FinalizedUpTo(q, f)
<1>1. q \in Seq(Entry) /\ Ordered(q) /\ Len(q) \in Nat
    BY LenProperties DEF Fits
<1>2. PICK d \in 0..Len(q) :
        /\ r \in Seq(Entry) /\ Len(r) = Len(q) - d
        /\ \A j \in 1..Len(q) - d : r[j] = q[d + j]
        /\ \A j \in 1..d : q[j].index <= f
        /\ \A j \in d + 1..Len(q) : q[j].index > f
    BY <1>1, FinalizedUpToProperties
<1> HIDE DEF r
<1>3. \A j \in 1..Len(r) : d + j \in d + 1..Len(q) /\ d + j \in 1..Len(q) /\ r[j] = q[d + j]
    BY <1>1, <1>2
<1>4. Fits(r, c)
  <2>1. Ordered(r)
    <3> SUFFICES ASSUME NEW i \in 1..Len(r), NEW j \in 1..Len(r), i < j
                 PROVE  r[i].index < r[j].index /\ r[i].time <= r[j].time
      BY DEF Ordered
    <3>1. d + i < d + j
      OBVIOUS
    <3> QED
      BY <1>1, <1>3, <3>1 DEF Ordered
  <2>2. \A k \in 1..Len(r) : r[k].time <= c /\ r[k].index \in 1..MaxLen
    BY <1>3 DEF Fits
  <2> QED
    BY <1>2, <2>1, <2>2 DEF Fits
<1>5. ASSUME NEW n \in Nat, NEW s, TracksAbove(q, f, n, s)
      PROVE  Tracks(r, f, n, s)
  <2>1. \A k \in 1..Len(r) : r[k].index > f
    BY <1>2, <1>3
  <2>2. f < n => r # << >> /\ r[Len(r)].index = n
    <3> SUFFICES ASSUME f < n PROVE r # << >> /\ r[Len(r)].index = n
      OBVIOUS
    <3>1. q # << >> /\ q[Len(q)].index = n
      BY <1>5 DEF TracksAbove
    <3>2. Len(q) \in 1..Len(q)
      BY <1>1, <3>1, EmptySeq
    <3>3. d # Len(q)
      <4>1. ASSUME d = Len(q) PROVE FALSE
        <5>1. q[Len(q)].index <= f
          BY <1>2, <3>2, <4>1
        <5> QED
          BY <3>1, <5>1
      <4> QED
        BY <4>1
    <3>4. Len(r) \in 1..Len(r) /\ d + Len(r) = Len(q)
      BY <1>1, <1>2, <3>3
    <3>5. r[Len(r)] = q[Len(q)]
      BY <1>3, <3>4
    <3> QED
      BY <3>1, <3>4, <3>5, EmptySeq
  <2>3. \A k \in 1..Len(r) : r[k].index > f => r[k].index <= n /\ s[r[k].index] = r[k].time
    BY <1>3, <1>5 DEF TracksAbove
  <2>4. ASSUME NEW k \in 1..Len(r), NEW i \in f + 1..n, k = 1 \/ r[k - 1].index < i
        PROVE  r[k].time <= s[i]
    <3>1. d + k = 1 \/ q[(d + k) - 1].index < i
      <4>1. CASE k = 1 /\ d = 0
        BY <4>1
      <4>2. CASE k = 1 /\ d # 0
        <5>1. d \in 1..d /\ (d + k) - 1 = d
          BY <1>1, <1>2, <4>2
        <5>2. q[d].index <= f
          BY <1>2, <5>1
        <5>3. q[d].index \in Nat
          <6>1. d \in 1..Len(q)
            BY <4>2
          <6> QED
            BY <6>1 DEF Fits
        <5> QED
          BY <5>1, <5>2, <5>3
      <4>3. CASE k # 1
        <5>1. k - 1 \in 1..Len(r) /\ (d + k) - 1 = d + (k - 1)
          BY <4>3
        <5> QED
          BY <1>3, <2>4, <4>3, <5>1
      <4> QED
        BY <4>1, <4>2, <4>3
    <3> QED
      BY <1>3, <1>5, <3>1 DEF TracksAbove
  <2> QED
    BY <2>1, <2>2, <2>3, <2>4 DEF Tracks, TracksAbove
<1> QED
    BY <1>4, <1>5 DEF r

(* A new entry is of the last index and of now.                            *)
LEMMA SequencedFits ==
    ASSUME NEW q, clock \in Nat, Fits(q, clock), NEW n \in 1..MaxLen
    PROVE  Fits(Sequenced(q, n), clock)
<1> DEFINE e == [time |-> clock, index |-> n]
<1>1. q \in Seq(Entry) /\ Len(q) \in Nat /\ e \in Entry
    BY LenProperties, LatencyAssumption DEF Fits, Entry
<1>2. CASE q = << >> \/ q[Len(q)].index < n
  <2> DEFINE p == Append(q, e)
  <2>1. Sequenced(q, n) = p
    BY <1>2 DEF Sequenced, Last
  <2>2. /\ p \in Seq(Entry) /\ Len(p) = Len(q) + 1 /\ p[Len(q) + 1] = e
        /\ \A k \in 1..Len(q) : p[k] = q[k]
    BY <1>1, AppendProperties
  <2> HIDE DEF p
  <2>3. Ordered(p)
    <3> SUFFICES ASSUME NEW i \in 1..Len(p), NEW j \in 1..Len(p), i < j
                 PROVE  p[i].index < p[j].index /\ p[i].time <= p[j].time
      BY DEF Ordered
    <3>1. i \in 1..Len(q) /\ p[i] = q[i] /\ Len(q) \in 1..Len(q) /\ q # << >>
      BY <1>1, <2>2, EmptySeq
    <3>2. CASE j <= Len(q)
      <4>1. j \in 1..Len(q) /\ p[j] = q[j]
        BY <1>1, <2>2, <3>2
      <4> QED
        BY <3>1, <4>1 DEF Fits, Ordered
    <3>3. CASE j = Len(q) + 1
      <4>1. p[j].index = n /\ p[j].time = clock
        BY <2>2, <3>3
      <4>2. q[i].index <= q[Len(q)].index /\ q[i].index \in Nat /\ q[Len(q)].index \in Nat
        <5>1. q[i].index \in Nat /\ q[Len(q)].index \in Nat
          BY <3>1 DEF Fits
        <5>2. CASE i = Len(q)
          BY <5>1, <5>2
        <5>3. CASE i # Len(q)
          <6>1. i < Len(q)
            BY <1>1, <3>1, <5>3
          <6> QED
            BY <3>1, <5>1, <6>1 DEF Fits, Ordered
        <5> QED
          BY <5>1, <5>2, <5>3
      <4>3. q[Len(q)].index < n /\ q[i].time <= clock
        BY <1>2, <3>1 DEF Fits
      <4> QED
        BY <3>1, <4>1, <4>2, <4>3
    <3> QED
      BY <1>1, <2>2, <3>2, <3>3
  <2>4. ASSUME NEW k \in 1..Len(p)
        PROVE  p[k].time <= clock /\ p[k].index \in 1..MaxLen
    <3>1. CASE k <= Len(q)
      <4>1. k \in 1..Len(q) /\ p[k] = q[k]
        BY <1>1, <2>2, <3>1
      <4> QED
        BY <4>1 DEF Fits
    <3>2. CASE k = Len(q) + 1
      BY <2>2, <3>2
    <3> QED
      BY <1>1, <2>2, <3>1, <3>2
  <2> QED
    BY <2>1, <2>2, <2>3, <2>4 DEF Fits
<1>3. CASE ~ (q = << >> \/ q[Len(q)].index < n)
    BY <1>3 DEF Sequenced, Last
<1> QED
    BY <1>2, <1>3

(* The numbers of a state, and its queue. *)
LEMMA Numbers ==
    ASSUME TypeOK
    PROVE  /\ clock \in Nat /\ last \in Nat /\ final \in Nat
           /\ final <= last /\ last <= MaxLen
           /\ Fits(queue, clock) /\ Len(queue) \in Nat
           /\ \A i \in 1..MaxLen : since[i] \in Nat /\ since[i] <= clock
           /\ tracked.last \in Nat /\ tracked.final \in Nat /\ tracked.last <= MaxLen
<1>1. /\ clock \in Nat /\ last \in Nat /\ final \in Nat
      /\ final <= last /\ last <= MaxLen
      /\ \A i \in 1..MaxLen : since[i] \in Nat /\ since[i] <= clock
      /\ tracked.last \in Nat /\ tracked.final \in Nat /\ tracked.last <= MaxLen
    BY LatencyAssumption DEF TypeOK
<1>2. Fits(queue, clock)
    BY <1>1, QueueType DEF TypeOK
<1> QED
    BY <1>1, <1>2, LenProperties DEF Fits

(* An answer with batches up to n, of which f are finalized, after one     *)
(* with batches up to m, of which g were.                                  *)
LEMMA SequencedTracks ==
    ASSUME TypeOK, NEW g \in Nat, NEW m \in Nat, g <= m, m <= MaxLen,
           Tracks(queue, g, m, since),
           NEW n \in 1..MaxLen, m <= n, NEW f \in g..n
    PROVE  TracksAbove(Sequenced(queue, n), f, n, Since(m + 1..n))
<1> DEFINE e == [time |-> clock, index |-> n]
           p == Append(queue, e)
           s == Since(m + 1..n)
<1>1. /\ clock \in Nat /\ m \in Nat /\ g \in Nat /\ n \in Nat /\ f \in Nat
      /\ g <= m /\ m <= MaxLen /\ Len(queue) \in Nat
      /\ queue \in Seq(Entry) /\ e \in Entry
    BY Numbers, LatencyAssumption DEF Fits, Entry
<1>2. \A k \in 1..Len(queue) : /\ queue[k].index \in g + 1..m
                               /\ since[queue[k].index] = queue[k].time
                               /\ queue[k].time \in Nat /\ queue[k].time <= clock
  <2> TAKE k \in 1..Len(queue)
  <2>1. queue[k] \in Entry /\ queue[k].time <= clock
    BY <1>1, ElementOfSeq, Numbers DEF Fits
  <2> QED
    BY <1>1, <2>1 DEF Tracks, TracksAbove, Entry
<1>3. /\ \A i \in g + 1..m : s[i] = since[i]
      /\ \A i \in m + 1..n : s[i] = clock
  <2>1. \A i \in 1..MaxLen : s[i] = IF i \in m + 1..n THEN clock ELSE since[i]
    BY DEF Since
  <2>2. /\ \A i \in g + 1..m : i \in 1..MaxLen /\ i \notin m + 1..n
        /\ \A i \in m + 1..n : i \in 1..MaxLen
    BY <1>1, LatencyAssumption
  <2> QED
    BY <2>1, <2>2
<1>4. \A k \in 1..Len(queue), i \in g + 1..m :
        (k = 1 \/ queue[k - 1].index < i) => queue[k].time <= since[i]
    BY DEF Tracks, TracksAbove
<1> HIDE DEF s
<1>5. CASE g < m /\ m = n
  <2>1. queue # << >> /\ queue[Len(queue)].index = n
    BY <1>5 DEF Tracks, TracksAbove
  <2>2. Sequenced(queue, n) = queue
    BY <1>1, <2>1 DEF Sequenced, Last
  <2>3. TracksAbove(queue, f, n, s)
    BY <1>1, <1>2, <1>3, <1>4, <1>5, <2>1 DEF TracksAbove
  <2> QED
    BY <2>2, <2>3 DEF s
<1>6. CASE g = m \/ m < n
  <2>1. /\ queue # << >> => Len(queue) \in 1..Len(queue) /\ queue[Len(queue)].index = m
        /\ g = m => queue = << >>
    <3>1. queue # << >> => Len(queue) \in 1..Len(queue)
      BY <1>1, EmptySeq
    <3>2. queue # << >> => g < m
      BY <1>1, <1>2, <3>1
    <3> QED
      BY <1>1, <3>1, <3>2 DEF Tracks, TracksAbove
  <2>2. Sequenced(queue, n) = p
    BY <1>1, <1>6, <2>1 DEF Sequenced, Last
  <2>3. /\ p \in Seq(Entry) /\ p # << >> /\ Len(p) = Len(queue) + 1 /\ p[Len(queue) + 1] = e
        /\ \A k \in 1..Len(queue) : p[k] = queue[k]
    BY <1>1, AppendProperties
  <2> HIDE DEF p
  <2>4. p[Len(p)].index = n /\ p[Len(p)].time = clock
    BY <2>3
  <2>5. ASSUME NEW k \in 1..Len(p), p[k].index > f
        PROVE  p[k].index <= n /\ s[p[k].index] = p[k].time
    <3>1. CASE k <= Len(queue)
      <4>1. k \in 1..Len(queue) /\ p[k] = queue[k]
        BY <1>1, <2>3, <3>1
      <4>2. /\ queue[k].index \in g + 1..m
            /\ since[queue[k].index] = queue[k].time
        BY <1>2, <4>1
      <4>3. s[queue[k].index] = since[queue[k].index]
        BY <1>3, <4>2
      <4>4. queue[k].index <= n
        BY <1>1, <4>2
      <4> QED
        BY <4>1, <4>2, <4>3, <4>4
    <3>2. CASE k = Len(queue) + 1
      <4>1. f < n /\ n \in m + 1..n
        BY <1>1, <1>6, <2>3, <2>4, <2>5, <3>2
      <4> QED
        BY <1>3, <2>3, <2>4, <3>2, <4>1
    <3> QED
      BY <1>1, <2>3, <3>1, <3>2
  <2>6. ASSUME NEW k \in 1..Len(p), NEW i \in f + 1..n, k = 1 \/ p[k - 1].index < i
        PROVE  p[k].time <= s[i]
    <3>1. p[k].time <= clock
      <4>1. CASE k <= Len(queue)
        BY <1>1, <1>2, <2>3, <4>1
      <4>2. CASE k = Len(queue) + 1
        BY <1>1, <2>3, <2>4, <4>2
      <4> QED
        BY <1>1, <2>3, <4>1, <4>2
    <3>2. CASE i > m
      <4>1. s[i] = clock
        BY <1>1, <1>3, <3>2
      <4> QED
        BY <3>1, <4>1
    <3>3. CASE i <= m
      <4>1. i \in g + 1..m /\ queue # << >> /\ s[i] = since[i]
        BY <1>1, <1>3, <2>1, <3>3 DEF Tracks, TracksAbove
      <4>2. k # Len(queue) + 1
        <5>1. ASSUME k = Len(queue) + 1 PROVE FALSE
          <6>1. k # 1 /\ k - 1 = Len(queue) /\ p[k - 1] = queue[Len(queue)]
            BY <1>1, <2>1, <2>3, <4>1, <5>1
          <6> QED
            BY <1>1, <2>1, <2>6, <3>3, <4>1, <6>1
        <5> QED
          BY <5>1
      <4>3. k \in 1..Len(queue) /\ p[k] = queue[k]
        BY <1>1, <2>3, <4>2
      <4>4. k = 1 \/ queue[k - 1].index < i
        <5>1. CASE k # 1
          <6>1. k - 1 \in 1..Len(queue) /\ p[k - 1] = queue[k - 1]
            BY <1>1, <2>3, <4>3, <5>1
          <6> QED
            BY <2>6, <6>1
        <5> QED
          BY <5>1
      <4> QED
        BY <1>4, <4>1, <4>3, <4>4
    <3> QED
      BY <1>1, <3>2, <3>3
  <2>7. TracksAbove(p, f, n, s)
    BY <2>3, <2>4, <2>5, <2>6 DEF TracksAbove
  <2> QED
    BY <2>2, <2>7 DEF s
<1> QED
    BY <1>1, <1>5, <1>6

-----------------------------------------------------------------------------
LEMMA SinceType ==
    ASSUME TypeOK, NEW new
    PROVE  Since(new) \in [1..MaxLen -> 0..clock]
BY LatencyAssumption DEF TypeOK, Since

(* The type invariant with the queue in the form of Fits.                  *)
LEMMA NextType ==
    ASSUME clock' \in 0..MaxTime, last' \in 0..MaxLen, final' \in 0..last',
           Fits(queue', clock'), switching' \in BOOLEAN,
           since' \in [1..MaxLen -> 0..clock'], failed' \in BOOLEAN,
           tracked' \in [last : 0..MaxLen, final : 0..MaxLen]
    PROVE  TypeOK'
<1>1. clock' \in Nat
    BY LatencyAssumption
<1>2. /\ queue' \in Seq([time : 0..clock', index : 1..MaxLen])
      /\ \A i, j \in DOMAIN queue' :
           i < j => queue'[i].index < queue'[j].index /\ queue'[i].time <= queue'[j].time
    BY <1>1, QueueType
<1> QED
    BY <1>2 DEF TypeOK

(* A reset queue has one entry, for all that is to be finalized.           *)
LEMMA ResetTracks ==
    ASSUME TypeOK, NEW n \in 0..MaxLen, NEW f \in 0..n
    PROVE  /\ Fits(ResetQueue(n, f), clock)
           /\ Tracks(ResetQueue(n, f), f, n, Since(f + 1..n))
<1> DEFINE s == Since(f + 1..n)
<1>1. clock \in Nat /\ n \in Nat /\ f \in Nat /\ n <= MaxLen /\ MaxLen \in Nat
    BY Numbers, LatencyAssumption
<1>2. Fits(<< >>, clock)
    BY EmptySeq DEF Fits, Ordered
<1>3. \A i \in f + 1..n : s[i] = clock
  <2>1. \A i \in f + 1..n : i \in 1..MaxLen
    BY <1>1
  <2> QED
    BY <2>1 DEF Since
<1> HIDE DEF s
<1>4. CASE n > f
  <2> DEFINE e == [time |-> clock, index |-> n]
  <2>1. n \in 1..MaxLen
    BY <1>1, <1>4
  <2>2. ResetQueue(n, f) = Sequenced(<< >>, n)
    BY <1>4 DEF ResetQueue
  <2>3. ResetQueue(n, f) = <<e>>
    BY <2>2 DEF Sequenced
  <2>4. Tracks(<<e>>, f, n, s)
    BY <1>1, <1>3, <1>4 DEF Tracks, TracksAbove
  <2>5. Fits(ResetQueue(n, f), clock)
    BY <1>1, <1>2, <2>1, <2>2, SequencedFits
  <2> QED
    BY <2>3, <2>4, <2>5 DEF s
<1>5. CASE ~ (n > f)
  <2>1. ResetQueue(n, f) = << >>
    BY <1>5 DEF ResetQueue
  <2>2. Tracks(<< >>, f, n, s)
    BY <1>1, <1>5, EmptySeq DEF Tracks, TracksAbove
  <2> QED
    BY <1>2, <2>1, <2>2 DEF s
<1> QED
    BY <1>4, <1>5

(* Every action preserves the invariant.                                   *)
LEMMA TickInv ==
    ASSUME QueueInv, Tick
    PROVE  QueueInv'
<1>1. clock' = clock + 1 /\ clock' \in 0..MaxTime /\ clock \in Nat
    BY LatencyAssumption, Numbers DEF QueueInv, TypeOK, Tick
<1>2. UNCHANGED <<last, final, queue, switching, since, tracked, failed>>
    BY DEF Tick, history
<1>3. Fits(queue', clock')
  <2>1. \A k \in 1..Len(queue) : queue[k].time \in Nat
    <3>1. \A k \in 1..Len(queue) : queue[k] \in Entry
      BY Numbers, ElementOfSeq DEF QueueInv, Fits
    <3> QED
      BY <3>1 DEF Entry
  <2> QED
    BY <1>1, <1>2, <2>1, Numbers DEF QueueInv, Fits
<1>4. since' \in [1..MaxLen -> 0..clock']
  <2>1. 0..clock \subseteq 0..clock'
    BY <1>1
  <2> QED
    BY <1>2, <2>1 DEF QueueInv, TypeOK
<1>5. TypeOK'
    BY <1>1, <1>2, <1>3, <1>4, NextType DEF QueueInv, TypeOK
<1> QED
    BY <1>2, <1>5 DEF QueueInv, UpToDate, Tracks, TracksAbove

LEMMA AnswerInv ==
    ASSUME QueueInv, NEW n \in 0..MaxLen, NEW f \in 0..MaxLen, Answer(n, f)
    PROVE  QueueInv'
<1>1. /\ n \in last..MaxLen /\ f \in final..n
      /\ last' = n /\ final' = f
      /\ since' = Since(tracked.last + 1..n) /\ tracked' = [last |-> n, final |-> f]
      /\ queue' = IF n = 0 THEN queue ELSE FinalizedUpTo(Sequenced(queue, n), f)
      /\ UNCHANGED <<clock, switching, failed>>
    BY DEF Answer, Track
<1>2. /\ TypeOK /\ clock \in Nat /\ last \in Nat /\ final \in Nat /\ n \in Nat /\ f \in Nat
      /\ Fits(queue, clock)
      /\ tracked.last \in Nat /\ tracked.final \in Nat /\ tracked.last <= MaxLen
    BY Numbers DEF QueueInv
<1>3. /\ Fits(queue', clock)
      /\ ~ switching /\ ~ failed => Tracks(queue', f, n, since')
  <2>1. CASE n = 0
    <3>1. last = 0 /\ final = 0 /\ f = 0 /\ queue' = queue
      BY <1>1, <1>2, <2>1
    <3>2. since' = since
      <4>1. tracked.last + 1..n = {}
        BY <1>2, <2>1
      <4>2. Since(tracked.last + 1..n) = [i \in 1..MaxLen |-> since[i]]
        BY <4>1 DEF Since
      <4> QED
        BY <1>1, <1>2, <4>2 DEF TypeOK
    <3>3. ~ switching /\ ~ failed => tracked.last = 0 /\ tracked.final = 0
      BY <1>2, <3>1 DEF QueueInv, UpToDate
    <3> QED
      BY <1>2, <2>1, <3>1, <3>2, <3>3 DEF QueueInv, UpToDate
  <2>2. CASE n # 0
    <3>1. n \in 1..MaxLen /\ last <= n /\ queue' = FinalizedUpTo(Sequenced(queue, n), f)
      BY <1>1, <1>2, <2>2
    <3>2. Fits(Sequenced(queue, n), clock)
      BY <1>2, <3>1, SequencedFits
    <3>3. ASSUME ~ switching, ~ failed
          PROVE  TracksAbove(Sequenced(queue, n), f, n, Since(tracked.last + 1..n))
      <4>1. UpToDate
        BY <3>3 DEF QueueInv
      <4>2. /\ tracked.last <= n /\ f \in tracked.final..n
            /\ tracked.final <= tracked.last
            /\ Tracks(queue, tracked.final, tracked.last, since)
        BY <1>1, <1>2, <4>1 DEF UpToDate
      <4> QED
        BY <1>2, <3>1, <4>2, SequencedTracks
    <3> QED
      BY <1>1, <1>2, <3>1, <3>2, <3>3, FinalizedTracks
  <2> QED
    BY <2>1, <2>2
<1>4. TypeOK'
    BY <1>1, <1>2, <1>3, SinceType, NextType DEF TypeOK
<1>5. tracked'.last = n /\ tracked'.final = f /\ f <= n
    BY <1>1, <1>2
<1> QED
    BY <1>1, <1>2, <1>3, <1>4, <1>5 DEF QueueInv, UpToDate

(* An answer that raises leaves the queue at what was tracked before.      *)
LEMMA AnswerRaisesInv ==
    ASSUME QueueInv, NEW n \in 0..MaxLen, NEW f \in 0..MaxLen, AnswerRaises(n, f)
    PROVE  QueueInv'
<1>1. /\ n \in last..MaxLen /\ f \in final..n /\ last' = n /\ final' = f
      /\ UNCHANGED <<clock, queue, switching, since, tracked, failed>>
    BY DEF AnswerRaises, history
<1>2. /\ TypeOK /\ last \in Nat /\ final \in Nat
      /\ tracked.last \in Nat /\ tracked.final \in Nat
      /\ Fits(queue', clock')
    BY <1>1, Numbers DEF QueueInv
<1>3. final' \in 0..last'
    BY <1>1, <1>2
<1>4. TypeOK'
    BY <1>1, <1>2, <1>3, NextType DEF TypeOK
<1>5. last <= last' /\ final <= final' /\ last' \in Nat /\ final' \in Nat
    BY <1>1, <1>2
<1>6. Tracks(queue, tracked.final, tracked.last, since)
        => Tracks(queue', tracked'.final, tracked'.last, since')
    BY <1>1
<1>7. UpToDate => UpToDate'
    BY <1>1, <1>2, <1>5, <1>6 DEF UpToDate
<1> QED
    BY <1>1, <1>4, <1>7 DEF QueueInv

(* Within a switch only the types matter; the queue is reset when it ends, *)
(* or marked as failed.                                                    *)
LEMMA CutInv ==
    ASSUME QueueInv, NEW n \in 0..MaxLen, Cut(n)
    PROVE  QueueInv'
<1>1. /\ n \in final..last /\ last' = n /\ switching' = TRUE
      /\ UNCHANGED <<clock, final, queue, since, tracked, failed>>
    BY DEF Cut, history
<1>2. final' \in 0..last'
    BY <1>1, Numbers DEF QueueInv
<1>3. Fits(queue', clock')
    BY <1>1, Numbers DEF QueueInv
<1>4. TypeOK'
    BY <1>1, <1>2, <1>3, NextType DEF QueueInv, TypeOK
<1> QED
    BY <1>1, <1>4 DEF QueueInv

LEMMA AdoptInv ==
    ASSUME QueueInv, NEW n \in 0..MaxLen, NEW f \in 0..MaxLen, Adopt(n, f)
    PROVE  QueueInv'
<1>1. /\ switching /\ f \in final..n
      /\ last' = n /\ final' = f
      /\ UNCHANGED <<clock, queue, switching, since, tracked, failed>>
    BY DEF Adopt, history
<1>2. final' \in 0..last'
    BY <1>1, Numbers DEF QueueInv
<1>3. Fits(queue', clock')
    BY <1>1, Numbers DEF QueueInv
<1>4. TypeOK'
    BY <1>1, <1>2, <1>3, NextType DEF QueueInv, TypeOK
<1> QED
    BY <1>1, <1>4 DEF QueueInv

LEMMA EndSwitchInv ==
    ASSUME QueueInv, EndSwitch
    PROVE  QueueInv'
<1>1. /\ switching' = FALSE /\ failed' = FALSE
      /\ queue' = ResetQueue(last, final) /\ since' = Since(final + 1..last)
      /\ tracked' = [last |-> last, final |-> final]
      /\ UNCHANGED <<clock, last, final>>
    BY DEF EndSwitch, Track
<1>2. TypeOK /\ last \in 0..MaxLen /\ final \in 0..last
    BY DEF QueueInv, TypeOK
<1>3. Fits(queue', clock') /\ Tracks(queue', final', last', since')
    BY <1>1, <1>2, ResetTracks
<1>4. TypeOK'
  <2>1. since' \in [1..MaxLen -> 0..clock']
    BY <1>1, <1>2, SinceType
  <2>2. tracked' \in [last : 0..MaxLen, final : 0..MaxLen]
    BY <1>1, <1>2, LatencyAssumption
  <2> QED
    BY <1>1, <1>2, <1>3, <2>1, <2>2, NextType DEF TypeOK
<1>5. UpToDate'
    BY <1>1, <1>2, <1>3, LatencyAssumption DEF UpToDate
<1> QED
    BY <1>4, <1>5 DEF QueueInv

LEMMA FailSwitchInv ==
    ASSUME QueueInv, FailSwitch
    PROVE  QueueInv'
<1>1. /\ switching' = FALSE /\ failed' = TRUE
      /\ UNCHANGED <<clock, last, final, queue, since, tracked>>
    BY DEF FailSwitch
<1>2. Fits(queue', clock')
    BY <1>1, Numbers DEF QueueInv
<1>3. TypeOK'
    BY <1>1, <1>2, NextType DEF QueueInv, TypeOK
<1> QED
    BY <1>1, <1>3 DEF QueueInv

LEMMA ResetSequencerInv ==
    ASSUME QueueInv, NEW n \in 0..MaxLen, ResetSequencer(n)
    PROVE  QueueInv'
<1>1. /\ n \in final..last /\ last' = n /\ failed' = FALSE
      /\ queue' = ResetQueue(n, final) /\ since' = Since(final + 1..n)
      /\ tracked' = [last |-> n, final |-> final]
      /\ UNCHANGED <<clock, final, switching>>
    BY DEF ResetSequencer, Track
<1>2. TypeOK /\ final \in 0..n
    BY <1>1, Numbers DEF QueueInv
<1>3. Fits(queue', clock') /\ Tracks(queue', final', last', since')
    BY <1>1, <1>2, ResetTracks
<1>4. TypeOK'
  <2>1. since' \in [1..MaxLen -> 0..clock']
    BY <1>1, <1>2, SinceType
  <2>2. tracked' \in [last : 0..MaxLen, final : 0..MaxLen]
    BY <1>1, <1>2, LatencyAssumption
  <2> QED
    BY <1>1, <1>2, <1>3, <2>1, <2>2, NextType DEF TypeOK
<1>5. UpToDate'
    BY <1>1, <1>2, <1>3, LatencyAssumption DEF UpToDate
<1> QED
    BY <1>4, <1>5 DEF QueueInv

-----------------------------------------------------------------------------
(* The first entry is the oldest one of all that is tracked and not        *)
(* finalized.                                                              *)
LEMMA HeadIsOldest ==
    ASSUME QueueInv
    PROVE  DelayIsOverdue
<1> SUFFICES ASSUME ~ switching, ~ failed
             PROVE  /\ Overdue => HasDelayed
                    /\ HasDelayed /\ tracked = [last |-> last, final |-> final] => Overdue
    BY DEF DelayIsOverdue
<1>1. /\ Tracks(queue, tracked.final, tracked.last, since) /\ clock - Border \in Int
      /\ queue \in Seq(Entry) /\ Len(queue) \in Nat
      /\ tracked.final \in Nat /\ tracked.last \in Nat /\ final \in Nat
      /\ tracked.final <= final /\ tracked.last <= MaxLen
      /\ \A i \in 1..MaxLen : since[i] \in Nat
    BY Numbers, LatencyAssumption DEF QueueInv, UpToDate, Fits
<1>2. queue # << >> => 1 \in 1..Len(queue) /\ Head(queue) = queue[1]
    BY <1>1, EmptySeq
<1>3. ASSUME HasDelayed, tracked = [last |-> last, final |-> final] PROVE Overdue
  <2>1. queue # << >> /\ queue[1].time < clock - Border
    BY <1>2, <1>3 DEF HasDelayed
  <2>2. /\ queue[1].index > tracked.final /\ queue[1].index <= tracked.last
        /\ since[queue[1].index] = queue[1].time
    BY <1>1, <1>2, <2>1 DEF Tracks, TracksAbove
  <2>3. queue[1] \in Entry /\ tracked.final = final
    BY <1>1, <1>2, <1>3, <2>1, ElementOfSeq
  <2>4. queue[1].index \in final + 1..tracked.last
    BY <1>1, <2>2, <2>3 DEF Entry
  <2> QED
    BY <2>1, <2>2, <2>4 DEF Overdue
<1>4. ASSUME Overdue PROVE HasDelayed
  <2>1. PICK i \in final + 1..tracked.last : since[i] < clock - Border
    BY <1>4 DEF Overdue
  <2>2. i \in tracked.final + 1..tracked.last /\ tracked.final < tracked.last
    BY <1>1, <2>1
  <2>3. queue # << >>
    BY <1>1, <2>2 DEF Tracks, TracksAbove
  <2>4. queue[1].time <= since[i]
    BY <1>1, <1>2, <2>2, <2>3 DEF Tracks, TracksAbove
  <2>5. queue[1].time \in Nat /\ since[i] \in Nat
    <3>1. queue[1] \in Entry /\ i \in 1..MaxLen
      BY <1>1, <1>2, <2>1, <2>3, ElementOfSeq, LatencyAssumption
    <3> QED
      BY <1>1, <3>1 DEF Entry
  <2> QED
    BY <1>1, <1>2, <2>1, <2>3, <2>4, <2>5 DEF HasDelayed
<1> QED
    BY <1>3, <1>4

LEMMA QueueInvariant == Spec => []QueueInv
<1>1. Init => QueueInv
  <2> SUFFICES ASSUME Init PROVE QueueInv
    OBVIOUS
  <2>1. Fits(<< >>, 0)
    BY EmptySeq DEF Fits, Ordered
  <2>2. /\ queue \in Seq([time : 0..clock, index : 1..MaxLen])
        /\ \A i, j \in DOMAIN queue :
             i < j => queue[i].index < queue[j].index /\ queue[i].time <= queue[j].time
    BY <2>1, QueueType DEF Init
  <2>3. since \in [1..MaxLen -> 0..clock]
    BY DEF Init
  <2>4. TypeOK
    <3>1. clock = 0 /\ last = 0 /\ final = 0
      BY Zenon DEF Init
    <3>2. clock \in 0..MaxTime /\ last \in 0..MaxLen /\ final \in 0..last
      BY <3>1, LatencyAssumption
    <3>3. switching \in BOOLEAN /\ failed \in BOOLEAN
      BY Zenon DEF Init
    <3>4. tracked \in [last : 0..MaxLen, final : 0..MaxLen]
      BY LatencyAssumption DEF Init
    <3> QED
      BY <2>2, <2>3, <3>2, <3>3, <3>4, Zenon DEF TypeOK
  <2>5. Tracks(<< >>, 0, 0, since)
    BY EmptySeq DEF Tracks, TracksAbove
  <2> QED
    BY <2>4, <2>5 DEF Init, QueueInv, UpToDate
<1>2. QueueInv /\ [Next]_vars => QueueInv'
  <2> SUFFICES ASSUME QueueInv, [Next]_vars PROVE QueueInv'
    OBVIOUS
  <2>1. CASE Tick
    BY <2>1, TickInv
  <2>2. ASSUME NEW n \in 0..MaxLen, NEW f \in 0..MaxLen,
               Answer(n, f) \/ AnswerRaises(n, f) \/ Adopt(n, f)
        PROVE  QueueInv'
    BY <2>2, AnswerInv, AnswerRaisesInv, AdoptInv
  <2>3. ASSUME NEW n \in 0..MaxLen, Cut(n) \/ ResetSequencer(n)
        PROVE  QueueInv'
    BY <2>3, CutInv, ResetSequencerInv
  <2>4. CASE EndSwitch \/ FailSwitch
    BY <2>4, EndSwitchInv, FailSwitchInv
  <2>5. CASE UNCHANGED vars
    BY <2>5 DEF vars, history, QueueInv, TypeOK, UpToDate, Tracks, TracksAbove
  <2> QED
    BY <2>1, <2>2, <2>3, <2>4, <2>5 DEF Next
<1> QED
    BY <1>1, <1>2, PTL DEF Spec

(* The entries of the queue stay in the order of their batches and of      *)
(* their times, for has_delayed_batches looks at the first one only.       *)
THEOREM TypeCorrect == Spec => []TypeOK
BY QueueInvariant, PTL DEF QueueInv

(* Outside of a switch, and if none has failed, a node holds its sequencer *)
(* for late if a batch is overdue, also after answers that raised, and     *)
(* only then if the last answer with anything new was handled to its end.  *)
THEOREM DelayExact == Spec => []DelayIsOverdue
<1>1. QueueInv => DelayIsOverdue
    BY HeadIsOldest
<1> QED
    BY <1>1, QueueInvariant, PTL

-----------------------------------------------------------------------------
(******************************* Rate limits *******************************)
LEMMA TotalIsSum ==
    ASSUME NEW s
    PROVE  Total(s) = SumOf(s)
BY DEF Total, SumOf

LEMMA TotalUnfolds ==
    ASSUME NEW s \in Seq(Int)
    PROVE  \E f : f[0] = 0 /\ SumsUp(f, s, Len(s)) /\ Total(s) = f[Len(s)]
BY SumUnfolds, TotalIsSum

(* A sum can be told from any function that grows by the same numbers.     *)
LEMMA TotalIs ==
    ASSUME NEW s \in Seq(Int), NEW g, SumsUp(g, s, Len(s))
    PROVE  Total(s) = g[Len(s)] - g[0] /\ Total(s) \in Int
BY SumIs, TotalIsSum

LEMMA TotalEmpty == Total(<< >>) = 0
<1>1. << >> \in Seq(Int) /\ Len(<< >>) = 0
  OBVIOUS
<1>2. PICK f : f[0] = 0 /\ SumsUp(f, << >>, 0) /\ Total(<< >>) = f[0]
  BY <1>1, TotalUnfolds
<1> QED
  BY <1>2

(******************************** Limiters *********************************)

Charge == [age : 0..Window + 1, cost : Nat \ {0}]

(* The oldest are in front. *)
Aging(events) == \A i, j \in 1..Len(events) : i < j => events[j].age <= events[i].age

EventsOK(events) == events \in Seq(Charge) /\ Aging(events)

LEMMA WindowType == Window \in Nat
BY RateLimitAssumption

LEMMA ChargeProperties ==
    ASSUME NEW events \in Seq(Charge)
    PROVE  /\ Len(events) \in Nat /\ DOMAIN events = 1..Len(events)
           /\ \A i \in 1..Len(events) :
                /\ events[i] \in Charge /\ events[i].age \in Nat
                /\ events[i].cost \in Nat \ {0} /\ events[i].cost \in Int
<1>1. \A e \in Charge : e.age \in Nat /\ e.cost \in Nat \ {0} /\ e.cost \in Int
  BY WindowType DEF Charge
<1>2. \A i \in 1..Len(events) : events[i] \in Charge
  OBVIOUS
<1> HIDE DEF Charge
<1> QED
  BY <1>1, <1>2

LEMMA CostsProperties ==
    ASSUME NEW events \in Seq(Charge)
    PROVE  /\ Costs(events) \in Seq(Nat) /\ Costs(events) \in Seq(Int)
           /\ Len(Costs(events)) = Len(events)
           /\ \A i \in 1..Len(events) : /\ Costs(events)[i] = events[i].cost
                                         /\ Costs(events)[i] \in Nat \ {0}
<1>1. Len(events) \in Nat /\ DOMAIN events = 1..Len(events)
  OBVIOUS
<1>2. \A i \in 1..Len(events) : events[i].cost \in Nat \ {0} /\ events[i].cost \in Int
  BY ChargeProperties
<1>3. Costs(events) = [i \in 1..Len(events) |-> events[i].cost]
  BY <1>1 DEF Costs
<1>4. Costs(events) \in Seq(Nat) /\ Len(Costs(events)) = Len(events)
  BY <1>1, <1>2, <1>3, IsASeq, LenProperties
<1>5. Costs(events) \in Seq(Int)
  BY <1>1, <1>2, <1>3, IsASeq
<1> QED
  BY <1>1, <1>2, <1>3, <1>4, <1>5

(* Prefix sums of the costs: what any part of the events costs.            *)
LEMMA CostSums ==
    ASSUME NEW events \in Seq(Charge)
    PROVE  \E f : /\ f[0] = 0 /\ \A i \in 0..Len(events) : f[i] \in Int
                  /\ \A i \in 1..Len(events) : f[i] = f[i - 1] + events[i].cost
                  /\ \A i, j \in 0..Len(events) : i <= j => f[i] <= f[j]
                  /\ Total(Costs(events)) = f[Len(events)]
<1>1. PICK f : f[0] = 0 /\ SumsUp(f, Costs(events), Len(Costs(events)))
               /\ Total(Costs(events)) = f[Len(Costs(events))]
  BY CostsProperties, TotalUnfolds
<1>2. Len(events) \in Nat /\ Len(Costs(events)) = Len(events)
      /\ \A i \in 1..Len(events) : /\ Costs(events)[i] = events[i].cost
                                    /\ Costs(events)[i] \in Nat
  BY CostsProperties
<1>3. \A i, j \in 0..Len(events) : i <= j => f[i] <= f[j]
  BY <1>1, <1>2, SumsGrow
<1> QED
  BY <1>1, <1>2, <1>3 DEF SumsUp

LEMMA TotalOfPart ==
    ASSUME NEW events \in Seq(Charge), NEW f, \A i \in 0..Len(events) : f[i] \in Int,
           \A i \in 1..Len(events) : f[i] = f[i - 1] + events[i].cost,
           NEW a \in 1..Len(events) + 1, NEW b \in a - 1..Len(events)
    PROVE  /\ SubSeq(events, a, b) \in Seq(Charge)
           /\ Total(Costs(SubSeq(events, a, b))) = f[b] - f[a - 1]
<1> DEFINE part == SubSeq(events, a, b)
           g == [i \in 0..Len(part) |-> f[a - 1 + i]]
<1>1. /\ part \in Seq(Charge) /\ Len(part) = b - a + 1 /\ b - a + 1 \in Nat
      /\ \A i \in 1..Len(part) : part[i] = events[a + i - 1]
  <2>1. a \in Int /\ b \in Int /\ Len(events) \in Nat
    OBVIOUS
  <2>2. \A i \in a..b : i \in 1..Len(events)
    BY <2>1
  <2> QED
    BY <2>1, <2>2, SubSeqProperties
<1>2. /\ Costs(part) \in Seq(Int) /\ Len(Costs(part)) = b - a + 1
      /\ \A i \in 1..Len(part) : Costs(part)[i] = events[a + i - 1].cost
  BY <1>1, CostsProperties
<1> HIDE DEF part
<1>3. SumsUp(g, Costs(part), Len(Costs(part)))
  <2>1. ASSUME NEW i \in 0..Len(part) PROVE g[i] = f[a - 1 + i] /\ g[i] \in Int
    BY <1>1, <2>1
  <2>2. ASSUME NEW i \in 1..Len(part) PROVE g[i] = g[i - 1] + Costs(part)[i]
    <3>1. /\ i \in 0..Len(part) /\ i - 1 \in 0..Len(part) /\ a - 1 + i \in 1..Len(events)
          /\ a - 1 + (i - 1) = (a - 1 + i) - 1 /\ a + i - 1 = a - 1 + i
      BY <1>1
    <3>2. f[a - 1 + i] = f[(a - 1 + i) - 1] + events[a - 1 + i].cost
      BY <3>1
    <3>3. g[i] = f[a - 1 + i] /\ g[i - 1] = f[a - 1 + (i - 1)]
      BY <2>1, <3>1
    <3> QED
      BY <1>2, <3>1, <3>2, <3>3
  <2> HIDE DEF g
  <2> QED
    BY <1>1, <1>2, <2>1, <2>2 DEF SumsUp
<1>4. g[Len(part)] = f[b] /\ g[0] = f[a - 1]
  <2>1. a - 1 + (b - a + 1) = b /\ a - 1 + 0 = a - 1
    OBVIOUS
  <2> QED
    BY <1>1, <2>1
<1> HIDE DEF g
<1>5. Total(Costs(part)) = g[Len(Costs(part))] - g[0]
  BY <1>2, <1>3, TotalIs
<1> QED
  BY <1>1, <1>2, <1>4, <1>5 DEF part

LEMMA TotalOfAppend ==
    ASSUME NEW events \in Seq(Charge), NEW e \in Charge
    PROVE  Total(Costs(Append(events, e))) = Total(Costs(events)) + e.cost
<1> DEFINE more == Append(events, e)
<1>1. more \in Seq(Charge) /\ Len(more) = Len(events) + 1 /\ Len(events) \in Nat
      /\ more[Len(events) + 1] = e
  BY AppendProperties
<1>2. \A i \in 1..Len(events) : more[i] = events[i]
  BY AppendProperties
<1> HIDE DEF more
<1>3. PICK f : /\ f[0] = 0 /\ \A i \in 0..Len(more) : f[i] \in Int
               /\ \A i \in 1..Len(more) : f[i] = f[i - 1] + more[i].cost
               /\ Total(Costs(more)) = f[Len(more)]
  BY <1>1, CostSums
<1>4. Total(Costs(events)) = f[Len(events)] - f[0]
  <2>1. /\ Costs(events) \in Seq(Int) /\ Len(Costs(events)) = Len(events)
        /\ \A i \in 1..Len(events) : Costs(events)[i] = events[i].cost
    BY CostsProperties
  <2>2. \A i \in 0..Len(events) : i \in 0..Len(more)
    BY <1>1
  <2>3. \A i \in 1..Len(events) : i \in 1..Len(more)
    BY <1>1
  <2>4. \A i \in 1..Len(events) : f[i] = f[i - 1] + Costs(events)[i]
    BY <1>2, <1>3, <2>1, <2>3
  <2>5. SumsUp(f, Costs(events), Len(events))
    BY <1>3, <2>2, <2>4 DEF SumsUp
  <2> QED
    BY <2>1, <2>5, TotalIs
<1>5. f[Len(events) + 1] = f[Len(events)] + e.cost /\ f[Len(events)] \in Int
  <2>1. Len(events) + 1 \in 1..Len(more) /\ (Len(events) + 1) - 1 = Len(events)
        /\ Len(events) \in 0..Len(more)
    BY <1>1
  <2> QED
    BY <1>1, <1>3, <2>1
<1> QED
  BY <1>1, <1>3, <1>4, <1>5 DEF more

(* The events that have left the window are the first ones. *)
LEMMA ExpireIdxProperties ==
    ASSUME NEW events, EventsOK(events)
    PROVE  /\ ExpireIdx(events) \in 0..Len(events)
           /\ \A i \in 1..Len(events) : i <= ExpireIdx(events) <=> events[i].age > Window
<1> DEFINE Old == {i \in 1..Len(events) : events[i].age > Window}
<1>1. /\ Len(events) \in Nat /\ DOMAIN events = 1..Len(events) /\ Window \in Nat
      /\ \A i \in 1..Len(events) : events[i].age \in Nat
  BY WindowType, ChargeProperties DEF EventsOK
<1>2. \E k \in 0..Len(events) : \A i \in 1..Len(events) : i <= k <=> events[i].age > Window
  <2>1. CASE Old = {}
    <3>1. 0 \in 0..Len(events) /\ \A i \in 1..Len(events) : ~ (i <= 0)
      BY <1>1
    <3> QED
      BY <2>1, <3>1
  <2>2. CASE Old # {}
    <3>1. PICK k \in Old : \A i \in Old : i <= k
      BY <1>1, <2>2, GreatestNat
    <3>2. ASSUME NEW i \in 1..Len(events), i <= k PROVE events[i].age > Window
      <4>1. i = k \/ events[k].age <= events[i].age
        BY <1>1, <3>1, <3>2 DEF EventsOK, Aging
      <4> QED
        BY <1>1, <3>1, <4>1
    <3> QED
      BY <1>1, <3>1, <3>2
  <2> QED
    BY <2>1, <2>2
<1> QED
  BY <1>1, <1>2 DEF ExpireIdx

LEMMA KeptProperties ==
    ASSUME NEW events, EventsOK(events)
    PROVE  /\ EventsOK(Kept(events))
           /\ Len(Kept(events)) = Len(events) - ExpireIdx(events)
           /\ \A i \in 1..Len(Kept(events)) :
                /\ Kept(events)[i] = events[i + ExpireIdx(events)]
                /\ Kept(events)[i].age <= Window
           /\ Total(Costs(Kept(events))) \in Nat
           /\ Total(Costs(events)) = Total(Costs(SubSeq(events, 1, ExpireIdx(events))))
                                     + Total(Costs(Kept(events)))
           /\ Total(Costs(Kept(events))) <= Total(Costs(events))
           /\ Total(Costs(events)) \in Nat
<1> DEFINE k == ExpireIdx(events)  kept == Kept(events)
<1>1. /\ events \in Seq(Charge) /\ Len(events) \in Nat /\ k \in 0..Len(events)
      /\ \A i \in 1..Len(events) : i <= k <=> events[i].age > Window
      /\ \A i \in 1..Len(events) : events[i].age \in Nat
      /\ Window \in Nat
  BY ExpireIdxProperties, WindowType, ChargeProperties DEF EventsOK
<1> HIDE DEF k
<1>2. kept = SubSeq(events, k + 1, Len(events))
  BY DEF Kept, k
<1>3. /\ kept \in Seq(Charge) /\ Len(kept) = Len(events) - k
      /\ \A i \in 1..Len(kept) : kept[i] = events[i + k]
  <2>1. k + 1 \in Int /\ Len(events) \in Int
    BY <1>1
  <2>2. \A i \in k + 1..Len(events) : i \in 1..Len(events)
    BY <1>1
  <2>3. /\ SubSeq(events, k + 1, Len(events)) \in Seq(Charge)
        /\ Len(SubSeq(events, k + 1, Len(events))) =
              IF k + 1 <= Len(events) THEN Len(events) - (k + 1) + 1 ELSE 0
        /\ \A i \in 1..Len(events) - (k + 1) + 1 :
              SubSeq(events, k + 1, Len(events))[i] = events[(k + 1) + i - 1]
    BY <1>1, <2>1, <2>2, SubSeqProperties
  <2>4. \A i \in 1..Len(events) - k : (k + 1) + i - 1 = i + k /\ i \in 1..Len(events) - (k + 1) + 1
    BY <1>1
  <2> HIDE DEF kept
  <2> QED
    BY <1>1, <1>2, <2>3, <2>4
<1> HIDE DEF kept
<1>4. \A i \in 1..Len(kept) : i + k \in 1..Len(events) /\ ~ (i + k <= k)
  BY <1>1, <1>3
<1>5. \A i \in 1..Len(kept) : kept[i].age <= Window
  BY <1>1, <1>3, <1>4
<1>6. Aging(kept)
  <2> SUFFICES ASSUME NEW i \in 1..Len(kept), NEW j \in 1..Len(kept), i < j
               PROVE  kept[j].age <= kept[i].age
    BY DEF Aging
  <2>1. i + k \in 1..Len(events) /\ j + k \in 1..Len(events) /\ i + k < j + k
    BY <1>1, <1>4
  <2>2. events[j + k].age <= events[i + k].age
    BY <2>1 DEF EventsOK, Aging
  <2> QED
    BY <1>3, <2>2
<1>7. PICK f : /\ f[0] = 0 /\ \A i \in 0..Len(events) : f[i] \in Int
               /\ \A i \in 1..Len(events) : f[i] = f[i - 1] + events[i].cost
               /\ \A i, j \in 0..Len(events) : i <= j => f[i] <= f[j]
               /\ Total(Costs(events)) = f[Len(events)]
  BY <1>1, CostSums
<1>8. Total(Costs(SubSeq(events, 1, k))) = f[k] - f[0]
  <2>1. 1 \in 1..Len(events) + 1 /\ k \in 1 - 1..Len(events) /\ 1 - 1 = 0
    BY <1>1
  <2> QED
    BY <1>1, <1>7, <2>1, TotalOfPart
<1>9. Total(Costs(kept)) = f[Len(events)] - f[k]
  <2>1. /\ k + 1 \in 1..Len(events) + 1 /\ Len(events) \in (k + 1) - 1..Len(events)
        /\ (k + 1) - 1 = k
    BY <1>1
  <2> QED
    BY <1>1, <1>2, <1>7, <2>1, TotalOfPart
<1>10. /\ f[k] \in Int /\ f[Len(events)] \in Int /\ f[0] <= f[k] /\ f[k] <= f[Len(events)]
       /\ f[0] <= f[Len(events)]
  BY <1>1, <1>7
<1>11. /\ Total(Costs(kept)) \in Nat /\ Total(Costs(events)) \in Nat
       /\ Total(Costs(events)) = Total(Costs(SubSeq(events, 1, k))) + Total(Costs(kept))
       /\ Total(Costs(kept)) <= Total(Costs(events))
  BY <1>7, <1>8, <1>9, <1>10
<1>12. EventsOK(kept)
  BY <1>3, <1>6 DEF EventsOK
<1> QED
  BY <1>3, <1>5, <1>11, <1>12 DEF kept, k

LEMMA ExpireIdxUnique ==
    ASSUME NEW events, EventsOK(events), NEW k \in 0..Len(events),
           \A i \in 1..Len(events) : i <= k <=> events[i].age > Window
    PROVE  ExpireIdx(events) = k
<1> DEFINE x == ExpireIdx(events)
<1>1. /\ Len(events) \in Nat /\ x \in 0..Len(events)
      /\ \A i \in 1..Len(events) : i <= x <=> events[i].age > Window
  BY ExpireIdxProperties, ChargeProperties DEF EventsOK
<1> HIDE DEF x
<1>2. ~ (x < k)
  <2> SUFFICES ASSUME x < k PROVE FALSE
    OBVIOUS
  <2>1. k \in 1..Len(events) /\ ~ (k <= x) /\ k <= k
    BY <1>1
  <2> QED
    BY <1>1, <2>1
<1>3. ~ (k < x)
  <2> SUFFICES ASSUME k < x PROVE FALSE
    OBVIOUS
  <2>1. x \in 1..Len(events) /\ ~ (x <= k) /\ x <= x
    BY <1>1
  <2> QED
    BY <1>1, <2>1
<1> QED
  BY <1>1, <1>2, <1>3 DEF x

(* Nothing leaves if nothing is too old. *)
LEMMA AllKept ==
    ASSUME NEW events, EventsOK(events), \A i \in 1..Len(events) : events[i].age <= Window
    PROVE  ExpireIdx(events) = 0 /\ Kept(events) = events
<1>1. /\ Len(events) \in Nat /\ 0 \in 0..Len(events) /\ events \in Seq(Charge)
      /\ \A i \in 1..Len(events) : events[i].age \in Nat /\ i > 0
  BY ChargeProperties DEF EventsOK
<1>2. \A i \in 1..Len(events) : i <= 0 <=> events[i].age > Window
  BY <1>1, WindowType
<1>3. ExpireIdx(events) = 0
  BY <1>1, <1>2, ExpireIdxUnique
<1>4. SubSeq(events, 1, Len(events)) = events
  BY <1>1, SubSeqFull
<1> QED
  BY <1>3, <1>4 DEF Kept

LEMMA OlderProperties ==
    ASSUME NEW events, EventsOK(events)
    PROVE  /\ EventsOK(Older(events)) /\ Len(Older(events)) = Len(events)
           /\ \A i \in 1..Len(events) :
                /\ Older(events)[i].cost = events[i].cost
                /\ Older(events)[i].age =
                     IF events[i].age > Window THEN events[i].age ELSE events[i].age + 1
<1> DEFINE Aged(e) == [e EXCEPT !.age = IF e.age > Window THEN e.age ELSE e.age + 1]
<1>1. /\ Len(events) \in Nat /\ DOMAIN events = 1..Len(events)
      /\ \A i \in 1..Len(events) : events[i] \in Charge /\ events[i].age \in Nat
      /\ Window \in Nat
  BY ChargeProperties, WindowType DEF EventsOK
<1>2. ASSUME NEW e \in Charge
      PROVE  /\ Aged(e) \in Charge /\ Aged(e).cost = e.cost
             /\ Aged(e).age = IF e.age > Window THEN e.age ELSE e.age + 1
  BY <1>1 DEF Charge
<1>3. Older(events) = [i \in 1..Len(events) |-> Aged(events[i])]
  BY <1>1 DEF Older
<1> HIDE DEF Aged
<1>4. \A i \in 1..Len(events) : Aged(events[i]) \in Charge
  BY <1>1, <1>2
<1>5. Older(events) \in Seq(Charge) /\ Len(Older(events)) = Len(events)
  BY <1>1, <1>3, <1>4, IsASeq, LenProperties
<1>6. \A i \in 1..Len(events) : Older(events)[i] = Aged(events[i])
  BY <1>3
<1>7. \A i \in 1..Len(events) :
        /\ Older(events)[i].cost = events[i].cost
        /\ Older(events)[i].age =
             IF events[i].age > Window THEN events[i].age ELSE events[i].age + 1
  BY <1>1, <1>2, <1>6
<1>8. Aging(Older(events))
  <2> SUFFICES ASSUME NEW i \in 1..Len(events), NEW j \in 1..Len(events), i < j
               PROVE  Older(events)[j].age <= Older(events)[i].age
    BY <1>5 DEF Aging
  <2>1. events[j].age <= events[i].age
    BY DEF EventsOK, Aging
  <2> QED
    BY <1>1, <1>7, <2>1
<1> QED
  BY <1>5, <1>7, <1>8 DEF EventsOK

LEMMA OlderCosts ==
    ASSUME NEW events, EventsOK(events)
    PROVE  Costs(Older(events)) = Costs(events)
<1>1. PICK o : o = Older(events)
  OBVIOUS
<1>2. /\ EventsOK(o) /\ Len(o) = Len(events)
      /\ \A i \in 1..Len(events) : o[i].cost = events[i].cost
  BY <1>1, OlderProperties
<1>3. /\ Costs(o) \in Seq(Nat) /\ Len(Costs(o)) = Len(o)
      /\ \A i \in 1..Len(o) : Costs(o)[i] = o[i].cost
  BY <1>2, CostsProperties DEF EventsOK
<1>4. /\ Costs(events) \in Seq(Nat) /\ Len(Costs(events)) = Len(events)
      /\ \A i \in 1..Len(events) : Costs(events)[i] = events[i].cost
  BY CostsProperties DEF EventsOK
<1>5. \A i \in 1..Len(Costs(o)) : Costs(o)[i] = Costs(events)[i]
  BY <1>2, <1>3, <1>4
<1> QED
  BY <1>1, <1>2, <1>3, <1>4, <1>5, SeqEqual

(* What has left the window before the time passes does not matter after.  *)
LEMMA OlderKept ==
    ASSUME NEW events, EventsOK(events)
    PROVE  /\ Kept(Older(Kept(events))) = Kept(Older(events))
           /\ Total(Costs(Kept(Older(events)))) <= Total(Costs(Kept(events)))
<1> DEFINE o == Older(events)  kept == Kept(events)  ok == Older(Kept(events))
           k == ExpireIdx(events)  x == ExpireIdx(Older(events))
<1>1. /\ Len(events) \in Nat /\ events \in Seq(Charge) /\ k \in 0..Len(events)
      /\ \A i \in 1..Len(events) : events[i].age \in Nat /\ (i <= k <=> events[i].age > Window)
      /\ Window \in Nat
  BY ExpireIdxProperties, ChargeProperties, WindowType DEF EventsOK
<1>2. /\ EventsOK(o) /\ Len(o) = Len(events)
      /\ \A i \in 1..Len(events) :
           /\ o[i].cost = events[i].cost
           /\ o[i].age = IF events[i].age > Window THEN events[i].age ELSE events[i].age + 1
  BY OlderProperties
<1>3. x \in 0..Len(events) /\ \A i \in 1..Len(events) : i <= x <=> o[i].age > Window
  BY <1>2, ExpireIdxProperties
<1>4. /\ EventsOK(kept) /\ Len(kept) = Len(events) - k
      /\ \A i \in 1..Len(kept) : kept[i] = events[i + k]
  BY KeptProperties
<1>5. /\ EventsOK(ok) /\ Len(ok) = Len(events) - k
      /\ \A i \in 1..Len(kept) :
           /\ ok[i].cost = kept[i].cost
           /\ ok[i].age = IF kept[i].age > Window THEN kept[i].age ELSE kept[i].age + 1
  BY <1>4, OlderProperties
<1> HIDE DEF o, kept, ok, k, x
<1>6. k <= x
  <2> SUFFICES ASSUME x < k PROVE FALSE
    BY <1>1, <1>3
  <2>1. k \in 1..Len(events) /\ k <= k /\ ~ (k <= x)
    BY <1>1, <1>3
  <2>2. events[k].age > Window /\ ~ (o[k].age > Window)
    BY <1>1, <1>3, <2>1
  <2> QED
    BY <1>1, <1>2, <2>1, <2>2
<1>7. ExpireIdx(ok) = x - k
  <2>1. x - k \in 0..Len(ok)
    BY <1>1, <1>3, <1>5, <1>6
  <2>2. ASSUME NEW i \in 1..Len(ok) PROVE i <= x - k <=> ok[i].age > Window
    <3>1. i \in 1..Len(kept) /\ i + k \in 1..Len(events) /\ (i <= x - k <=> i + k <= x)
      BY <1>1, <1>3, <1>4, <1>5
    <3>2. ok[i].age = o[i + k].age
      BY <1>2, <1>4, <1>5, <3>1
    <3> QED
      BY <1>3, <3>1, <3>2
  <2> QED
    BY <1>5, <2>1, <2>2, ExpireIdxUnique
<1>8. /\ EventsOK(Kept(ok)) /\ Len(Kept(ok)) = Len(events) - x
      /\ \A i \in 1..Len(Kept(ok)) : Kept(ok)[i] = ok[i + (x - k)]
  <2>1. Len(events) - k - (x - k) = Len(events) - x
    BY <1>1, <1>3
  <2> QED
    BY <1>5, <1>7, <2>1, KeptProperties
<1>9. /\ EventsOK(Kept(o)) /\ Len(Kept(o)) = Len(events) - x
      /\ \A i \in 1..Len(Kept(o)) : Kept(o)[i] = o[i + x]
  BY <1>2, KeptProperties DEF x, o
<1>10. ASSUME NEW i \in 1..Len(Kept(ok)) PROVE Kept(ok)[i] = Kept(o)[i]
  <2>1. /\ i + (x - k) \in 1..Len(kept) /\ i + (x - k) + k = i + x /\ i + x \in 1..Len(events)
        /\ i \in 1..Len(Kept(o)) /\ i + (x - k) \in 1..Len(ok) /\ i + x \in 1..Len(o)
    BY <1>1, <1>2, <1>3, <1>4, <1>5, <1>6, <1>8, <1>9
  <2>2. /\ ok[i + (x - k)].cost = o[i + x].cost
        /\ ok[i + (x - k)].age = o[i + x].age
    <3>1. kept[i + (x - k)] = events[i + x]
      BY <1>4, <2>1
    <3> QED
      BY <1>2, <1>5, <2>1, <3>1
  <2>3. ok[i + (x - k)] \in Charge /\ o[i + x] \in Charge
    BY <1>2, <1>5, <2>1, ChargeProperties DEF EventsOK
  <2>4. ok[i + (x - k)] = o[i + x]
    BY <2>2, <2>3 DEF Charge
  <2> QED
    BY <1>8, <1>9, <2>1, <2>4
<1>11. Kept(ok) = Kept(o)
  BY <1>8, <1>9, <1>10, SeqEqual DEF EventsOK
<1>12. Total(Costs(Kept(ok))) <= Total(Costs(kept))
  <2>1. Total(Costs(Kept(ok))) <= Total(Costs(ok))
    BY <1>5, KeptProperties
  <2>2. Costs(ok) = Costs(kept)
    BY <1>4, OlderCosts DEF ok, kept
  <2> QED
    BY <2>1, <2>2
<1> QED
  BY <1>11, <1>12 DEF ok, o, kept

LEMMA AppendedOK ==
    ASSUME NEW events, EventsOK(events), NEW cost \in Nat \ {0}
    PROVE  LET e == [age |-> 0, cost |-> cost]
           IN  /\ e \in Charge /\ EventsOK(Append(events, e))
               /\ Len(Append(events, e)) = Len(events) + 1
               /\ Append(events, e)[Len(events) + 1] = e
               /\ \A i \in 1..Len(events) : Append(events, e)[i] = events[i]
               /\ Total(Costs(Append(events, e))) = Total(Costs(events)) + cost
<1> DEFINE e == [age |-> 0, cost |-> cost]
<1>1. e \in Charge /\ e.age = 0 /\ e.cost = cost
  BY WindowType DEF Charge
<1>2. /\ events \in Seq(Charge) /\ Len(events) \in Nat
      /\ \A i \in 1..Len(events) : events[i].age \in Nat
  BY ChargeProperties DEF EventsOK
<1> HIDE DEF e
<1>3. /\ Append(events, e) \in Seq(Charge) /\ Len(Append(events, e)) = Len(events) + 1
      /\ Append(events, e)[Len(events) + 1] = e
      /\ \A i \in 1..Len(events) : Append(events, e)[i] = events[i]
  BY <1>1, <1>2, AppendProperties
<1>4. PICK s : s = Append(events, e)
  OBVIOUS
<1>5. Aging(s)
  <2> SUFFICES ASSUME NEW i \in 1..Len(s), NEW j \in 1..Len(s), i < j
               PROVE  s[j].age <= s[i].age
    BY DEF Aging
  <2>1. i \in 1..Len(events) /\ s[i] = events[i]
    BY <1>2, <1>3, <1>4
  <2>2. CASE j \in 1..Len(events)
    BY <1>3, <1>4, <2>1, <2>2 DEF EventsOK, Aging
  <2>3. CASE j = Len(events) + 1
    BY <1>1, <1>2, <1>3, <1>4, <2>1, <2>3
  <2> QED
    BY <1>2, <1>3, <1>4, <2>2, <2>3
<1>6. Total(Costs(Append(events, e))) = Total(Costs(events)) + e.cost
  BY <1>1, <1>2, TotalOfAppend
<1> QED
  BY <1>1, <1>3, <1>4, <1>5, <1>6 DEF EventsOK, e

(******************************** Requests *********************************)

LEMMA ConstantTypes ==
    /\ Window \in Nat /\ Limits \subseteq Nat /\ FirstLimit \in Limits
    /\ Sizes \subseteq Nat /\ Sizes \subseteq Int /\ 0 \notin Sizes
    /\ \A max \in Limits : max \in Nat
BY RateLimitAssumption

LEMMA TotalType ==
    ASSUME NEW s \in Seq(Sizes)
    PROVE  Total(s) \in Nat
<1>1. s \in Seq(Int) /\ Len(s) \in Nat /\ \A i \in 1..Len(s) : s[i] \in Nat
  <2>1. Len(s) \in Nat /\ \A i \in 1..Len(s) : s[i] \in Sizes
    OBVIOUS
  <2>2. \A i \in 1..Len(s) : s[i] \in Nat /\ s[i] \in Int
    BY <2>1, ConstantTypes
  <2>3. s \in Seq(Int)
    <3>1. s = [i \in 1..Len(s) |-> s[i]]
      OBVIOUS
    <3> QED
      BY <2>1, <2>2, <3>1, IsASeq
  <2> QED
    BY <2>1, <2>2, <2>3
<1>2. PICK f : f[0] = 0 /\ SumsUp(f, s, Len(s)) /\ Total(s) = f[Len(s)]
  BY <1>1, TotalUnfolds
<1>3. 0 \in 0..Len(s) /\ Len(s) \in 0..Len(s)
  BY <1>1
<1>4. f[0] <= f[Len(s)] /\ f[Len(s)] \in Int
  <2>1. \A i, j \in 0..Len(s) : i <= j => f[i] <= f[j]
    BY <1>1, <1>2, SumsGrow
  <2>2. \A i \in 0..Len(s) : f[i] \in Int
    BY <1>2 DEF SumsUp
  <2> QED
    BY <1>1, <1>3, <2>1, <2>2
<1> QED
  BY <1>2, <1>4

LEMMA LimitedProperties ==
    ASSUME NEW bodies \in Seq(Sizes), NEW room \in Nat
    PROVE  /\ Limited(bodies, room) \in 0..Len(bodies)
           /\ Total(SubSeq(bodies, 1, Limited(bodies, room))) <= room
<1> DEFINE First(k) == Total(SubSeq(bodies, 1, k))
           Fitting == {k \in 1..Len(bodies) : First(k) <= room}
           Fit(k) == First(k) <= room /\ (k < Len(bodies) => First(k + 1) > room)
<1>1. Len(bodies) \in Nat
  OBVIOUS
<1>2. \A k \in 0..Len(bodies) : First(k) \in Nat
  BY <1>1, SplitProperties, TotalType
<1>3. First(0) = 0
  <2>1. SubSeq(bodies, 1, 0) = << >>
    OBVIOUS
  <2> QED
    BY <2>1, TotalEmpty
<1>4. Limited(bodies, room) = CHOOSE k \in 0..Len(bodies) : Fit(k)
  BY DEF Limited
<1> HIDE DEF First
<1>5. \E k \in 0..Len(bodies) : Fit(k)
  <2>1. CASE Fitting = {}
    <3>1. 0 \in 0..Len(bodies) /\ First(0) <= room
      BY <1>1, <1>3
    <3>2. 0 < Len(bodies) => 1 \in 1..Len(bodies) /\ 0 + 1 = 1 /\ 1 \in 0..Len(bodies)
      BY <1>1
    <3>3. 0 < Len(bodies) => First(0 + 1) > room
      BY <1>2, <2>1, <3>2
    <3> QED
      BY <3>1, <3>3
  <2>2. CASE Fitting # {}
    <3>1. PICK k \in Fitting : \A i \in Fitting : i <= k
      BY <1>1, <2>2, GreatestNat
    <3>2. k < Len(bodies) => First(k + 1) > room
      <4> SUFFICES ASSUME k < Len(bodies) PROVE First(k + 1) > room
        OBVIOUS
      <4>1. k + 1 \in 1..Len(bodies) /\ k + 1 \in 0..Len(bodies) /\ ~ (k + 1 <= k)
        BY <1>1
      <4>2. ~ (First(k + 1) <= room)
        BY <3>1, <4>1
      <4> QED
        BY <1>2, <4>1, <4>2
    <3> QED
      BY <1>1, <3>1, <3>2
  <2> QED
    BY <2>1, <2>2
<1>6. Limited(bodies, room) \in 0..Len(bodies) /\ Fit(Limited(bodies, room))
  BY <1>4, <1>5
<1> QED
  BY <1>6 DEF First

(******************************* Invariants ********************************)

LimiterInv(l) ==
    /\ l = [max |-> l.max, events |-> l.events, sum |-> l.sum]
    /\ l.max \in Limits /\ EventsOK(l.events) /\ l.sum = Total(Costs(l.events))

RequestInv ==
    /\ request = [at |-> request.at, bodies |-> request.bodies]
    /\ request.at \in {"none", "wire", "served", "refused"}
    /\ request.bodies \in Seq(Sizes)
    /\ request.at = "none" => request = NoRequest

RateInv ==
    /\ limit \in Limits /\ LimiterInv(own) /\ LimiterInv(other)
    /\ pool \in Seq(Sizes) /\ RequestInv /\ down \in BOOLEAN
    /\ taken = Kept(other.events)

Cost == Total(request.bodies)

Now(cost) == [age |-> 0, cost |-> cost]

(* What the follower has charged itself or will when the answer is in. *)
Charged ==
    IF request.at = "served" /\ Cost > 0 THEN Append(own.events, Now(Cost)) ELSE own.events

(* What is within the window in early is, counted from the end, at the     *)
(* same place of late and no older there.                                  *)
Covered(early, late) ==
    \A i \in 1..Len(early) :
        early[i].age <= Window =>
            LET j == i + (Len(late) - Len(early))
            IN  /\ j >= 1 /\ late[j].cost = early[i].cost
                /\ late[j].age <= early[i].age

LateInv ==
    /\ lost \in Nat /\ changes \in Nat
    /\ lost = 0 /\ changes = 0 =>
         /\ own.max = limit /\ other.max = limit /\ request.at # "refused"
         /\ Covered(other.events, Charged)
         /\ request.at \in {"wire", "served"} /\ Cost > 0 =>
               Cost + Total(Costs(Kept(own.events))) <= own.max

(******************** What the operations of a limiter do ******************)

LEMMA LimiterType ==
    ASSUME NEW l, LimiterInv(l)
    PROVE  /\ l.max \in Nat /\ EventsOK(l.events) /\ l.sum \in Nat
           /\ Total(Costs(Kept(l.events))) \in Nat
BY ConstantTypes, KeptProperties DEF LimiterInv

LEMMA ExpiredProperties ==
    ASSUME NEW l, LimiterInv(l)
    PROVE  /\ LimiterInv(Expired(l)) /\ Expired(l).max = l.max
           /\ Expired(l).events = Kept(l.events)
           /\ Expired(l).sum = Total(Costs(Kept(l.events)))
           /\ Total(Costs(Kept(l.events))) \in Nat
<1> DEFINE gone == Total(Costs(SubSeq(l.events, 1, ExpireIdx(l.events))))
<1>1. /\ EventsOK(Kept(l.events)) /\ Total(Costs(Kept(l.events))) \in Nat
      /\ Total(Costs(l.events)) = gone + Total(Costs(Kept(l.events)))
  BY KeptProperties DEF LimiterInv
<1>2. Expired(l) = [max |-> l.max, events |-> Kept(l.events), sum |-> l.sum - gone]
  <2>1. Expired(l) = [l EXCEPT !.events = Kept(l.events), !.sum = l.sum - gone]
    BY DEF Expired
  <2>2. l = [max |-> l.max, events |-> l.events, sum |-> l.sum]
    BY DEF LimiterInv
  <2> HIDE DEF gone
  <2> QED
    BY <2>1, <2>2
<1>3. gone \in Int
  <2>1. /\ ExpireIdx(l.events) \in 0..Len(l.events) /\ l.events \in Seq(Charge)
    BY ExpireIdxProperties DEF LimiterInv, EventsOK
  <2>2. SubSeq(l.events, 1, ExpireIdx(l.events)) \in Seq(Charge)
    BY <2>1, SplitProperties
  <2>3. PICK f : /\ \A i \in 0..Len(SubSeq(l.events, 1, ExpireIdx(l.events))) : f[i] \in Int
                 /\ gone = f[Len(SubSeq(l.events, 1, ExpireIdx(l.events)))]
    BY <2>2, CostSums
  <2> QED
    BY <2>2, <2>3
<1>4. l.sum - gone = Total(Costs(Kept(l.events)))
  BY <1>1, <1>3 DEF LimiterInv
<1> HIDE DEF gone
<1> QED
  BY <1>1, <1>2, <1>4 DEF LimiterInv

LEMMA AcquiredProperties ==
    ASSUME NEW l, LimiterInv(l), NEW cost \in Nat
    PROVE  /\ LimiterInv(Acquired(l, cost)) /\ Acquired(l, cost).max = l.max
           /\ Acquires(l, cost) <=> cost = 0 \/ cost + Total(Costs(Kept(l.events))) <= l.max
           /\ cost = 0 => Acquired(l, cost) = l
           /\ cost > 0 /\ Acquires(l, cost) =>
                Acquired(l, cost).events = Append(Kept(l.events), Now(cost))
           /\ cost > 0 /\ ~ Acquires(l, cost) => Acquired(l, cost).events = Kept(l.events)
<1> DEFINE x == Expired(l)  total == Total(Costs(Kept(l.events)))
<1>1. /\ LimiterInv(x) /\ x.max = l.max /\ x.events = Kept(l.events)
      /\ x.sum = total /\ total \in Nat /\ l.max \in Nat
  BY ExpiredProperties, LimiterType
<1>2. Acquires(l, cost) <=> cost = 0 \/ cost <= Remaining(x)
  BY DEF Acquires
<1> HIDE DEF x, total
<1>3. Remaining(x) = IF l.max > total THEN l.max - total ELSE 0
  BY <1>1 DEF Remaining
<1>4. Acquires(l, cost) <=> cost = 0 \/ cost + total <= l.max
  <2>1. cost <= Remaining(x) <=> cost = 0 \/ cost + total <= l.max
    BY <1>1, <1>3
  <2> QED
    BY <1>2, <2>1
<1>5. CASE cost = 0
  BY <1>4, <1>5 DEF Acquired, total
<1>6. CASE cost > 0 /\ ~ Acquires(l, cost)
  <2>1. Acquired(l, cost) = x
    BY <1>6 DEF Acquired, x
  <2> QED
    BY <1>1, <1>4, <1>6, <2>1 DEF total
<1>7. CASE cost > 0 /\ Acquires(l, cost)
  <2>1. Acquired(l, cost) =
          [x EXCEPT !.events = Append(@, [age |-> 0, cost |-> cost]), !.sum = @ + cost]
    BY <1>7 DEF Acquired, x
  <2>2. x = [max |-> x.max, events |-> x.events, sum |-> x.sum]
    BY <1>1 DEF LimiterInv
  <2>3. Acquired(l, cost) =
          [max |-> l.max, events |-> Append(Kept(l.events), Now(cost)), sum |-> total + cost]
    BY <1>1, <2>1, <2>2 DEF Now
  <2>4. /\ EventsOK(Append(Kept(l.events), Now(cost)))
        /\ Total(Costs(Append(Kept(l.events), Now(cost)))) = total + cost
    <3>1. EventsOK(Kept(l.events)) /\ cost \in Nat \ {0}
      BY <1>1, <1>7 DEF LimiterInv
    <3> QED
      BY <3>1, AppendedOK DEF Now, total
  <2>5. l.max \in Limits
    BY DEF LimiterInv
  <2> QED
    BY <1>4, <1>7, <2>3, <2>4, <2>5 DEF LimiterInv, total
<1> QED
  BY <1>5, <1>6, <1>7

LEMMA KeptOfCharged ==
    ASSUME NEW events, EventsOK(events), NEW cost \in Nat \ {0}
    PROVE  /\ Kept(Kept(events)) = Kept(events)
           /\ Kept(Append(Kept(events), Now(cost))) = Append(Kept(events), Now(cost))
<1>1. EventsOK(Kept(events)) /\ \A i \in 1..Len(Kept(events)) : Kept(events)[i].age <= Window
  BY KeptProperties
<1>2. PICK kept : kept = Kept(events)
  OBVIOUS
<1>3. PICK more : more = Append(kept, Now(cost))
  OBVIOUS
<1>4. /\ EventsOK(more) /\ Len(more) = Len(kept) + 1 /\ Len(kept) \in Nat
      /\ more[Len(kept) + 1] = Now(cost) /\ \A i \in 1..Len(kept) : more[i] = kept[i]
  BY <1>1, <1>2, <1>3, AppendedOK, ChargeProperties DEF Now, EventsOK
<1>5. Now(cost).age = 0 /\ 0 <= Window
  BY WindowType DEF Now
<1>6. \A i \in 1..Len(more) : i \in 1..Len(kept) \/ i = Len(kept) + 1
  BY <1>4
<1>7. \A i \in 1..Len(more) : more[i].age <= Window
  BY <1>1, <1>2, <1>4, <1>5, <1>6
<1> QED
  BY <1>1, <1>2, <1>3, <1>4, <1>7, AllKept

LEMMA UpdatedProperties ==
    ASSUME NEW l, LimiterInv(l), limit \in Limits
    PROVE  /\ LimiterInv(Updated(l)) /\ Updated(l).max = limit
           /\ Updated(l).events = l.events
<1>1. l = [max |-> l.max, events |-> l.events, sum |-> l.sum]
  BY DEF LimiterInv
<1>2. Updated(l) = [max |-> limit, events |-> l.events, sum |-> l.sum]
  BY <1>1 DEF Updated
<1> QED
  BY <1>2 DEF LimiterInv

LEMMA AgedProperties ==
    ASSUME NEW l, LimiterInv(l), NEW aged, aged = [l EXCEPT !.events = Older(@)]
    PROVE  LimiterInv(aged) /\ aged.max = l.max /\ aged.events = Older(l.events)
<1>1. l = [max |-> l.max, events |-> l.events, sum |-> l.sum]
  BY DEF LimiterInv
<1>2. aged = [max |-> l.max, events |-> Older(l.events), sum |-> l.sum]
  BY <1>1
<1>3. EventsOK(Older(l.events)) /\ Costs(Older(l.events)) = Costs(l.events)
  BY OlderProperties, OlderCosts DEF LimiterInv
<1> QED
  BY <1>2, <1>3 DEF LimiterInv

(*************************** The type invariant ****************************)

LEMMA RateInvInit == RateInit => RateInv
<1> SUFFICES ASSUME RateInit PROVE RateInv
  OBVIOUS
<1>1. EventsOK(<< >>) /\ Len(<< >>) = 0 /\ << >> \in Seq(Sizes)
  BY DEF EventsOK, Aging
<1>2. Costs(<< >>) = << >>
  <2>1. Costs(<< >>) \in Seq(Nat) /\ Len(Costs(<< >>)) = 0
    BY <1>1, CostsProperties DEF EventsOK
  <2> QED
    BY <2>1
<1>3. Kept(<< >>) = << >>
  BY <1>1, AllKept
<1>4. LimiterInv(Limiter(FirstLimit)) /\ Limiter(FirstLimit).events = << >>
  BY <1>1, <1>2, TotalEmpty, ConstantTypes DEF LimiterInv, Limiter
<1>5. RequestInv
  BY <1>1 DEF RateInit, RequestInv, NoRequest
<1> QED
  BY <1>1, <1>3, <1>4, <1>5, ConstantTypes DEF RateInit, RateInv

(* What an arriving request does to the limiter of the sequencer, and what *)
(* that lets through.                                                      *)
LEMMA ArriveProperties ==
    ASSUME RateInv, Arrive
    PROVE  /\ LimiterInv(other') /\ other'.max = limit
           /\ taken' = Kept(other'.events)
           /\ taken' # taken =>
                /\ Cost > 0 /\ taken' = Append(taken, Now(Cost))
                /\ Total(Costs(taken')) <= limit
<1> DEFINE l == Updated(other)
<1>1. LimiterInv(l) /\ l.max = limit /\ l.events = other.events
  BY UpdatedProperties DEF RateInv
<1>2. Cost \in Nat
  BY TotalType DEF RateInv, RequestInv, Cost
<1>3. /\ other' = Acquired(l, Cost)
      /\ taken' = IF Acquires(l, Cost) /\ Cost > 0 THEN Append(taken, Now(Cost)) ELSE taken
  BY DEF Arrive, Cost, Now
<1> HIDE DEF l
<1>4. PICK kept : kept = Kept(other.events)
  OBVIOUS
<1>5. taken = kept /\ EventsOK(kept) /\ Total(Costs(kept)) \in Nat
  BY <1>4, KeptProperties DEF RateInv, LimiterInv
<1>6. LimiterInv(other') /\ other'.max = limit
  BY <1>1, <1>2, <1>3, AcquiredProperties
<1>7. CASE Cost = 0
  <2>1. other' = l
    BY <1>1, <1>2, <1>3, <1>7, AcquiredProperties
  <2> QED
    BY <1>1, <1>2, <1>3, <1>4, <1>5, <1>6, <1>7, <2>1
<1>8. CASE Cost > 0 /\ ~ Acquires(l, Cost)
  <2>1. other'.events = kept
    BY <1>1, <1>2, <1>3, <1>4, <1>8, AcquiredProperties
  <2>2. Kept(kept) = kept
    BY <1>1, <1>2, <1>4, <1>8, KeptOfCharged DEF LimiterInv
  <2> QED
    BY <1>3, <1>5, <1>6, <1>8, <2>1, <2>2
<1>9. CASE Cost > 0 /\ Acquires(l, Cost)
  <2>1. other'.events = Append(kept, Now(Cost))
    BY <1>1, <1>2, <1>3, <1>4, <1>9, AcquiredProperties
  <2>2. Kept(Append(kept, Now(Cost))) = Append(kept, Now(Cost))
    BY <1>1, <1>2, <1>4, <1>9, KeptOfCharged DEF LimiterInv
  <2>3. taken' = Append(kept, Now(Cost))
    BY <1>3, <1>5, <1>9
  <2>4. Total(Costs(Append(kept, Now(Cost)))) = Total(Costs(kept)) + Cost
    BY <1>2, <1>5, <1>9, AppendedOK DEF Now
  <2>5. Cost + Total(Costs(kept)) <= limit
    <3>1. Cost + Total(Costs(Kept(l.events))) <= l.max
      BY <1>1, <1>2, <1>9, AcquiredProperties
    <3> QED
      BY <1>1, <1>4, <3>1
  <2>6. Total(Costs(taken')) <= limit
    BY <1>2, <1>5, <2>3, <2>4, <2>5
  <2> QED
    BY <1>5, <1>6, <1>9, <2>1, <2>2, <2>3, <2>6
<1> QED
  BY <1>2, <1>7, <1>8, <1>9

LEMMA GiveUpProperties ==
    ASSUME RateInv, GiveUp
    PROVE  pool' \in Seq(Sizes) /\ RequestInv' /\ down' \in BOOLEAN
<1>1. request.bodies \in Seq(Sizes) /\ pool \in Seq(Sizes)
  BY DEF RateInv, RequestInv
<1>2. Reverse(request.bodies) \in Seq(Sizes)
  BY <1>1, ReverseProperties
<1>3. pool' \in Seq(Sizes) /\ request' = NoRequest /\ down' = TRUE
  BY <1>1, <1>2, ConcatProperties DEF GiveUp
<1>4. << >> \in Seq(Sizes)
  OBVIOUS
<1> QED
  BY <1>3, <1>4 DEF RequestInv, NoRequest

LEMMA PutBackProperties ==
    ASSUME RateInv, PutBack
    PROVE  pool' \in Seq(Sizes)
<1>1. request.bodies \in Seq(Sizes) /\ pool \in Seq(Sizes) /\ Len(request.bodies) \in Nat
  BY LenProperties DEF RateInv, RequestInv
<1>2. PICK n \in 0..Len(request.bodies) :
        \/ pool' = pool
        \/ \E order \in SetToSeqs(n + 1..Len(request.bodies)) :
             pool' = [i \in DOMAIN order |-> request.bodies[order[i]]] \o pool
  BY DEF PutBack
<1>3. ASSUME NEW order \in SetToSeqs(n + 1..Len(request.bodies))
      PROVE  [i \in DOMAIN order |-> request.bodies[order[i]]] \in Seq(Sizes)
  <2> DEFINE T == n + 1..Len(request.bodies)
             s == [i \in DOMAIN order |-> request.bodies[order[i]]]
  <2>1. IsFiniteSet(T)
    BY <1>1, FS_Interval
  <2>2. order \in Seq(T)
    BY <2>1, SetToSeqsProperties
  <2>3. Len(order) \in Nat /\ DOMAIN order = 1..Len(order)
    BY <2>2, LenProperties
  <2>4. \A i \in 1..Len(order) : order[i] \in T
    BY <2>2, ElementOfSeq
  <2>5. \A i \in T : request.bodies[i] \in Sizes
    <3>1. \A i \in T : i \in 1..Len(request.bodies)
      BY <1>1
    <3> QED
      BY <1>1, <3>1, ElementOfSeq
  <2>6. s \in [1..Len(order) -> Sizes]
    BY <2>3, <2>4, <2>5
  <2> QED
    BY <2>3, <2>6
<1> QED
  BY <1>1, <1>2, <1>3, ConcatProperties

LEMMA RateInvStep == RateInv /\ [RateNext]_rateVars => RateInv'
<1> SUFFICES ASSUME RateInv, [RateNext]_rateVars PROVE RateInv'
  OBVIOUS
<1>1. /\ limit \in Limits /\ LimiterInv(own) /\ LimiterInv(other)
      /\ pool \in Seq(Sizes) /\ RequestInv /\ down \in BOOLEAN
      /\ taken = Kept(other.events)
  BY DEF RateInv
<1>2. ASSUME NEW size \in Sizes, Post(size) PROVE RateInv'
  <2>1. pool' \in Seq(Sizes)
    BY <1>1, <1>2, AppendProperties DEF Post
  <2> QED
    BY <1>1, <1>2, <2>1 DEF Post, RateInv, RequestInv
<1>3. CASE Send
  <2>1. LimiterInv(own')
    BY <1>1, <1>3, ExpiredProperties DEF Send
  <2>2. Remaining(own') \in Nat
    <3>1. own'.max \in Nat /\ own'.sum \in Nat
      BY <2>1, LimiterType
    <3> QED
      BY <3>1 DEF Remaining
  <2>3. PICK k : k = Limited(pool, Remaining(own'))
    OBVIOUS
  <2>4. k \in 0..Len(pool)
    BY <1>1, <2>2, <2>3, LimitedProperties
  <2>5. /\ request' = [at |-> "wire", bodies |-> SubSeq(pool, 1, k)]
        /\ pool' = SubSeq(pool, k + 1, Len(pool))
    BY <1>3, <2>3 DEF Send
  <2>6. SubSeq(pool, 1, k) \in Seq(Sizes) /\ pool' \in Seq(Sizes)
    BY <1>1, <2>4, <2>5, SplitProperties
  <2>7. RequestInv'
    BY <2>5, <2>6 DEF RequestInv
  <2> QED
    BY <1>1, <1>3, <2>1, <2>6, <2>7 DEF Send, RateInv
<1>4. CASE Arrive
  <2>1. LimiterInv(other') /\ taken' = Kept(other'.events)
    BY <1>4, ArriveProperties
  <2>2. RequestInv'
    <3>1. \E at \in {"served", "refused"} : request' = [request EXCEPT !.at = at]
      BY <1>4 DEF Arrive
    <3> QED
      BY <1>1, <3>1 DEF RequestInv
  <2> QED
    BY <1>1, <1>4, <2>1, <2>2 DEF Arrive, RateInv
<1>5. CASE Answered
  <2>1. LimiterInv(own')
    <3>1. Total(request.bodies) \in Nat
      BY <1>1, TotalType DEF RequestInv
    <3> QED
      BY <1>1, <1>5, <3>1, UpdatedProperties, AcquiredProperties DEF Answered
  <2>2. RequestInv'
    BY <1>5 DEF Answered, RequestInv, NoRequest
  <2>3. pool' \in Seq(Sizes)
    BY <1>5, PutBackProperties DEF Answered
  <2> QED
    BY <1>1, <1>5, <2>1, <2>2, <2>3 DEF Answered, RateInv
<1>11. CASE AnswerFails
  <2>1. LimiterInv(own')
    <3>1. Total(request.bodies) \in Nat
      BY <1>1, TotalType DEF RequestInv
    <3> QED
      BY <1>1, <1>11, <3>1, UpdatedProperties, AcquiredProperties DEF AnswerFails
  <2> QED
    BY <1>1, <1>11, <2>1, GiveUpProperties DEF AnswerFails, RateInv
<1>6. CASE Refused
  BY <1>1, <1>6, GiveUpProperties DEF Refused, RateInv
<1>7. CASE Lose
  BY <1>1, <1>7, GiveUpProperties DEF Lose, RateInv
<1>8. CASE Age
  <2>1. LimiterInv(own')
    BY <1>1, <1>8, AgedProperties DEF Age
  <2>2. LimiterInv(other') /\ other'.events = Older(other.events)
    BY <1>1, <1>8, AgedProperties DEF Age
  <2>3. taken' = Kept(other'.events)
    BY <1>1, <1>8, <2>2, OlderKept DEF Age, LimiterInv
  <2> QED
    BY <1>1, <1>8, <2>1, <2>2, <2>3 DEF Age, RateInv, RequestInv
<1>9. ASSUME NEW new \in Limits, Refresh(new) PROVE RateInv'
  BY <1>1, <1>9 DEF Refresh, RateInv, RequestInv
<1>10. CASE UNCHANGED rateVars
  BY <1>1, <1>10 DEF rateVars, RateInv, RequestInv
<1> QED
  BY <1>2, <1>3, <1>4, <1>5, <1>6, <1>7, <1>8, <1>9, <1>10, <1>11 DEF RateNext

LEMMA RateInvHolds == RateSpec => []RateInv
BY RateInvInit, RateInvStep, PTL DEF RateSpec

(* A limiter lists what is left of the charges, each of an age and a cost, *)
(* and the sum that it keeps step by step is theirs (                      *)
(* MovingWindowRateLimiter of common/rate_limit.py), on both sides.        *)
THEOREM RatesAreTyped == RateSpec => []RateTypeOK
<1>1. RateInv => RateTypeOK
  <2> SUFFICES ASSUME RateInv PROVE RateTypeOK
    OBVIOUS
  <2>1. \A l : LimiterInv(l) => LimiterOK(l)
    BY DEF LimiterInv, LimiterOK, EventsOK, Charge
  <2>2. request \in [at : {"none", "wire", "served", "refused"}, bodies : Seq(Sizes)]
    BY DEF RateInv, RequestInv
  <2> QED
    BY <2>1, <2>2 DEF RateInv, RateTypeOK
<1> QED
  BY <1>1, RateInvHolds, PTL

(* Whatever is lost, sent again or changed: with what it takes from a node *)
(* the sequencer stays within the limit of the window (put_batches of      *)
(* sequencer/routers.py).                                                  *)
THEOREM TakenStaysWithinLimit == RateSpec => TakenWithinLimit
<1> DEFINE Within == taken' # taken /\ Len(taken') > Len(taken) => Total(Costs(taken')) <= limit
<1>1. RateInv /\ [RateNext]_rateVars => Within
  <2> SUFFICES ASSUME RateInv, [RateNext]_rateVars PROVE Within
    OBVIOUS
  <2>1. CASE Arrive
    BY <2>1, ArriveProperties
  <2>2. CASE Age
    <3>1. EventsOK(taken)
      BY KeptProperties DEF RateInv, LimiterInv
    <3>2. /\ EventsOK(Older(taken)) /\ Len(Older(taken)) = Len(taken)
          /\ Len(taken) \in Nat
      BY <3>1, OlderProperties, ChargeProperties DEF EventsOK
    <3>3. ExpireIdx(Older(taken)) \in 0..Len(taken)
      BY <3>2, ExpireIdxProperties
    <3>4. Len(taken') = Len(taken) - ExpireIdx(Older(taken))
      BY <2>2, <3>2, KeptProperties DEF Age
    <3> QED
      BY <3>2, <3>3, <3>4
  <2>3. CASE taken' = taken
    BY <2>3
  <2> QED
    BY <2>1, <2>2, <2>3 DEF RateNext, Post, Send, Answered, AnswerFails, Refused, Lose, Refresh, rateVars
<1> QED
  BY <1>1, RateInvHolds, PTL DEF RateSpec, TakenWithinLimit

(******************* The follower's window and the sequencer's *************)

LEMMA CoveredTyped ==
    ASSUME NEW early, EventsOK(early), NEW late, EventsOK(late)
    PROVE  /\ Len(early) \in Nat /\ Len(late) \in Nat /\ Window \in Nat
           /\ \A i \in 1..Len(early) :
                early[i].age \in Nat /\ early[i].cost \in Nat \ {0} /\ early[i] \in Charge
           /\ \A i \in 1..Len(late) :
                late[i].age \in Nat /\ late[i].cost \in Nat \ {0} /\ late[i] \in Charge
<1>1. early \in Seq(Charge) /\ late \in Seq(Charge)
  BY DEF EventsOK
<1> QED
  BY <1>1, ChargeProperties, WindowType

LEMMA CoveredAt ==
    ASSUME NEW early, EventsOK(early), NEW late, EventsOK(late), Covered(early, late),
           NEW i \in 1..Len(early), early[i].age <= Window
    PROVE  LET j == i + (Len(late) - Len(early))
           IN  /\ j \in 1..Len(late) /\ late[j].cost = early[i].cost
               /\ late[j].age <= early[i].age
BY CoveredTyped DEF Covered

LEMMA CoveredYounger ==
    ASSUME NEW early, EventsOK(early), NEW late, EventsOK(late), Covered(early, late),
           NEW younger, EventsOK(younger), Len(younger) = Len(late),
           \A i \in 1..Len(late) : younger[i].cost = late[i].cost /\ younger[i].age <= late[i].age
    PROVE  Covered(early, younger)
<1> SUFFICES ASSUME NEW i \in 1..Len(early), early[i].age <= Window
             PROVE  LET j == i + (Len(late) - Len(early))
                    IN  /\ j >= 1 /\ younger[j].cost = early[i].cost
                        /\ younger[j].age <= early[i].age
  BY DEF Covered
<1>1. PICK j : j = i + (Len(late) - Len(early))
  OBVIOUS
<1>2. j \in 1..Len(late) /\ late[j].cost = early[i].cost /\ late[j].age <= early[i].age
  BY <1>1, CoveredAt
<1>3. /\ younger[j].age \in Nat /\ late[j].age \in Nat /\ early[i].age \in Nat
      /\ Len(late) \in Nat
  BY <1>2, CoveredTyped
<1> QED
  BY <1>1, <1>2, <1>3

LEMMA CoveredOlder ==
    ASSUME NEW early, EventsOK(early), NEW late, EventsOK(late), Covered(early, late)
    PROVE  Covered(Older(early), Older(late))
<1>1. PICK e, l : e = Older(early) /\ l = Older(late)
  OBVIOUS
<1>2. /\ EventsOK(e) /\ Len(e) = Len(early)
      /\ \A i \in 1..Len(early) :
           /\ e[i].cost = early[i].cost
           /\ e[i].age = IF early[i].age > Window THEN early[i].age ELSE early[i].age + 1
  BY <1>1, OlderProperties
<1>3. /\ EventsOK(l) /\ Len(l) = Len(late)
      /\ \A i \in 1..Len(late) :
           /\ l[i].cost = late[i].cost
           /\ l[i].age = IF late[i].age > Window THEN late[i].age ELSE late[i].age + 1
  BY <1>1, OlderProperties
<1>4. SUFFICES ASSUME NEW i \in 1..Len(e), e[i].age <= Window
               PROVE  LET j == i + (Len(l) - Len(e))
                      IN  j >= 1 /\ l[j].cost = e[i].cost /\ l[j].age <= e[i].age
  BY <1>1 DEF Covered
<1>5. /\ i \in 1..Len(early) /\ early[i].age \in Nat /\ Window \in Nat
  BY <1>2, CoveredTyped
<1>6. early[i].age <= Window /\ e[i].age = early[i].age + 1
  BY <1>2, <1>4, <1>5
<1>7. PICK j : j = i + (Len(late) - Len(early))
  OBVIOUS
<1>8. j \in 1..Len(late) /\ late[j].cost = early[i].cost /\ late[j].age <= early[i].age
  BY <1>5, <1>6, <1>7, CoveredAt
<1>9. late[j].age \in Nat /\ Len(late) \in Nat
  BY <1>8, CoveredTyped
<1>10. l[j].cost = e[i].cost /\ l[j].age <= e[i].age
  BY <1>2, <1>3, <1>5, <1>6, <1>8, <1>9
<1> QED
  BY <1>2, <1>3, <1>7, <1>8, <1>9, <1>10

LEMMA CoveredEarlyKept ==
    ASSUME NEW early, EventsOK(early), NEW late, EventsOK(late), Covered(early, late)
    PROVE  Covered(Kept(early), late)
<1>1. PICK e, k : e = Kept(early) /\ k = ExpireIdx(early)
  OBVIOUS
<1>2. /\ EventsOK(e) /\ Len(e) = Len(early) - k /\ k \in 0..Len(early)
      /\ \A i \in 1..Len(e) : e[i] = early[i + k] /\ e[i].age <= Window
  BY <1>1, KeptProperties, ExpireIdxProperties
<1>3. Len(early) \in Nat /\ Len(late) \in Nat
  BY CoveredTyped
<1>4. SUFFICES ASSUME NEW i \in 1..Len(e)
               PROVE  LET j == i + (Len(late) - Len(e))
                      IN  /\ j >= 1 /\ late[j].cost = e[i].cost
                          /\ late[j].age <= e[i].age
  BY <1>1 DEF Covered
<1>5. i + k \in 1..Len(early) /\ early[i + k].age <= Window
  BY <1>2, <1>3
<1>6. PICK j : j = (i + k) + (Len(late) - Len(early))
  OBVIOUS
<1>7. /\ j \in 1..Len(late) /\ late[j].cost = early[i + k].cost
      /\ late[j].age <= early[i + k].age
  BY <1>5, <1>6, CoveredAt
<1>8. j = i + (Len(late) - Len(e)) /\ j >= 1 /\ e[i] = early[i + k]
  <2>1. e[i] = early[i + k]
    BY <1>2, <1>4
  <2>2. i \in Int /\ k \in Int /\ j \in Int /\ j >= 1
    BY <1>2, <1>3, <1>4, <1>7
  <2>3. Len(e) = Len(early) - k /\ Len(early) \in Int /\ Len(late) \in Int
    BY <1>2, <1>3
  <2> QED
    BY <1>6, <2>1, <2>2, <2>3
<1> QED
  BY <1>7, <1>8

LEMMA CoveredLateKept ==
    ASSUME NEW early, EventsOK(early), NEW late, EventsOK(late), Covered(early, late)
    PROVE  Covered(early, Kept(late))
<1>1. PICK l, k : l = Kept(late) /\ k = ExpireIdx(late)
  OBVIOUS
<1>2. /\ EventsOK(l) /\ Len(l) = Len(late) - k /\ k \in 0..Len(late)
      /\ \A i \in 1..Len(l) : l[i] = late[i + k]
      /\ \A i \in 1..Len(late) : i <= k <=> late[i].age > Window
  BY <1>1, KeptProperties, ExpireIdxProperties
<1>3. Len(early) \in Nat /\ Len(late) \in Nat /\ Window \in Nat
  BY CoveredTyped
<1>4. SUFFICES ASSUME NEW i \in 1..Len(early), early[i].age <= Window
               PROVE  LET j == i + (Len(l) - Len(early))
                      IN  /\ j >= 1 /\ l[j].cost = early[i].cost
                          /\ l[j].age <= early[i].age
  BY <1>1 DEF Covered
<1>5. PICK j : j = i + (Len(late) - Len(early))
  OBVIOUS
<1>6. j \in 1..Len(late) /\ late[j].cost = early[i].cost /\ late[j].age <= early[i].age
  BY <1>4, <1>5, CoveredAt
<1>7. late[j].age \in Nat /\ early[i].age \in Nat
  BY <1>6, CoveredTyped
<1>8. ~ (j <= k)
  BY <1>2, <1>3, <1>4, <1>6, <1>7
<1>9. j - k \in 1..Len(l) /\ (j - k) + k = j /\ j - k = i + (Len(l) - Len(early))
  BY <1>2, <1>3, <1>5, <1>6, <1>8
<1>10. l[j - k] = late[j]
  BY <1>2, <1>9
<1> QED
  BY <1>6, <1>9, <1>10

LEMMA CoveredAppend ==
    ASSUME NEW early, EventsOK(early), NEW late, EventsOK(late), Covered(early, late),
           NEW cost \in Nat \ {0}
    PROVE  Covered(Append(early, Now(cost)), Append(late, Now(cost)))
<1>1. PICK e, l, now : /\ e = Append(early, now) /\ l = Append(late, now)
                       /\ now = Now(cost)
  OBVIOUS
<1>2. /\ EventsOK(e) /\ Len(e) = Len(early) + 1 /\ e[Len(early) + 1] = now
      /\ \A i \in 1..Len(early) : e[i] = early[i]
  BY <1>1, AppendedOK DEF Now
<1>3. /\ EventsOK(l) /\ Len(l) = Len(late) + 1 /\ l[Len(late) + 1] = now
      /\ \A i \in 1..Len(late) : l[i] = late[i]
  BY <1>1, AppendedOK DEF Now
<1>4. Len(early) \in Nat /\ Len(late) \in Nat
  BY CoveredTyped
<1>5. SUFFICES ASSUME NEW i \in 1..Len(e), e[i].age <= Window
               PROVE  LET j == i + (Len(l) - Len(e))
                      IN  j >= 1 /\ l[j].cost = e[i].cost /\ l[j].age <= e[i].age
  BY <1>1 DEF Covered
<1>6. PICK j : j = i + (Len(late) - Len(early))
  OBVIOUS
<1>7. j = i + (Len(l) - Len(e))
  BY <1>2, <1>3, <1>4, <1>6
<1>8. CASE i = Len(early) + 1
  <2>1. j = Len(late) + 1 /\ j >= 1
    BY <1>4, <1>6, <1>8
  <2>2. now.age <= now.age
    BY <1>1 DEF Now
  <2> QED
    BY <1>2, <1>3, <1>7, <1>8, <2>1, <2>2
<1>9. CASE i \in 1..Len(early)
  <2>1. e[i] = early[i]
    BY <1>2, <1>9
  <2>2. j \in 1..Len(late) /\ late[j].cost = early[i].cost /\ late[j].age <= early[i].age
    BY <1>5, <1>6, <1>9, <2>1, CoveredAt
  <2>3. l[j] = late[j] /\ j >= 1
    BY <1>3, <2>2
  <2> QED
    BY <1>7, <2>1, <2>2, <2>3
<1> QED
  BY <1>2, <1>4, <1>8, <1>9

(* What is covered costs no more than what covers it. *)
LEMMA CoveredTotal ==
    ASSUME NEW early, EventsOK(early), NEW late, EventsOK(late), Covered(early, late)
    PROVE  Total(Costs(Kept(early))) <= Total(Costs(Kept(late)))
<1>1. PICK e, l : e = Kept(early) /\ l = Kept(late)
  OBVIOUS
<1>2. /\ EventsOK(e) /\ EventsOK(l) /\ e \in Seq(Charge) /\ l \in Seq(Charge)
      /\ \A i \in 1..Len(e) : e[i].age <= Window
  BY <1>1, KeptProperties DEF EventsOK
<1>3. Covered(e, l)
  BY <1>1, <1>2, CoveredEarlyKept, CoveredLateKept
<1>4. Len(e) \in Nat /\ Len(l) \in Nat
  BY <1>2, CoveredTyped
<1>5. PICK d : d = Len(l) - Len(e)
  OBVIOUS
<1>6. \A i \in 1..Len(e) : i + d \in 1..Len(l) /\ l[i + d].cost = e[i].cost
  BY <1>2, <1>3, <1>5, CoveredAt
<1>7. d \in 0..Len(l)
  <2>1. CASE Len(e) = 0
    BY <1>4, <1>5, <2>1
  <2>2. CASE Len(e) # 0
    <3>1. 1 \in 1..Len(e)
      BY <1>4, <2>2
    <3>2. 1 + d \in 1..Len(l)
      BY <1>6, <3>1
    <3> QED
      BY <1>4, <1>5, <3>2
  <2> QED
    BY <2>1, <2>2
<1>8. PICK f : /\ f[0] = 0 /\ \A i \in 0..Len(l) : f[i] \in Int
               /\ \A i \in 1..Len(l) : f[i] = f[i - 1] + l[i].cost
               /\ \A i, j \in 0..Len(l) : i <= j => f[i] <= f[j]
               /\ Total(Costs(l)) = f[Len(l)]
  BY <1>2, CostSums
<1>9. Total(Costs(e)) = f[Len(l)] - f[d]
  <2>1. /\ Costs(e) \in Seq(Int) /\ Len(Costs(e)) = Len(e)
        /\ \A i \in 1..Len(e) : Costs(e)[i] = e[i].cost
    BY <1>2, CostsProperties
  <2>2. PICK g : g = [i \in 0..Len(e) |-> f[i + d]]
    OBVIOUS
  <2>3. \A i \in 0..Len(e) : g[i] = f[i + d] /\ i + d \in 0..Len(l)
    BY <1>4, <1>5, <1>7, <2>2
  <2>4. ASSUME NEW i \in 1..Len(e) PROVE g[i] = g[i - 1] + Costs(e)[i]
    <3>1. /\ i \in 0..Len(e) /\ i - 1 \in 0..Len(e) /\ (i - 1) + d = (i + d) - 1
      BY <1>4, <1>7
    <3>2. f[i + d] = f[(i + d) - 1] + l[i + d].cost
      BY <1>6, <1>8
    <3> QED
      BY <1>6, <2>1, <2>3, <3>1, <3>2
  <2>5. SumsUp(g, Costs(e), Len(Costs(e)))
    BY <1>8, <2>1, <2>3, <2>4 DEF SumsUp
  <2>6. g[Len(e)] = f[Len(l)] /\ g[0] = f[d]
    <3>1. Len(e) \in 0..Len(e) /\ 0 \in 0..Len(e) /\ Len(e) + d = Len(l) /\ 0 + d = d
      BY <1>4, <1>5, <1>7
    <3> QED
      BY <2>3, <3>1
  <2> QED
    BY <2>1, <2>5, <2>6, TotalIs
<1>10. f[d] \in Int /\ f[Len(l)] \in Int /\ f[0] <= f[d]
  BY <1>4, <1>7, <1>8
<1> QED
  BY <1>1, <1>8, <1>9, <1>10

LEMMA KeptOfAppend ==
    ASSUME NEW events, EventsOK(events), NEW cost \in Nat \ {0}
    PROVE  Kept(Append(events, Now(cost))) = Append(Kept(events), Now(cost))
<1>1. PICK more, kept, k, now : /\ now = Now(cost) /\ more = Append(events, now)
                                /\ kept = Kept(events) /\ k = ExpireIdx(events)
  OBVIOUS
<1>2. /\ EventsOK(more) /\ Len(more) = Len(events) + 1 /\ more[Len(events) + 1] = now
      /\ \A i \in 1..Len(events) : more[i] = events[i]
  BY <1>1, AppendedOK DEF Now
<1>3. /\ EventsOK(kept) /\ Len(kept) = Len(events) - k /\ k \in 0..Len(events)
      /\ \A i \in 1..Len(kept) : kept[i] = events[i + k]
      /\ \A i \in 1..Len(events) : i <= k <=> events[i].age > Window
  BY <1>1, KeptProperties, ExpireIdxProperties
<1>4. /\ Len(events) \in Nat /\ Window \in Nat /\ now.age = 0
  BY <1>1, CoveredTyped DEF Now
<1>5. \A i \in 1..Len(more) : i <= k <=> more[i].age > Window
  BY <1>2, <1>3, <1>4
<1>6. k \in 0..Len(more)
  BY <1>2, <1>3, <1>4
<1>7. ExpireIdx(more) = k
  BY <1>2, <1>5, <1>6, ExpireIdxUnique
<1>8. /\ EventsOK(Kept(more)) /\ Len(Kept(more)) = Len(more) - k
      /\ \A i \in 1..Len(Kept(more)) : Kept(more)[i] = more[i + k]
  BY <1>2, <1>7, KeptProperties
<1>9. PICK a : a = Append(kept, now)
  OBVIOUS
<1>10. /\ EventsOK(a) /\ Len(a) = Len(kept) + 1 /\ a[Len(kept) + 1] = now
       /\ \A i \in 1..Len(kept) : a[i] = kept[i]
  BY <1>1, <1>3, <1>9, AppendedOK DEF Now
<1>11. Len(Kept(more)) = Len(a)
  BY <1>2, <1>3, <1>4, <1>8, <1>10
<1>12. ASSUME NEW i \in 1..Len(a) PROVE Kept(more)[i] = a[i]
  <2>1. Kept(more)[i] = more[i + k]
    BY <1>8, <1>11
  <2>2. CASE i = Len(kept) + 1
    <3>1. i + k = Len(events) + 1
      BY <1>3, <1>4, <2>2
    <3> QED
      BY <1>2, <1>10, <2>1, <2>2, <3>1
  <2>3. CASE i \in 1..Len(kept)
    <3>1. i + k \in 1..Len(events)
      BY <1>3, <1>4, <2>3
    <3> QED
      BY <1>2, <1>3, <1>10, <2>1, <2>3, <3>1
  <2> QED
    BY <1>3, <1>4, <1>10, <2>2, <2>3
<1>13. Kept(more) = a
  BY <1>8, <1>10, <1>11, <1>12, SeqEqual DEF EventsOK
<1> QED
  BY <1>1, <1>9, <1>13

(************************* Nothing of it is refused ************************)

LEMMA CostType == ASSUME RateInv PROVE Cost \in Nat
BY TotalType DEF RateInv, RequestInv, Cost

LEMMA ChargedProperties ==
    ASSUME RateInv
    PROVE  EventsOK(Charged) /\ EventsOK(own.events) /\ EventsOK(other.events)
<1>1. EventsOK(own.events) /\ EventsOK(other.events)
  BY DEF RateInv, LimiterInv
<1>2. Cost > 0 => Cost \in Nat \ {0}
  BY CostType
<1>3. EventsOK(Charged)
  BY <1>1, <1>2, AppendedOK DEF Charged, Now
<1> QED
  BY <1>1, <1>3

LEMMA LateInvInit == RateInit => LateInv
<1> SUFFICES ASSUME RateInit PROVE LateInv
  OBVIOUS
<1>1. other.events = << >> /\ own.max = limit /\ other.max = limit
      /\ request.at = "none" /\ lost = 0 /\ changes = 0
  BY DEF RateInit, Limiter, NoRequest
<1>2. Covered(<< >>, Charged)
  BY DEF Covered
<1> QED
  BY <1>1, <1>2 DEF LateInv

LEMMA SendIsCovered ==
    ASSUME RateInv, LateInv, Send, lost = 0, changes = 0 PROVE LateInv'
<1>1. /\ own.max = limit /\ other.max = limit /\ request.at = "none"
      /\ Covered(other.events, own.events) /\ LimiterInv(own)
      /\ lost \in Nat /\ changes \in Nat
  <2>1. request.at = "none"
    BY DEF Send, NoRequest
  <2> QED
    BY <2>1 DEF LateInv, RateInv, Charged
<1>2. PICK k : k = Limited(pool, Remaining(own'))
  OBVIOUS
<1>3. request'.at = "wire" /\ request'.bodies = SubSeq(pool, 1, k)
  BY <1>2 DEF Send
<1>4. /\ LimiterInv(own') /\ own'.max = own.max /\ own'.events = Kept(own.events)
      /\ own'.sum = Total(Costs(Kept(own.events))) /\ Total(Costs(Kept(own.events))) \in Nat
  BY <1>1, ExpiredProperties DEF Send
<1>5. /\ EventsOK(own.events) /\ EventsOK(other.events)
  BY ChargedProperties
<1>6. Kept(own'.events) = own'.events
  BY <1>4, <1>5, KeptProperties, AllKept
<1>7. Covered(other.events, own'.events)
  BY <1>1, <1>4, <1>5, CoveredLateKept
<1>8. Remaining(own') = IF own'.max > own'.sum THEN own'.max - own'.sum ELSE 0
  BY DEF Remaining
<1>9. own'.max \in Nat /\ own'.sum \in Nat /\ Remaining(own') \in Nat
  BY <1>4, <1>8, LimiterType
<1>10. Cost' <= Remaining(own') /\ Cost' \in Nat
  <2>1. k \in 0..Len(pool) /\ Total(SubSeq(pool, 1, k)) <= Remaining(own')
    BY <1>2, <1>9, LimitedProperties DEF RateInv
  <2>2. Total(SubSeq(pool, 1, k)) \in Nat
    BY <2>1, SplitProperties, TotalType DEF RateInv
  <2> QED
    BY <1>3, <2>1, <2>2 DEF Cost
<1>11. Cost' > 0 => Cost' + Total(Costs(Kept(own'.events))) <= own'.max
  BY <1>4, <1>6, <1>8, <1>9, <1>10
<1>12. Charged' = own'.events
  BY <1>3 DEF Charged
<1>13. UNCHANGED <<limit, other, lost, changes>>
  BY DEF Send
<1> QED
  BY <1>1, <1>3, <1>4, <1>7, <1>11, <1>12, <1>13 DEF LateInv

LEMMA ArriveIsCovered ==
    ASSUME RateInv, LateInv, Arrive, lost = 0, changes = 0 PROVE LateInv'
<1> DEFINE l == Updated(other)
<1>1. /\ own.max = limit /\ other.max = limit /\ request.at = "wire"
      /\ Covered(other.events, own.events) /\ LimiterInv(own) /\ LimiterInv(other)
      /\ Cost > 0 => Cost + Total(Costs(Kept(own.events))) <= own.max
      /\ lost \in Nat /\ changes \in Nat
  <2>1. request.at = "wire"
    BY DEF Arrive
  <2> QED
    BY <2>1 DEF LateInv, RateInv, Charged
<1>2. LimiterInv(l) /\ l.max = limit /\ l.events = other.events
  BY UpdatedProperties DEF RateInv
<1>3. Cost \in Nat
  BY CostType
<1>4. EventsOK(own.events) /\ EventsOK(other.events)
  BY ChargedProperties
<1>5. /\ other' = Acquired(l, Cost)
      /\ request' = [request EXCEPT !.at = IF Acquires(l, Cost) THEN "served" ELSE "refused"]
  BY DEF Arrive, Cost
<1> HIDE DEF l
<1>6. Total(Costs(Kept(other.events))) <= Total(Costs(Kept(own.events)))
  BY <1>1, <1>4, CoveredTotal
<1>7. Acquires(l, Cost)
  <2>1. CASE Cost = 0
    BY <1>2, <1>3, <2>1, AcquiredProperties
  <2>2. CASE Cost > 0
    <3>1. /\ Total(Costs(Kept(other.events))) \in Nat
          /\ Total(Costs(Kept(own.events))) \in Nat /\ own.max \in Nat
      BY <1>1, LimiterType
    <3>2. Cost + Total(Costs(Kept(l.events))) <= l.max
      BY <1>1, <1>2, <1>3, <1>6, <2>2, <3>1
    <3> QED
      BY <1>2, <1>3, <3>2, AcquiredProperties
  <2> QED
    BY <1>3, <2>1, <2>2
<1>8. request'.at = "served" /\ request'.bodies = request.bodies /\ Cost' = Cost
  <2>1. request' = [at |-> "served", bodies |-> request.bodies]
    BY <1>5, <1>7 DEF RateInv, RequestInv
  <2> QED
    BY <2>1 DEF Cost
<1>9. UNCHANGED <<limit, own, lost, changes>>
  BY DEF Arrive
<1>10. other'.max = limit
  BY <1>2, <1>3, <1>5, AcquiredProperties
<1>11. Charged' = IF Cost > 0 THEN Append(own.events, Now(Cost)) ELSE own.events
  BY <1>8, <1>9 DEF Charged
<1>12. Covered(other'.events, Charged')
  <2>1. CASE Cost = 0
    <3>1. other'.events = other.events
      BY <1>2, <1>3, <1>5, <2>1, AcquiredProperties
    <3> QED
      BY <1>1, <1>11, <2>1, <3>1
  <2>2. CASE Cost > 0
    <3>1. other'.events = Append(Kept(other.events), Now(Cost))
      BY <1>2, <1>3, <1>5, <1>7, <2>2, AcquiredProperties
    <3>2. Covered(Kept(other.events), own.events) /\ EventsOK(Kept(other.events))
      BY <1>1, <1>4, CoveredEarlyKept, KeptProperties
    <3>3. Cost \in Nat \ {0}
      BY <1>3, <2>2
    <3>4. Covered(Append(Kept(other.events), Now(Cost)), Append(own.events, Now(Cost)))
      BY <1>4, <3>2, <3>3, CoveredAppend
    <3> QED
      BY <1>11, <2>2, <3>1, <3>4
  <2> QED
    BY <1>3, <2>1, <2>2
<1> QED
  BY <1>1, <1>8, <1>9, <1>10, <1>12 DEF LateInv

LEMMA AnswerIsCovered ==
    ASSUME RateInv, LateInv, Answered \/ AnswerFails, lost = 0, changes = 0
    PROVE  LateInv'
<1> DEFINE l == Updated(own)
<1>1. /\ own.max = limit /\ other.max = limit /\ request.at = "served"
      /\ Covered(other.events, Charged) /\ LimiterInv(own)
      /\ Cost > 0 => Cost + Total(Costs(Kept(own.events))) <= own.max
      /\ lost \in Nat /\ changes \in Nat
  <2>1. request.at = "served"
    BY DEF Answered, AnswerFails
  <2> QED
    BY <2>1 DEF LateInv, RateInv
<1>2. LimiterInv(l) /\ l.max = limit /\ l.events = own.events
  BY UpdatedProperties DEF RateInv
<1>3. Cost \in Nat
  BY CostType
<1>4. EventsOK(own.events) /\ EventsOK(other.events) /\ EventsOK(Charged)
  BY ChargedProperties
<1>5. own' = Acquired(l, Cost)
  BY DEF Answered, AnswerFails, Cost
<1>6. request'.at = "none"
  BY DEF Answered, AnswerFails, GiveUp, NoRequest
<1>7. UNCHANGED <<limit, other, lost, changes>>
  BY DEF Answered, AnswerFails
<1> HIDE DEF l
<1>8. own'.max = limit
  BY <1>2, <1>3, <1>5, AcquiredProperties
<1>9. Charged' = own'.events
  BY <1>6 DEF Charged
<1>10. Covered(other.events, own'.events)
  <2>1. CASE Cost = 0
    <3>1. own'.events = own.events
      BY <1>2, <1>3, <1>5, <2>1, AcquiredProperties
    <3> QED
      BY <1>1, <2>1, <3>1 DEF Charged
  <2>2. CASE Cost > 0
    <3>1. Acquires(l, Cost)
      BY <1>1, <1>2, <1>3, <2>2, AcquiredProperties
    <3>2. own'.events = Append(Kept(own.events), Now(Cost))
      BY <1>2, <1>3, <1>5, <2>2, <3>1, AcquiredProperties
    <3>3. Cost \in Nat \ {0}
      BY <1>3, <2>2
    <3>4. Charged = Append(own.events, Now(Cost))
      BY <1>1, <2>2 DEF Charged
    <3>5. own'.events = Kept(Charged)
      BY <1>4, <3>2, <3>3, <3>4, KeptOfAppend
    <3> QED
      BY <1>1, <1>4, <3>5, CoveredLateKept
  <2> QED
    BY <1>3, <2>1, <2>2
<1> QED
  BY <1>1, <1>6, <1>7, <1>8, <1>9, <1>10 DEF LateInv

LEMMA TickIsCovered ==
    ASSUME RateInv, LateInv, Age, lost = 0, changes = 0 PROVE LateInv'
<1>1. /\ own.max = limit /\ other.max = limit /\ request.at # "refused"
      /\ Covered(other.events, Charged) /\ LimiterInv(own) /\ LimiterInv(other)
      /\ request.at \in {"wire", "served"} /\ Cost > 0 =>
           Cost + Total(Costs(Kept(own.events))) <= own.max
      /\ lost \in Nat /\ changes \in Nat
  BY DEF LateInv, RateInv
<1>2. Cost \in Nat
  BY CostType
<1>3. EventsOK(own.events) /\ EventsOK(other.events) /\ EventsOK(Charged)
  BY ChargedProperties
<1>4. LimiterInv(own') /\ own'.max = own.max /\ own'.events = Older(own.events)
  BY <1>1, AgedProperties DEF Age
<1>5. LimiterInv(other') /\ other'.max = other.max /\ other'.events = Older(other.events)
  BY <1>1, AgedProperties DEF Age
<1>6. UNCHANGED <<limit, request, lost, changes>> /\ Cost' = Cost
  BY DEF Age, Cost
<1>7. Covered(Older(other.events), Older(Charged))
  BY <1>1, <1>3, CoveredOlder
<1>8. Covered(Older(other.events), Charged')
  <2>1. CASE ~ (request.at = "served" /\ Cost > 0)
    <3>1. Charged' = Older(own.events) /\ Charged = own.events
      BY <1>4, <1>6, <2>1 DEF Charged
    <3> QED
      BY <1>7, <3>1
  <2>2. CASE request.at = "served" /\ Cost > 0
    <3>1. PICK o, a, now : o = Older(own.events) /\ a = Older(Charged) /\ now = Now(Cost)
      OBVIOUS
    <3>2. Charged' = Append(o, now) /\ Charged = Append(own.events, now)
      BY <1>4, <1>6, <2>2, <3>1 DEF Charged
    <3>3. Cost \in Nat \ {0} /\ now.age = 0
      BY <1>2, <2>2, <3>1 DEF Now
    <3>4. /\ EventsOK(o) /\ Len(o) = Len(own.events) /\ Len(own.events) \in Nat
          /\ \A i \in 1..Len(own.events) :
               /\ o[i].cost = own.events[i].cost
               /\ o[i].age = IF own.events[i].age > Window THEN own.events[i].age
                             ELSE own.events[i].age + 1
      BY <1>3, <3>1, OlderProperties, CoveredTyped
    <3>5. PICK c : c = Charged
      OBVIOUS
    <3>6. /\ EventsOK(c) /\ Len(c) = Len(own.events) + 1 /\ c[Len(own.events) + 1] = now
          /\ \A i \in 1..Len(own.events) : c[i] = own.events[i]
      BY <1>3, <3>1, <3>2, <3>3, <3>5, AppendedOK DEF Now
    <3>7. /\ EventsOK(a) /\ Len(a) = Len(own.events) + 1
          /\ \A i \in 1..Len(a) :
               /\ a[i].cost = c[i].cost
               /\ a[i].age = IF c[i].age > Window THEN c[i].age ELSE c[i].age + 1
      BY <3>1, <3>5, <3>6, OlderProperties
    <3>8. PICK y : y = Append(o, now)
      OBVIOUS
    <3>9. /\ EventsOK(y) /\ Len(y) = Len(own.events) + 1 /\ y[Len(own.events) + 1] = now
          /\ \A i \in 1..Len(own.events) : y[i] = o[i]
      BY <3>1, <3>3, <3>4, <3>8, AppendedOK DEF Now
    <3>10. ASSUME NEW i \in 1..Len(a) PROVE y[i].cost = a[i].cost /\ y[i].age <= a[i].age
      <4>1. a[i].age \in Nat
        BY <3>7, CoveredTyped
      <4>2. CASE i = Len(own.events) + 1
        BY <3>3, <3>6, <3>7, <3>9, <4>1, <4>2
      <4>3. CASE i \in 1..Len(own.events)
        <5>1. y[i] = o[i] /\ c[i] = own.events[i]
          BY <3>6, <3>9, <4>3
        <5>2. o[i].cost = a[i].cost /\ o[i].age = a[i].age
          BY <3>4, <3>7, <4>3, <5>1
        <5> QED
          BY <4>1, <5>1, <5>2
      <4> QED
        BY <3>4, <3>7, <4>2, <4>3
    <3>11. EventsOK(Older(other.events)) /\ Len(y) = Len(a)
      BY <1>3, <3>7, <3>9, OlderProperties
    <3>12. Covered(Older(other.events), y)
      BY <1>7, <3>1, <3>7, <3>9, <3>10, <3>11, CoveredYounger
    <3> QED
      BY <3>2, <3>8, <3>12
  <2> QED
    BY <2>1, <2>2
<1>9. request.at \in {"wire", "served"} /\ Cost > 0 =>
        Cost + Total(Costs(Kept(own'.events))) <= own'.max
  <2>1. Total(Costs(Kept(Older(own.events)))) <= Total(Costs(Kept(own.events)))
    BY <1>3, OlderKept
  <2>2. /\ Total(Costs(Kept(Older(own.events)))) \in Nat /\ Total(Costs(Kept(own.events))) \in Nat
        /\ own.max \in Nat
    BY <1>1, <1>4, LimiterType
  <2> QED
    BY <1>1, <1>2, <1>4, <2>1, <2>2
<1> QED
  BY <1>1, <1>4, <1>5, <1>6, <1>8, <1>9 DEF LateInv

LEMMA LateInvStep == RateInv /\ LateInv /\ [RateNext]_rateVars => LateInv'
<1> SUFFICES ASSUME RateInv, LateInv, [RateNext]_rateVars PROVE LateInv'
  OBVIOUS
<1>1. lost \in Nat /\ changes \in Nat
  BY DEF LateInv
<1>2. CASE UNCHANGED <<limit, own, other, request, lost, changes>>
  BY <1>2 DEF LateInv, Charged, Cost
<1>3. CASE lost' = lost + 1 /\ changes' = changes
  BY <1>1, <1>3 DEF LateInv
<1>4. CASE changes' = changes + 1 /\ lost' = lost
  BY <1>1, <1>4 DEF LateInv
<1>5. CASE ~ (lost = 0 /\ changes = 0) /\ UNCHANGED <<lost, changes>>
  BY <1>1, <1>5 DEF LateInv
<1>6. CASE lost = 0 /\ changes = 0 /\ (Send \/ Arrive \/ Answered \/ AnswerFails \/ Age)
  BY <1>6, SendIsCovered, ArriveIsCovered, AnswerIsCovered, TickIsCovered
<1>7. CASE Refused
  <2>1. request.at = "refused" /\ UNCHANGED <<lost, changes>>
    BY <1>7 DEF Refused
  <2> QED
    BY <1>5, <2>1 DEF LateInv
<1>8. \/ UNCHANGED <<limit, own, other, request, lost, changes>>
      \/ lost' = lost + 1 /\ changes' = changes
      \/ changes' = changes + 1 /\ lost' = lost
      \/ (Send \/ Arrive \/ Answered \/ AnswerFails \/ Age) /\ UNCHANGED <<lost, changes>>
      \/ Refused
  BY DEF RateNext, Post, Send, Arrive, Answered, AnswerFails, Age, Lose, Refresh, rateVars
<1> QED
  BY <1>2, <1>3, <1>4, <1>5, <1>6, <1>7, <1>8

(* The follower charges itself when the answer is in and the sequencer     *)
(* when the request arrives, so that what the sequencer still counts is    *)
(* counted by the follower, too: a follower that has lost no request and   *)
(* knows the limit sends nothing that is refused (send_app_batches of      *)
(* node/tasks.py and put_batches of sequencer/routers.py).                 *)
THEOREM NothingIsRefused == RateSpec => []NoneRefused
<1>1. LateInv => NoneRefused
  BY DEF LateInv, NoneRefused
<1>2. RateSpec => []LateInv
  BY RateInvInit, RateInvStep, LateInvInit, LateInvStep, PTL DEF RateSpec
<1> QED
  BY <1>1, <1>2, PTL

=============================================================================
