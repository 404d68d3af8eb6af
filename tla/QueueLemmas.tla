---------------------------- MODULE QueueLemmas ----------------------------
(* What the queue operations of the semaphores do to the elements of a     *)
(* queue without repetitions: insque() at the tail, the removal of the     *)
(* head by a V, and remque() from the middle by force_v_sema(); and lemmas *)
(* about sequences and least numbers the other proofs need.                *)
EXTENDS Integers, SequencesExt, SequenceTheorems, WellFoundedInduction, TLAPS

(* A queue of distinct elements of S. *)
IsQueue(q, S) == q \in Seq(S) /\ IsInjective(q)

(* Insertion of a new element at the tail. *)
LEMMA QueueAppend ==
  ASSUME NEW S, NEW q, IsQueue(q, S), NEW e \in S, e \notin ToSet(q)
  PROVE  /\ IsQueue(Append(q, e), S)
         /\ Len(Append(q, e)) = Len(q) + 1
         /\ ToSet(Append(q, e)) = ToSet(q) \cup {e}
<1>0. q \in Seq(S)
  BY DEF IsQueue
<1> DEFINE r == Append(q, e)
<1>1. /\ r \in Seq(S) /\ Len(r) = Len(q) + 1
      /\ \A i \in 1 .. Len(q) : r[i] = q[i]
      /\ r[Len(q) + 1] = e
  BY <1>0, AppendProperties
<1>2. /\ Len(q) \in Nat
      /\ DOMAIN q = 1 .. Len(q)
      /\ DOMAIN r = 1 .. (Len(q) + 1)
  BY <1>0, <1>1, LenProperties
<1> HIDE DEF r
<1>3. IsInjective(r)
  BY <1>1, <1>2 DEF IsInjective, IsQueue, ToSet
<1>4. ToSet(r) = ToSet(q) \cup {e}
  BY <1>1, <1>2 DEF ToSet
<1> QED
  BY <1>1, <1>3, <1>4 DEF IsQueue, r

(* Removal of the head of a queue that is not empty. *)
LEMMA QueueTail ==
  ASSUME NEW S, NEW q, IsQueue(q, S), Len(q) > 0
  PROVE  /\ IsQueue(Tail(q), S)
         /\ Len(Tail(q)) = Len(q) - 1
         /\ Head(q) \in ToSet(q)
         /\ Head(q) \in S
         /\ ToSet(Tail(q)) = ToSet(q) \ {Head(q)}
<1>0. q \in Seq(S) /\ q # << >> /\ Head(q) = q[1]
  BY EmptySeq DEF IsQueue
<1> DEFINE r == Tail(q)
<1>1. /\ r \in Seq(S) /\ Len(r) = Len(q) - 1 /\ Head(q) \in S
      /\ \A i \in 1 .. Len(r) : r[i] = q[i + 1]
  BY <1>0, HeadTailProperties
<1>2. /\ Len(q) \in Nat
      /\ DOMAIN q = 1 .. Len(q)
      /\ DOMAIN r = 1 .. (Len(q) - 1)
  BY <1>0, <1>1, LenProperties
<1> HIDE DEF r
<1>3. IsInjective(r)
  BY <1>1, <1>2 DEF IsInjective, IsQueue
<1>4. Head(q) \in ToSet(q)
  BY <1>0, <1>2 DEF ToSet
<1>5. ToSet(r) = ToSet(q) \ {Head(q)}
  <2>1. ASSUME NEW x \in ToSet(r) PROVE x \in ToSet(q) \ {Head(q)}
    BY <1>0, <1>1, <1>2 DEF ToSet, IsInjective, IsQueue
  <2>2. ASSUME NEW x \in ToSet(q) \ {Head(q)} PROVE x \in ToSet(r)
    <3>1. PICK i \in 1 .. Len(q) : x = q[i]
      BY <1>2 DEF ToSet
    <3>2. i - 1 \in 1 .. Len(r) /\ r[i - 1] = q[i]
      BY <3>1, <1>0, <1>1, <1>2
    <3> QED
      BY <3>1, <3>2, <1>1, <1>2 DEF ToSet
  <2> QED
    BY <2>1, <2>2
<1> QED
  BY <1>1, <1>3, <1>4, <1>5 DEF IsQueue, r

(* Removal of the element at position k. *)
LEMMA QueueRemoveAt ==
  ASSUME NEW S, NEW q, IsQueue(q, S), NEW k \in DOMAIN q
  PROVE  /\ IsQueue(RemoveAt(q, k), S)
         /\ Len(RemoveAt(q, k)) = Len(q) - 1
         /\ ToSet(RemoveAt(q, k)) = ToSet(q) \ {q[k]}
<1>0. /\ q \in Seq(S) /\ Len(q) \in Nat /\ DOMAIN q = 1 .. Len(q)
      /\ k \in 1 .. Len(q)
  BY LenProperties DEF IsQueue
<1>1. \A i \in 1 .. Len(q) : q[i] \in S
  BY <1>0, ElementOfSeq
<1> DEFINE a == SubSeq(q, 1, k - 1)
           b == SubSeq(q, k + 1, Len(q))
           r == RemoveAt(q, k)
<1>2. /\ a \in Seq(S) /\ Len(a) = k - 1
      /\ \A i \in 1 .. (k - 1) : a[i] = q[i]
  <2>1. \A i \in 1 .. (k - 1) : q[i] \in S
    BY <1>0, <1>1
  <2> HIDE DEF a
  <2>2. 1 \in Int /\ k - 1 \in Int
    BY <1>0
  <2>3. /\ a \in Seq(S)
        /\ Len(a) = IF 1 <= k - 1 THEN k - 1 - 1 + 1 ELSE 0
        /\ \A i \in 1 .. (k - 1) - 1 + 1 : a[i] = q[1 + i - 1]
    BY <2>1, <2>2, SubSeqProperties DEF a
  <2> QED
    BY <2>3, <1>0
<1>3. /\ b \in Seq(S) /\ Len(b) = Len(q) - k
      /\ \A i \in 1 .. (Len(q) - k) : b[i] = q[k + i]
  <2>1. \A i \in (k + 1) .. Len(q) : q[i] \in S
    BY <1>0, <1>1
  <2> HIDE DEF b
  <2>2. k + 1 \in Int /\ Len(q) \in Int
    BY <1>0
  <2>3. /\ b \in Seq(S)
        /\ Len(b) = IF k + 1 <= Len(q) THEN Len(q) - (k + 1) + 1 ELSE 0
        /\ \A i \in 1 .. Len(q) - (k + 1) + 1 : b[i] = q[k + 1 + i - 1]
    BY <2>1, <2>2, SubSeqProperties DEF b
  <2>4. Len(q) - (k + 1) + 1 = Len(q) - k /\ (k + 1 <= Len(q) <=> k < Len(q))
    BY <1>0
  <2>5. Len(b) = Len(q) - k
    BY <2>3, <2>4, <1>0
  <2>6. ASSUME NEW i \in 1 .. (Len(q) - k) PROVE b[i] = q[k + i]
    <3>1. k + 1 + i - 1 = k + i
      BY <1>0
    <3> QED
      BY <3>1, <2>3, <2>4
  <2> QED
    BY <2>3, <2>5, <2>6
<1>4. r = a \o b
  BY DEF RemoveAt
<1> HIDE DEF a, b, r
<1>5. /\ r \in Seq(S) /\ Len(r) = Len(q) - 1 /\ DOMAIN r = 1 .. (Len(q) - 1)
      /\ \A i \in 1 .. (Len(q) - 1) : r[i] = IF i < k THEN q[i] ELSE q[i + 1]
  <2>1. /\ r \in Seq(S) /\ Len(r) = Len(a) + Len(b)
        /\ \A i \in 1 .. (Len(a) + Len(b)) :
             r[i] = IF i <= Len(a) THEN a[i] ELSE b[i - Len(a)]
    BY <1>2, <1>3, <1>4, ConcatProperties
  <2>2. Len(r) = Len(q) - 1 /\ DOMAIN r = 1 .. (Len(q) - 1)
    BY <2>1, <1>0, <1>2, <1>3, LenProperties
  <2>3. ASSUME NEW i \in 1 .. (Len(q) - 1)
        PROVE  r[i] = IF i < k THEN q[i] ELSE q[i + 1]
    <3>1. CASE i < k
      BY <3>1, <2>1, <1>0, <1>2, <1>3
    <3>2. CASE i >= k
      <4>1. r[i] = b[i - (k - 1)] /\ i - (k - 1) \in 1 .. (Len(q) - k)
        BY <3>2, <2>1, <1>0, <1>2, <1>3
      <4>2. b[i - (k - 1)] = q[k + (i - (k - 1))] /\ k + (i - (k - 1)) = i + 1
        BY <4>1, <1>0, <1>3
      <4> QED
        BY <3>2, <4>1, <4>2, <1>0
    <3> QED
      BY <3>1, <3>2, <1>0
  <2> QED
    BY <2>1, <2>2, <2>3
<1>6. IsInjective(r)
  <2>1. SUFFICES ASSUME NEW i \in 1 .. (Len(q) - 1), NEW j \in 1 .. (Len(q) - 1),
                        r[i] = r[j]
                 PROVE  i = j
    BY <1>5 DEF IsInjective
  <2> DEFINE at(n) == IF n < k THEN n ELSE n + 1
  <2>2. /\ at(i) \in DOMAIN q /\ at(j) \in DOMAIN q
        /\ r[i] = q[at(i)] /\ r[j] = q[at(j)]
    BY <1>0, <1>5
  <2>3. at(i) = at(j)
    BY <2>1, <2>2 DEF IsInjective, IsQueue
  <2> QED
    BY <2>3, <1>0
<1>7. ToSet(r) = ToSet(q) \ {q[k]}
  <2>1. ASSUME NEW x \in ToSet(r) PROVE x \in ToSet(q) \ {q[k]}
    BY <1>0, <1>5 DEF ToSet, IsInjective, IsQueue
  <2>2. ASSUME NEW x \in ToSet(q) \ {q[k]} PROVE x \in ToSet(r)
    <3>1. PICK i \in 1 .. Len(q) : x = q[i] /\ i # k
      BY <1>0 DEF ToSet
    <3>2. CASE i < k
      BY <3>1, <3>2, <1>0, <1>5 DEF ToSet
    <3>3. CASE i > k
      <4>1. i - 1 \in 1 .. (Len(q) - 1) /\ r[i - 1] = q[i]
        BY <3>1, <3>3, <1>0, <1>5
      <4> QED
        BY <3>1, <4>1, <1>5 DEF ToSet
    <3> QED
      BY <3>1, <3>2, <3>3, <1>0
  <2> QED
    BY <2>1, <2>2
<1> QED
  BY <1>5, <1>6, <1>7 DEF IsQueue, r
-----------------------------------------------------------------------------
(* A set of numbers that is not empty has a least one: what an induction on *)
(* the length of a sequence comes down to. *)
LEMMA LeastNat ==
  ASSUME NEW T \in SUBSET Nat, T # {}
  PROVE  \E n \in T : \A m \in T : n <= m
<1> DEFINE R == {ss \in Nat \X Nat : ss[1] < ss[2]}
<1>1. IsWellFoundedOn(OpToRel(<, Nat), Nat)
  BY NatLessThanWellFounded, Zenon
<1>2. R = OpToRel(<, Nat)
  BY Zenon DEF OpToRel
<1>3. IsWellFoundedOn(R, Nat)
  BY <1>1, <1>2, Zenon
<1>4. PICK n \in T : \A m \in T : <<m, n>> \notin R
  <2> HIDE DEF R
  <2> QED
    BY <1>3, WFMin, Zenon
<1>5. ASSUME NEW m \in T PROVE n <= m
  <2>1. m \in Nat /\ n \in Nat /\ <<m, n>> \notin R
    BY <1>4
  <2>2. <<m, n>> \in Nat \X Nat /\ <<m, n>>[1] = m /\ <<m, n>>[2] = n
    BY <2>1
  <2>3. ~(m < n)
    BY <2>1, <2>2
  <2> QED
    BY <2>1, <2>3
<1> QED
  BY <1>5

(* What starts in S[0], and goes from S[k - 1] to S[k], ends in S[N]. *)
LEMMA StaysIn ==
  ASSUME NEW S, NEW N \in Nat, NEW f, f[0] \in S[0],
         \A k \in 1 .. N : f[k - 1] \in S[k - 1] => f[k] \in S[k]
  PROVE  \A k \in 0 .. N : f[k] \in S[k]
<1> DEFINE T == {k \in 0 .. N : f[k] \notin S[k]}
<1>1. SUFFICES ASSUME T # {} PROVE FALSE
  OBVIOUS
<1>2. PICK k \in T : \A j \in T : k <= j
  <2>1. T \in SUBSET Nat
    OBVIOUS
  <2> HIDE DEF T
  <2> QED
    BY <1>1, <2>1, LeastNat
<1>3. k \in 1 .. N /\ k - 1 \notin T /\ k - 1 \in 0 .. N
  BY <1>2
<1> QED
  BY <1>2, <1>3

(* A function that computes each value from the one before and keeps the   *)
(* k-th in S[k]: there is one. *)
Computes(g, S, N, a, F) ==
  /\ g = [k \in 0 .. N |-> g[k]] /\ g[0] = a
  /\ \A k \in 0 .. N : g[k] \in S[k]
  /\ \A k \in 1 .. N : g[k] = F[<<g[k - 1], k>>]
LEMMA Recursion ==
  ASSUME NEW S, NEW N \in Nat, NEW a \in S[0], NEW F,
         \A k \in 1 .. N : \A x \in S[k - 1] : F[<<x, k>>] \in S[k]
  PROVE  \E g : Computes(g, S, N, a, F)
<1> DEFINE T == {n \in 0 .. N : ~ \E g : Computes(g, S, n, a, F)}
<1>1. SUFFICES T = {}
  <2>1. N \in 0 .. N
    OBVIOUS
  <2> QED
    BY <1>1, <2>1
<1>2. SUFFICES ASSUME T # {} PROVE FALSE
  OBVIOUS
<1>3. PICK n \in T : \A m \in T : n <= m
  <2>1. T \in SUBSET Nat
    OBVIOUS
  <2> HIDE DEF T
  <2> QED
    BY <1>2, <2>1, LeastNat
<1>4. n \in 1 .. N
  <2>1. Computes([k \in 0 .. 0 |-> a], S, 0, a, F)
    BY DEF Computes
  <2>2. n \in 0 .. N /\ ~ \E g : Computes(g, S, n, a, F)
    BY <1>3
  <2>3. n # 0
    BY <2>1, <2>2, Zenon
  <2> QED
    BY <2>2, <2>3
<1>5. PICK g : Computes(g, S, n - 1, a, F)
  <2>1. n - 1 \in 0 .. N /\ ~(n <= n - 1)
    BY <1>4
  <2>2. n - 1 \notin T
    <3> HIDE DEF T
    <3> QED
      BY <1>3, <2>1
  <2> QED
    BY <2>1, <2>2
<1> DEFINE h == [k \in 0 .. n |-> IF k = n THEN F[<<g[n - 1], n>>] ELSE g[k]]
<1>6. Computes(h, S, n, a, F)
  <2>1. g[n - 1] \in S[n - 1] /\ F[<<g[n - 1], n>>] \in S[n]
    BY <1>4, <1>5 DEF Computes
  <2>2. ASSUME NEW k \in 0 .. n PROVE h[k] \in S[k]
    <3>1. CASE k = n
      BY <3>1, <2>1
    <3>2. CASE k # n
      <4>1. k \in 0 .. n - 1 /\ h[k] = g[k]
        BY <3>2, <1>4
      <4> QED
        BY <4>1, <1>5 DEF Computes
    <3> QED
      BY <3>1, <3>2
  <2>3. h[0] = a /\ h = [k \in 0 .. n |-> h[k]]
    BY <1>4, <1>5 DEF Computes
  <2>4. ASSUME NEW k \in 1 .. n PROVE h[k] = F[<<h[k - 1], k>>]
    <3>1. k - 1 \in 0 .. n /\ k - 1 # n /\ k \in 0 .. n /\ h[k - 1] = g[k - 1]
      BY <1>4
    <3>2. CASE k = n
      BY <3>1, <3>2
    <3>3. CASE k # n
      <4>1. k \in 1 .. n - 1 /\ h[k] = g[k]
        BY <3>1, <3>3, <1>4
      <4>2. g[k] = F[<<g[k - 1], k>>]
        BY <4>1, <1>5 DEF Computes
      <4> QED
        BY <3>1, <4>1, <4>2
    <3> QED
      BY <3>2, <3>3
  <2> HIDE DEF h
  <2> QED
    BY <2>2, <2>3, <2>4 DEF Computes
<1> QED
  <2>1. n \in T
    BY <1>3
  <2> QED
    BY <2>1, <1>6, Zenon

(* What Min chooses. *)
LEMMA MinNat ==
  ASSUME NEW I \in SUBSET Nat, I # {}
  PROVE  Min(I) \in I /\ \A k \in I : Min(I) <= k
BY LeastNat DEF Min

(* What InsertAt makes of a sequence. *)
LEMMA InsertAtProperties ==
  ASSUME NEW S, NEW q \in Seq(S), NEW k \in 1 .. Len(q) + 1, NEW e \in S
  PROVE  /\ InsertAt(q, k, e) \in Seq(S)
         /\ Len(InsertAt(q, k, e)) = Len(q) + 1
         /\ InsertAt(q, k, e)[k] = e
         /\ \A j \in 1 .. Len(q) + 1 : j < k => InsertAt(q, k, e)[j] = q[j]
         /\ \A j \in 1 .. Len(q) + 1 : j > k => InsertAt(q, k, e)[j] = q[j - 1]
<1>1. /\ Len(q) \in Nat /\ k \in Int /\ 1 \in Int
      /\ \A j \in 1 .. Len(q) : q[j] \in S
  BY LenProperties, ElementOfSeq
<1> DEFINE a == SubSeq(q, 1, k - 1)
           b == SubSeq(q, k, Len(q))
           c == a \o <<e>>
<1>2. /\ a \in Seq(S) /\ Len(a) = k - 1
      /\ \A j \in 1 .. k - 1 : a[j] = q[j]
  <2>1. \A j \in 1 .. (k - 1) : q[j] \in S
    BY <1>1
  <2>2. k - 1 \in Int
    BY <1>1
  <2>3. /\ a \in Seq(S)
        /\ Len(a) = IF 1 <= k - 1 THEN k - 1 - 1 + 1 ELSE 0
        /\ \A j \in 1 .. (k - 1) - 1 + 1 : a[j] = q[1 + j - 1]
    BY <1>1, <2>1, <2>2, SubSeqProperties
  <2> HIDE DEF a
  <2> QED
    BY <2>3, <1>1
<1>3. /\ b \in Seq(S) /\ Len(b) = Len(q) - k + 1
      /\ \A j \in 1 .. Len(q) - k + 1 : b[j] = q[k + j - 1]
  <2>1. \A j \in k .. Len(q) : q[j] \in S
    BY <1>1
  <2>2. Len(q) \in Int
    BY <1>1
  <2>3. /\ b \in Seq(S)
        /\ Len(b) = IF k <= Len(q) THEN Len(q) - k + 1 ELSE 0
        /\ \A j \in 1 .. Len(q) - k + 1 : b[j] = q[k + j - 1]
    BY <1>1, <2>1, <2>2, SubSeqProperties
  <2> HIDE DEF b
  <2> QED
    BY <2>3, <1>1
<1>4. InsertAt(q, k, e) = c \o b
  BY DEF InsertAt
<1> HIDE DEF a, b
<1>5. /\ c \in Seq(S) /\ Len(c) = k
      /\ \A j \in 1 .. k : c[j] = IF j < k THEN q[j] ELSE e
  <2>1. /\ <<e>> \in Seq(S) /\ Len(<<e>>) = 1 /\ <<e>>[1] = e
    OBVIOUS
  <2>2. /\ c \in Seq(S) /\ Len(c) = Len(a) + Len(<<e>>)
        /\ \A j \in 1 .. (Len(a) + Len(<<e>>)) :
             c[j] = IF j <= Len(a) THEN a[j] ELSE <<e>>[j - Len(a)]
    BY <1>2, <2>1, ConcatProperties
  <2>3. Len(c) = k
    BY <2>1, <2>2, <1>2
  <2>4. ASSUME NEW j \in 1 .. k PROVE c[j] = IF j < k THEN q[j] ELSE e
    <3>1. CASE j < k
      <4>1. j <= Len(a) /\ j \in 1 .. k - 1 /\ j \in 1 .. (Len(a) + Len(<<e>>))
        BY <3>1, <1>1, <1>2, <2>1
      <4> QED
        BY <3>1, <4>1, <2>2, <1>2
    <3>2. CASE j = k
      <4>1. ~(j <= Len(a)) /\ j - Len(a) = 1 /\ j \in 1 .. (Len(a) + Len(<<e>>))
        BY <3>2, <1>2, <2>1
      <4> QED
        BY <4>1, <3>2, <2>1, <2>2
    <3>3. j < k \/ j = k
      BY <1>1
    <3> QED
      BY <3>1, <3>2, <3>3
  <2> QED
    BY <2>2, <2>3, <2>4
<1> HIDE DEF c
<1>6. /\ c \o b \in Seq(S) /\ Len(c \o b) = Len(c) + Len(b)
      /\ \A j \in 1 .. (Len(c) + Len(b)) :
           (c \o b)[j] = IF j <= Len(c) THEN c[j] ELSE b[j - Len(c)]
  BY <1>3, <1>5, ConcatProperties
<1>7. Len(c) + Len(b) = Len(q) + 1
  BY <1>1, <1>3, <1>5
<1>8. ASSUME NEW j \in 1 .. Len(q) + 1
      PROVE  /\ j < k => (c \o b)[j] = q[j]
             /\ j = k => (c \o b)[j] = e
             /\ j > k => (c \o b)[j] = q[j - 1]
  <2>1. (c \o b)[j] = IF j <= k THEN c[j] ELSE b[j - k]
    BY <1>5, <1>6, <1>7
  <2>2. CASE j <= k
    BY <2>1, <2>2, <1>5
  <2>3. CASE j > k
    <3>1. j - k \in 1 .. Len(q) - k + 1 /\ k + (j - k) - 1 = j - 1
      BY <2>3, <1>1
    <3> QED
      BY <2>1, <2>3, <3>1, <1>3
  <2>4. j <= k \/ j > k
    BY <1>1
  <2> QED
    BY <2>2, <2>3, <2>4
<1> QED
  BY <1>4, <1>6, <1>7, <1>8

(* What RemoveAt makes of a sequence. *)
LEMMA RemoveAtProperties ==
  ASSUME NEW S, NEW q \in Seq(S), NEW k \in 1 .. Len(q)
  PROVE  /\ RemoveAt(q, k) \in Seq(S)
         /\ Len(RemoveAt(q, k)) = Len(q) - 1
         /\ \A j \in 1 .. Len(q) - 1 : j < k => RemoveAt(q, k)[j] = q[j]
         /\ \A j \in 1 .. Len(q) - 1 : j >= k => RemoveAt(q, k)[j] = q[j + 1]
<1>1. /\ Len(q) \in Nat /\ k \in Int /\ 1 \in Int
      /\ \A j \in 1 .. Len(q) : q[j] \in S
  BY LenProperties, ElementOfSeq
<1> DEFINE a == SubSeq(q, 1, k - 1)
           b == SubSeq(q, k + 1, Len(q))
<1>2. /\ a \in Seq(S) /\ Len(a) = k - 1
      /\ \A j \in 1 .. k - 1 : a[j] = q[j]
  <2>1. \A j \in 1 .. (k - 1) : q[j] \in S
    BY <1>1
  <2>2. k - 1 \in Int
    BY <1>1
  <2>3. /\ a \in Seq(S)
        /\ Len(a) = IF 1 <= k - 1 THEN k - 1 - 1 + 1 ELSE 0
        /\ \A j \in 1 .. (k - 1) - 1 + 1 : a[j] = q[1 + j - 1]
    BY <1>1, <2>1, <2>2, SubSeqProperties
  <2> HIDE DEF a
  <2> QED
    BY <2>3, <1>1
<1>3. /\ b \in Seq(S) /\ Len(b) = Len(q) - k
      /\ \A j \in 1 .. Len(q) - k : b[j] = q[k + j]
  <2>1. \A j \in k + 1 .. Len(q) : q[j] \in S
    BY <1>1
  <2>2. Len(q) \in Int /\ k + 1 \in Int
    BY <1>1
  <2>3. /\ b \in Seq(S)
        /\ Len(b) = IF k + 1 <= Len(q) THEN Len(q) - (k + 1) + 1 ELSE 0
        /\ \A j \in 1 .. Len(q) - (k + 1) + 1 : b[j] = q[k + 1 + j - 1]
    BY <1>1, <2>1, <2>2, SubSeqProperties
  <2> HIDE DEF b
  <2>4. Len(q) - (k + 1) + 1 = Len(q) - k /\ (k + 1 <= Len(q) <=> k < Len(q))
    BY <1>1
  <2>5. Len(b) = Len(q) - k
    <3>1. CASE k < Len(q)
      BY <3>1, <2>3, <2>4
    <3>2. CASE k = Len(q)
      BY <3>2, <2>3, <2>4, <1>1
    <3> QED
      BY <3>1, <3>2, <1>1
  <2>6. ASSUME NEW j \in 1 .. Len(q) - k PROVE b[j] = q[k + j]
    <3>1. k + 1 + j - 1 = k + j
      BY <1>1
    <3> QED
      BY <3>1, <2>3, <2>4
  <2> QED
    BY <2>3, <2>5, <2>6
<1>4. RemoveAt(q, k) = a \o b
  BY DEF RemoveAt
<1> HIDE DEF a, b
<1>5. /\ a \o b \in Seq(S) /\ Len(a \o b) = Len(a) + Len(b)
      /\ \A j \in 1 .. (Len(a) + Len(b)) :
           (a \o b)[j] = IF j <= Len(a) THEN a[j] ELSE b[j - Len(a)]
  BY <1>2, <1>3, ConcatProperties
<1>6. Len(a) + Len(b) = Len(q) - 1
  BY <1>1, <1>2, <1>3
<1>7. ASSUME NEW j \in 1 .. Len(q) - 1
      PROVE  /\ j < k => (a \o b)[j] = q[j]
             /\ j >= k => (a \o b)[j] = q[j + 1]
  <2>1. (a \o b)[j] = IF j <= k - 1 THEN a[j] ELSE b[j - (k - 1)]
    BY <1>2, <1>5, <1>6
  <2>2. CASE j < k
    BY <2>1, <2>2, <1>1, <1>2
  <2>3. CASE j >= k
    <3>1. j - (k - 1) \in 1 .. Len(q) - k /\ k + (j - (k - 1)) = j + 1
      BY <2>3, <1>1
    <3> QED
      BY <2>1, <2>3, <3>1, <1>1, <1>3
  <2>4. j < k \/ j >= k
    BY <1>1
  <2> QED
    BY <2>2, <2>3, <2>4
<1> QED
  BY <1>4, <1>5, <1>6, <1>7
=============================================================================
