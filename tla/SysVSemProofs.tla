--------------------------- MODULE SysVSemProofs ---------------------------
(***************************************************************************)
(* System V semaphores.  Every semaphore is in one place: in a set, in one *)
(* that is being removed, in the resource map, or dropped by the map.  And *)
(* the calls keep their word: semop() does all or nothing, the adjustments *)
(* balance the values, nobody sleeps without a reason.                     *)
(*                                                                         *)
(* First what rmalloc() and rmfree() do to a map.  Then the invariant      *)
(* IInv: who works on a set, sleeps on it or removes it, and where its     *)
(* semaphores are.  The steps in which no set is made, removed or freed    *)
(* are Quiet for everybody but the process that makes them; the other      *)
(* three follow.                                                           *)
(*                                                                         *)
(* Then the invariant CallInv, on top of it: how far each call of semop()  *)
(* has come from the state it found (BoundInv), what a semaphore and its   *)
(* adjustments come to (BalanceInv), and why a sleeper sleeps (WakeInv).   *)
(* It rests on what sums of effects and of adjustments come to, and on a   *)
(* frame: a step of q changes one set, and is Apart from the others.       *)
(***************************************************************************)
EXTENDS SysVSem, QueueLemmas, FiniteSetTheorems

(* The segments of a resource map. *)
Segment == [addr : Nat \ {0}, size : Nat \ {0}]

(* Segments that are not empty, sorted and apart. *)
IsMap(map) ==
  /\ map \in Seq(Segment)
  /\ \A j, k \in 1 .. Len(map) : j < k => map[j].addr + map[j].size <= map[k].addr

(* Unit n is in a segment. *)
In(n, seg) == seg.addr <= n /\ n < seg.addr + seg.size

LEMMA UnitsOfMap ==
  ASSUME NEW map, IsMap(map)
  PROVE  /\ Len(map) \in Nat /\ DOMAIN map = 1 .. Len(map)
         /\ \A k \in 1 .. Len(map) : map[k] \in Segment
         /\ \A k \in 1 .. Len(map) : map[k].addr \in Nat \ {0} /\ map[k].size \in Nat \ {0}
         /\ \A n \in Int : n \in Units(map) <=> \E k \in 1 .. Len(map) : In(n, map[k])
         /\ Units(map) \subseteq Int
<1>1. /\ Len(map) \in Nat /\ DOMAIN map = 1 .. Len(map)
      /\ \A k \in 1 .. Len(map) : map[k] \in Segment
  BY LenProperties, ElementOfSeq DEF IsMap
<1>2. \A k \in 1 .. Len(map) : map[k].addr \in Nat \ {0} /\ map[k].size \in Nat \ {0}
  BY <1>1 DEF Segment
<1>3. ASSUME NEW n \in Int
      PROVE  n \in Units(map) <=> \E k \in 1 .. Len(map) : In(n, map[k])
  <2>1. \A k \in 1 .. Len(map) : n \in Unit(map[k]) <=> In(n, map[k])
    BY <1>2 DEF Unit, In
  <2> QED
    BY <2>1, <1>1 DEF Units
<1>4. Units(map) \subseteq Int
  BY <1>1, <1>2 DEF Units, Unit
<1> QED
  BY <1>1, <1>2, <1>3, <1>4

(* A unit is in one segment of a map. *)
LEMMA SegmentsApart ==
  ASSUME NEW map, IsMap(map), NEW n \in Int,
         NEW j \in 1 .. Len(map), NEW k \in 1 .. Len(map), In(n, map[j]), In(n, map[k])
  PROVE  j = k
<1>1. /\ j \in Int /\ k \in Int
      /\ map[j].addr \in Nat /\ map[j].size \in Nat /\ map[k].addr \in Nat /\ map[k].size \in Nat
  BY UnitsOfMap
<1>2. ASSUME j < k PROVE FALSE
  <2>1. map[j].addr + map[j].size <= map[k].addr
    BY <1>2 DEF IsMap
  <2> QED
    BY <2>1, <1>1 DEF In
<1>3. ASSUME k < j PROVE FALSE
  <2>1. map[k].addr + map[k].size <= map[j].addr
    BY <1>3 DEF IsMap
  <2> QED
    BY <2>1, <1>1 DEF In
<1> QED
  BY <1>1, <1>2, <1>3

(* A segment leaves the map. *)
LEMMA DropSegment ==
  ASSUME NEW map, IsMap(map), NEW at \in 1 .. Len(map)
  PROVE  /\ IsMap(RemoveAt(map, at))
         /\ Len(RemoveAt(map, at)) = Len(map) - 1
         /\ \A n \in Int : n \in Units(RemoveAt(map, at)) <=> n \in Units(map) /\ ~In(n, map[at])
<1> DEFINE m == RemoveAt(map, at)
<1>1. /\ m \in Seq(Segment) /\ Len(m) = Len(map) - 1
      /\ \A j \in 1 .. Len(map) - 1 : j < at => m[j] = map[j]
      /\ \A j \in 1 .. Len(map) - 1 : j >= at => m[j] = map[j + 1]
  BY RemoveAtProperties DEF IsMap
<1>2. Len(map) \in Nat /\ at \in Int
  BY UnitsOfMap
<1> HIDE DEF m
<1>3. ASSUME NEW j \in 1 .. Len(m)
      PROVE  \E k \in 1 .. Len(map) : k # at /\ m[j] = map[k]
                                      /\ ((k = j /\ j < at) \/ (k = j + 1 /\ j >= at))
  <2>1. CASE j < at
    BY <2>1, <1>1, <1>2
  <2>2. CASE j >= at
    <3>1. j + 1 \in 1 .. Len(map) /\ j + 1 # at
      BY <2>2, <1>1, <1>2
    <3> QED
      BY <3>1, <2>2, <1>1, <1>2
  <2>3. j < at \/ j >= at
    BY <1>2
  <2> QED
    BY <2>1, <2>2, <2>3
<1>4. IsMap(m)
  <2>1. SUFFICES ASSUME NEW j \in 1 .. Len(m), NEW k \in 1 .. Len(m), j < k
                 PROVE  m[j].addr + m[j].size <= m[k].addr
    BY <1>1 DEF IsMap
  <2>2. PICK jj \in 1 .. Len(map) : m[j] = map[jj] /\ ((jj = j /\ j < at) \/ (jj = j + 1 /\ j >= at))
    BY <1>3
  <2>3. PICK kk \in 1 .. Len(map) : m[k] = map[kk] /\ ((kk = k /\ k < at) \/ (kk = k + 1 /\ k >= at))
    BY <1>3
  <2>4. jj < kk
    BY <2>1, <2>2, <2>3, <1>1, <1>2
  <2> QED
    BY <2>2, <2>3, <2>4 DEF IsMap
<1>5. ASSUME NEW n \in Int
      PROVE  n \in Units(m) <=> n \in Units(map) /\ ~In(n, map[at])
  <2>1. ASSUME n \in Units(m) PROVE n \in Units(map) /\ ~In(n, map[at])
    <3>1. PICK j \in 1 .. Len(m) : In(n, m[j])
      BY <1>4, <2>1, UnitsOfMap
    <3>2. PICK k \in 1 .. Len(map) : k # at /\ m[j] = map[k]
      BY <1>3
    <3> QED
      BY <3>1, <3>2, UnitsOfMap, SegmentsApart
  <2>2. ASSUME n \in Units(map), ~In(n, map[at]) PROVE n \in Units(m)
    <3>1. PICK k \in 1 .. Len(map) : In(n, map[k])
      BY <2>2, UnitsOfMap
    <3>2. k < at \/ k > at
      BY <2>2, <3>1, <1>2
    <3>3. CASE k < at
      <4>1. k \in 1 .. Len(m) /\ m[k] = map[k]
        BY <3>3, <1>1, <1>2
      <4> QED
        BY <3>1, <4>1, <1>4, UnitsOfMap
    <3>4. CASE k > at
      <4>1. k - 1 \in 1 .. Len(m) /\ k - 1 >= at /\ k - 1 + 1 = k
        BY <3>4, <1>1, <1>2
      <4>2. m[k - 1] = map[k]
        BY <4>1, <1>1
      <4> QED
        BY <3>1, <4>1, <4>2, <1>4, UnitsOfMap
    <3> QED
      BY <3>2, <3>3, <3>4
  <2> QED
    BY <2>1, <2>2
<1> QED
  BY <1>1, <1>4, <1>5 DEF m

(* A segment is replaced by another that lies between its neighbours. *)
LEMMA ChangeSegment ==
  ASSUME NEW map, IsMap(map), NEW at \in 1 .. Len(map), NEW seg \in Segment,
         \A k \in 1 .. Len(map) : k < at => map[k].addr + map[k].size <= seg.addr,
         \A k \in 1 .. Len(map) : k > at => seg.addr + seg.size <= map[k].addr
  PROVE  LET m == [map EXCEPT ![at] = seg] IN
         /\ IsMap(m) /\ Len(m) = Len(map)
         /\ \A n \in Int : n \in Units(m) <=>
              (n \in Units(map) /\ ~In(n, map[at])) \/ In(n, seg)
<1> DEFINE m == [map EXCEPT ![at] = seg]
<1>1. /\ m \in Seq(Segment) /\ Len(m) = Len(map)
      /\ m[at] = seg
      /\ \A k \in 1 .. Len(map) : k # at => m[k] = map[k]
  BY ExceptSeq DEF IsMap
<1>2. Len(map) \in Nat /\ at \in Int
  BY UnitsOfMap
<1> HIDE DEF m
<1>3. IsMap(m)
  <2>1. SUFFICES ASSUME NEW j \in 1 .. Len(map), NEW k \in 1 .. Len(map), j < k
                 PROVE  m[j].addr + m[j].size <= m[k].addr
    BY <1>1 DEF IsMap
  <2>2. CASE j = at
    BY <2>1, <2>2, <1>1, <1>2
  <2>3. CASE k = at
    BY <2>1, <2>3, <1>1, <1>2
  <2>4. CASE j # at /\ k # at
    BY <2>1, <2>4, <1>1, <1>2 DEF IsMap
  <2> QED
    BY <2>2, <2>3, <2>4
<1>4. ASSUME NEW n \in Int
      PROVE  n \in Units(m) <=> (n \in Units(map) /\ ~In(n, map[at])) \/ In(n, seg)
  <2>1. n \in Units(m) <=> \E k \in 1 .. Len(map) : In(n, m[k])
    BY <1>1, <1>3, UnitsOfMap
  <2>2. n \in Units(map) <=> \E k \in 1 .. Len(map) : In(n, map[k])
    BY UnitsOfMap
  <2> QED
    BY <2>1, <2>2, <1>1, SegmentsApart
<1> QED
  BY <1>1, <1>3, <1>4 DEF m

(* A segment is put between two others. *)
LEMMA PutSegment ==
  ASSUME NEW map, IsMap(map), NEW at \in 1 .. Len(map) + 1, NEW seg \in Segment,
         \A k \in 1 .. Len(map) : k < at => map[k].addr + map[k].size <= seg.addr,
         \A k \in 1 .. Len(map) : k >= at => seg.addr + seg.size <= map[k].addr
  PROVE  LET m == InsertAt(map, at, seg) IN
         /\ IsMap(m) /\ Len(m) = Len(map) + 1
         /\ \A n \in Int : n \in Units(m) <=> n \in Units(map) \/ In(n, seg)
<1> DEFINE m == InsertAt(map, at, seg)
<1>1. /\ m \in Seq(Segment) /\ Len(m) = Len(map) + 1
      /\ m[at] = seg
      /\ \A k \in 1 .. Len(map) + 1 : k < at => m[k] = map[k]
      /\ \A k \in 1 .. Len(map) + 1 : k > at => m[k] = map[k - 1]
  BY InsertAtProperties DEF IsMap
<1>2. Len(map) \in Nat /\ at \in Int
  BY UnitsOfMap
<1> HIDE DEF m
<1>3. ASSUME NEW j \in 1 .. Len(m)
      PROVE  \/ j = at /\ m[j] = seg
             \/ \E k \in 1 .. Len(map) : m[j] = map[k] /\ ((k = j /\ j < at) \/ (k = j - 1 /\ j > at))
  <2>1. CASE j < at
    <3>1. j \in 1 .. Len(map) /\ j \in 1 .. Len(map) + 1
      BY <2>1, <1>1, <1>2
    <3> QED
      BY <3>1, <2>1, <1>1
  <2>2. CASE j > at
    <3>1. j - 1 \in 1 .. Len(map) /\ j \in 1 .. Len(map) + 1
      BY <2>2, <1>1, <1>2
    <3> QED
      BY <3>1, <2>2, <1>1
  <2>3. CASE j = at
    BY <2>3, <1>1
  <2>4. j < at \/ j > at \/ j = at
    BY <1>2
  <2> QED
    BY <2>1, <2>2, <2>3, <2>4
<1>4. IsMap(m)
  <2>1. SUFFICES ASSUME NEW j \in 1 .. Len(m), NEW k \in 1 .. Len(m), j < k
                 PROVE  m[j].addr + m[j].size <= m[k].addr
    BY <1>1 DEF IsMap
  <2>2. CASE j = at
    <3>0. k > at /\ k # at /\ k \in Int
      BY <2>1, <2>2, <1>1, <1>2
    <3>1. PICK kk \in 1 .. Len(map) : m[k] = map[kk] /\ ((kk = k /\ k < at) \/ (kk = k - 1 /\ k > at))
      BY <3>0, <1>3
    <3>2. kk >= at
      BY <3>0, <3>1, <1>2
    <3> QED
      BY <2>2, <3>1, <3>2, <1>1
  <2>3. CASE k = at
    <3>1. PICK jj \in 1 .. Len(map) : m[j] = map[jj] /\ ((jj = j /\ j < at) \/ (jj = j - 1 /\ j > at))
      BY <2>1, <2>3, <1>2, <1>3
    <3>2. jj < at
      BY <2>1, <2>3, <3>1, <1>2
    <3> QED
      BY <2>3, <3>1, <3>2, <1>1
  <2>4. CASE j # at /\ k # at
    <3>1. PICK jj \in 1 .. Len(map) : m[j] = map[jj] /\ ((jj = j /\ j < at) \/ (jj = j - 1 /\ j > at))
      BY <2>4, <1>3
    <3>2. PICK kk \in 1 .. Len(map) : m[k] = map[kk] /\ ((kk = k /\ k < at) \/ (kk = k - 1 /\ k > at))
      BY <2>4, <1>3
    <3>3. jj < kk
      BY <2>1, <3>1, <3>2, <1>1, <1>2
    <3> QED
      BY <3>1, <3>2, <3>3 DEF IsMap
  <2> QED
    BY <2>2, <2>3, <2>4
<1>5. ASSUME NEW n \in Int
      PROVE  n \in Units(m) <=> n \in Units(map) \/ In(n, seg)
  <2>1. n \in Units(m) <=> \E k \in 1 .. Len(m) : In(n, m[k])
    BY <1>4, UnitsOfMap
  <2>2. n \in Units(map) <=> \E k \in 1 .. Len(map) : In(n, map[k])
    BY UnitsOfMap
  <2>3. ASSUME n \in Units(m) PROVE n \in Units(map) \/ In(n, seg)
    BY <2>1, <2>2, <2>3, <1>3
  <2>4. ASSUME n \in Units(map) PROVE n \in Units(m)
    <3>1. PICK k \in 1 .. Len(map) : In(n, map[k])
      BY <2>2, <2>4
    <3>2. CASE k < at
      <4>1. k \in 1 .. Len(map) + 1 /\ m[k] = map[k]
        BY <3>2, <1>1, <1>2
      <4> QED
        BY <3>1, <4>1, <1>1, <2>1
    <3>3. CASE k >= at
      <4>1. k + 1 \in 1 .. Len(map) + 1 /\ k + 1 > at /\ k + 1 - 1 = k
        BY <3>3, <1>1, <1>2
      <4>2. m[k + 1] = map[k]
        BY <4>1, <1>1
      <4> QED
        BY <3>1, <4>1, <4>2, <1>1, <2>1
    <3>4. k < at \/ k >= at
      BY <1>2
    <3> QED
      BY <3>2, <3>3, <3>4
  <2>5. ASSUME In(n, seg) PROVE n \in Units(m)
    <3>1. at \in 1 .. Len(m)
      BY <1>1, <1>2
    <3> QED
      BY <2>1, <2>5, <3>1, <1>1
  <2> QED
    BY <2>3, <2>4, <2>5
<1> QED
  BY <1>1, <1>4, <1>5 DEF m

LEMMA SegmentOf ==
  ASSUME NEW a \in Nat \ {0}, NEW s \in Nat \ {0}
  PROVE  LET seg == [addr |-> a, size |-> s] IN
         seg \in Segment /\ seg.addr = a /\ seg.size = s
BY DEF Segment

Changed(seg, a, s) == [seg EXCEPT !.addr = a, !.size = s]
Resized(seg, s) == [seg EXCEPT !.size = s]
LEMMA SegmentExcept ==
  ASSUME NEW seg \in Segment, NEW a \in Int, NEW s \in Int
  PROVE  /\ Changed(seg, a, s) = [addr |-> a, size |-> s]
         /\ Resized(seg, s) = [addr |-> seg.addr, size |-> s]
<1>1. seg = [addr |-> seg.addr, size |-> seg.size]
  BY DEF Segment
<1> DEFINE x == seg.addr y == seg.size
<1>2. seg = [addr |-> x, size |-> y]
  BY <1>1
<1> HIDE DEF x, y
<1>3. [seg EXCEPT !.size = s] = [addr |-> x, size |-> s]
  BY <1>2
<1>4. [seg EXCEPT !.addr = a] = [addr |-> a, size |-> y]
  BY <1>2
<1>5. [[seg EXCEPT !.addr = a] EXCEPT !.size = s] = [addr |-> a, size |-> s]
  <2> DEFINE z == [seg EXCEPT !.addr = a]
  <2>1. z = [addr |-> a, size |-> y]
    BY <1>4
  <2> HIDE DEF z
  <2>2. [z EXCEPT !.size = s] = [addr |-> a, size |-> s]
    BY <2>1
  <2> QED
    BY <2>2 DEF z
<1>6. [seg EXCEPT !.addr = a, !.size = s] = [addr |-> a, size |-> s]
  BY <1>5
<1> QED
  BY <1>3, <1>6 DEF x, Changed, Resized

(* rmalloc() takes units that were free, and no others, off the map. *)
THEOREM RmallocMap ==
  ASSUME NEW map, IsMap(map), NEW size \in Nat \ {0}, rmalloc(map, size).addr # 0
  PROVE  LET got == rmalloc(map, size) IN
         /\ got.addr \in Nat \ {0}
         /\ IsMap(got.map)
         /\ Len(got.map) <= Len(map)
         /\ got.addr .. got.addr + size - 1 \subseteq Units(map)
         /\ Units(got.map) = Units(map) \ (got.addr .. got.addr + size - 1)
<1> DEFINE I == {k \in 1 .. Len(map) : map[k].size >= size}
           at == SelectInSeq(map, LAMBDA seg : seg.size >= size)
           got == rmalloc(map, size)
           units == got.addr .. got.addr + size - 1
<1>1. /\ Len(map) \in Nat
      /\ \A k \in 1 .. Len(map) : map[k] \in Segment
      /\ \A k \in 1 .. Len(map) : map[k].addr \in Nat \ {0} /\ map[k].size \in Nat \ {0}
  BY UnitsOfMap
<1>2. at # 0 /\ at = IF I # {} THEN Min(I) ELSE 0
  BY DEF rmalloc, SelectInSeq
<1>3. at \in 1 .. Len(map) /\ map[at].size >= size
  <2>1. I \in SUBSET Nat
    BY <1>1
  <2> HIDE DEF at
  <2> QED
    BY <1>2, <2>1, MinNat
<1>4. got = [addr |-> map[at].addr,
             map  |-> IF map[at].size = size THEN RemoveAt(map, at)
                      ELSE [map EXCEPT ![at].addr = @ + size, ![at].size = @ - size]]
  BY <1>2 DEF rmalloc
<1> HIDE DEF at, got
<1>5. /\ got.addr = map[at].addr
      /\ map[at].size = size => got.map = RemoveAt(map, at)
      /\ map[at].size # size =>
           got.map = [map EXCEPT ![at].addr = @ + size, ![at].size = @ - size]
  BY <1>4
<1>6. \A n \in Int : n \in units <=> got.addr <= n /\ n < got.addr + size
  BY <1>1, <1>3, <1>5
<1>7. ASSUME NEW n \in units PROVE n \in Units(map)
  <2>1. n \in Int /\ In(n, map[at])
    BY <1>1, <1>3, <1>5 DEF In
  <2> QED
    BY <2>1, <1>3, UnitsOfMap
<1>8. /\ IsMap(got.map) /\ Len(got.map) <= Len(map)
      /\ \A n \in Int : n \in Units(got.map) <=> n \in Units(map) /\ n \notin units
  <2>1. CASE map[at].size = size
    <3>1. \A n \in Int : n \in units <=> In(n, map[at])
      BY <2>1, <1>5, <1>6 DEF In
    <3> QED
      BY <2>1, <3>1, <1>1, <1>3, <1>5, DropSegment
  <2>2. CASE map[at].size # size
    <3> DEFINE seg == [addr |-> map[at].addr + size, size |-> map[at].size - size]
    <3>1. seg \in Segment
      BY <2>2, <1>1, <1>3 DEF Segment
    <3>2. got.map = [map EXCEPT ![at] = seg]
      <4>1. Changed(map[at], map[at].addr + size, map[at].size - size) = seg
        <5>1. /\ map[at] \in Segment
              /\ map[at].addr + size \in Int /\ map[at].size - size \in Int
          BY <1>1, <1>3
        <5> QED
          BY <5>1, SegmentExcept
      <4>2. got.map = [map EXCEPT ![at] =
                         Changed(map[at], map[at].addr + size, map[at].size - size)]
        BY <2>2, <1>5 DEF Changed
      <4> QED
        BY <4>1, <4>2
    <3>3. seg.addr = map[at].addr + size /\ seg.addr + seg.size = map[at].addr + map[at].size
      BY <1>1, <1>3
    <3> HIDE DEF seg
    <3>4. ASSUME NEW k \in 1 .. Len(map), k < at
          PROVE  map[k].addr + map[k].size <= seg.addr
      <4>1. map[k].addr + map[k].size <= map[at].addr
        BY <3>4, <1>3 DEF IsMap
      <4> QED
        BY <4>1, <3>3, <1>1, <1>3
    <3>5. ASSUME NEW k \in 1 .. Len(map), k > at
          PROVE  seg.addr + seg.size <= map[k].addr
      BY <3>3, <3>5, <1>3 DEF IsMap
    <3>6. /\ IsMap(got.map) /\ Len(got.map) = Len(map)
          /\ \A n \in Int : n \in Units(got.map) <=>
               (n \in Units(map) /\ ~In(n, map[at])) \/ In(n, seg)
      <4> DEFINE w == [map EXCEPT ![at] = seg]
      <4>1. /\ IsMap(w) /\ Len(w) = Len(map)
            /\ \A n \in Int : n \in Units(w) <=>
                 (n \in Units(map) /\ ~In(n, map[at])) \/ In(n, seg)
        BY <3>1, <3>4, <3>5, <1>3, ChangeSegment
      <4>2. got.map = w
        BY <3>2
      <4> HIDE DEF w
      <4> QED
        BY <4>1, <4>2
    <3>7. ASSUME NEW n \in Int
          PROVE  n \in Units(got.map) <=> n \in Units(map) /\ n \notin units
      <4>1. In(n, seg) <=> In(n, map[at]) /\ n \notin units
        BY <3>3, <1>1, <1>3, <1>5, <1>6 DEF In
      <4>2. n \in units => In(n, map[at])
        BY <1>1, <1>3, <1>5, <1>6 DEF In
      <4>3. In(n, map[at]) => n \in Units(map)
        BY <1>3, UnitsOfMap
      <4> QED
        BY <3>6, <4>1, <4>2, <4>3
    <3> QED
      BY <3>6, <3>7, <1>1
  <2> QED
    BY <2>1, <2>2
<1>9. Units(got.map) = Units(map) \ units
  <2>1. Units(map) \subseteq Int /\ Units(got.map) \subseteq Int
    BY <1>8, UnitsOfMap
  <2> QED
    BY <2>1, <1>8
<1>10. got.addr \in Nat \ {0}
  BY <1>1, <1>3, <1>5
<1> QED
  BY <1>7, <1>8, <1>9, <1>10 DEF got

(* rmfree() puts units that were not free on the map, and no others; it may *)
(* drop some.                                                              *)
THEOREM RmfreeMap ==
  ASSUME NEW map, IsMap(map), NEW size \in Nat \ {0}, NEW addr \in Nat \ {0},
         NEW mapsize \in Nat, mapsize >= 3, Len(map) <= mapsize - 2,
         (addr .. addr + size - 1) \cap Units(map) = {}
  PROVE  LET m == rmfree(map, size, addr, mapsize) IN
         /\ IsMap(m)
         /\ Len(m) <= mapsize - 2
         /\ Units(m) \subseteq Units(map) \cup (addr .. addr + size - 1)
<1> DEFINE I == {k \in 1 .. Len(map) : map[k].addr > addr}
           behind == SelectInSeq(map, LAMBDA seg : seg.addr > addr)
           at == IF behind = 0 THEN Len(map) + 1 ELSE behind
           joinsLeft == at > 1 /\ map[at - 1].addr + map[at - 1].size >= addr
           joinsRight == behind # 0 /\ addr + size >= map[at].addr
           new == [addr |-> addr, size |-> size]
           inserted == InsertAt(map, at, new)
           m == rmfree(map, size, addr, mapsize)
<1>1. /\ Len(map) \in Nat
      /\ \A k \in 1 .. Len(map) : map[k] \in Segment
      /\ \A k \in 1 .. Len(map) : map[k].addr \in Nat \ {0} /\ map[k].size \in Nat \ {0}
  BY UnitsOfMap
<1>2. m = CASE joinsLeft /\ joinsRight ->
            RemoveAt([map EXCEPT ![at - 1].size = @ + size + map[at].size], at)
       [] joinsLeft /\ ~joinsRight -> [map EXCEPT ![at - 1].size = @ + size]
       [] ~joinsLeft /\ joinsRight ->
            [map EXCEPT ![at].addr = @ - size, ![at].size = @ + size]
       [] OTHER -> IF Len(inserted) > mapsize - 2
                   THEN RemoveAt(inserted, Len(inserted) - 1)
                   ELSE inserted
  BY DEF rmfree
<1>3. behind = IF I # {} THEN Min(I) ELSE 0
  BY DEF SelectInSeq
<1> HIDE DEF behind
<1>4. /\ at \in 1 .. Len(map) + 1
      /\ behind # 0 => at \in 1 .. Len(map) /\ map[at].addr > addr
      /\ \A k \in 1 .. Len(map) : k < at => map[k].addr <= addr
  <2>1. I \in SUBSET Nat
    BY <1>1
  <2>2. CASE I = {}
    BY <2>2, <1>1, <1>3
  <2>3. CASE I # {}
    <3>1. behind \in I /\ \A k \in I : behind <= k
      BY <2>1, <2>3, <1>3, MinNat
    <3>2. behind # 0 /\ at = behind /\ behind \in 1 .. Len(map) /\ map[behind].addr > addr
      BY <3>1
    <3>3. ASSUME NEW k \in 1 .. Len(map), k < at PROVE map[k].addr <= addr
      BY <3>1, <3>2, <3>3, <1>1
    <3> QED
      BY <3>2, <3>3, <1>1
  <2> QED
    BY <2>2, <2>3
<1>5. behind = 0 => at = Len(map) + 1
  OBVIOUS
<1> HIDE DEF at
<1>6. ASSUME NEW k \in 1 .. Len(map), k < at
      PROVE  map[k].addr + map[k].size <= addr
  <2>1. map[k].addr <= addr /\ k \in 1 .. Len(map)
    BY <1>4, <1>6
  <2>2. addr \in addr .. addr + size - 1
    OBVIOUS
  <2>3. ~In(addr, map[k])
    <3>1. addr \in Int /\ addr \notin Units(map)
      BY <2>2
    <3> QED
      BY <3>1, UnitsOfMap
  <2> QED
    BY <2>1, <2>3, <1>1 DEF In
<1>7. ASSUME NEW k \in 1 .. Len(map), k >= at
      PROVE  addr + size <= map[k].addr
  <2>1. map[at].addr > addr /\ at \in 1 .. Len(map)
    BY <1>1, <1>4, <1>5, <1>7
  <2>2. map[at].addr <= map[k].addr
    <3>1. CASE k = at
      BY <3>1, <1>1
    <3>2. CASE at < k
      <4>1. map[at].addr + map[at].size <= map[k].addr
        BY <2>1, <3>2 DEF IsMap
      <4>2. map[at].addr \in Nat /\ map[at].size \in Nat /\ map[k].addr \in Nat
        BY <2>1, <1>1
      <4> QED
        BY <4>1, <4>2
    <3> QED
      BY <3>1, <3>2, <1>4, <1>7, <1>1
  <2>3. ~(map[at].addr \in addr .. addr + size - 1)
    <3>1. In(map[at].addr, map[at])
      BY <2>1, <1>1 DEF In
    <3>2. map[at].addr \in Units(map)
      BY <2>1, <3>1, <1>1, UnitsOfMap
    <3> QED
      BY <3>2
  <2> QED
    BY <2>1, <2>2, <2>3, <1>1
<1>8. \A n \in Int : n \in addr .. addr + size - 1 <=> In(n, new)
  BY DEF In
<1>9. new \in Segment /\ new.addr = addr /\ new.size = size
  BY DEF Segment
<1> HIDE DEF new
<1>10. joinsLeft => /\ at - 1 \in 1 .. Len(map)
                    /\ map[at - 1].addr + map[at - 1].size = addr
  <2> SUFFICES ASSUME joinsLeft
               PROVE  /\ at - 1 \in 1 .. Len(map)
                      /\ map[at - 1].addr + map[at - 1].size = addr
    OBVIOUS
  <2>1. at - 1 \in 1 .. Len(map) /\ at - 1 < at
    BY <1>1, <1>4
  <2>2. map[at - 1].addr + map[at - 1].size <= addr
    BY <2>1, <1>6
  <2>3. map[at - 1].addr \in Nat /\ map[at - 1].size \in Nat
    BY <2>1, <1>1
  <2> QED
    BY <2>1, <2>2, <2>3
<1>11. joinsRight => at \in 1 .. Len(map) /\ addr + size = map[at].addr
  BY <1>1, <1>4, <1>7
<1>12. CASE joinsLeft /\ joinsRight
  <2> DEFINE seg == [addr |-> map[at - 1].addr, size |-> map[at - 1].size + size + map[at].size]
             low == RemoveAt(map, at)
             wide == [map EXCEPT ![at - 1] = seg]
  <2>1. /\ at - 1 \in 1 .. Len(map) /\ at \in 1 .. Len(map) /\ at \in Int /\ Len(map) \in Nat
        /\ map[at - 1].addr + map[at - 1].size = addr /\ addr + size = map[at].addr
        /\ map[at - 1].addr \in Nat \ {0} /\ map[at - 1].size \in Nat \ {0}
        /\ map[at].addr \in Nat \ {0} /\ map[at].size \in Nat \ {0}
    BY <1>1, <1>4, <1>10, <1>11, <1>12
  <2> HIDE DEF joinsLeft, joinsRight
  <2>11. PICK la \in Nat \ {0} : la = map[at - 1].addr
    BY <2>1
  <2>12. PICK ls \in Nat \ {0} : ls = map[at - 1].size
    BY <2>1
  <2>13. PICK rs \in Nat \ {0} : rs = map[at].size
    BY <2>1
  <2>14. ls + size + rs \in Nat \ {0} /\ la + (ls + size + rs) = map[at].addr + rs
    <3>1. la + ls = addr /\ addr + size = map[at].addr
      BY <2>1, <2>11, <2>12
    <3>2. la + (ls + size + rs) = la + ls + size + rs
      OBVIOUS
    <3> QED
      BY <3>1, <3>2
  <2>2. m = RemoveAt(wide, at)
    <3>1. m = RemoveAt([map EXCEPT ![at - 1].size = @ + size + map[at].size], at)
      BY <1>2, <1>12
    <3>2. Resized(map[at - 1], map[at - 1].size + size + map[at].size) = seg
      <4>1. map[at - 1] \in Segment /\ map[at - 1].size + size + map[at].size \in Int
        BY <1>1, <2>1, <2>12, <2>13, <2>14
      <4> QED
        BY <4>1, SegmentExcept
    <3>3. [map EXCEPT ![at - 1].size = @ + size + map[at].size]
            = [map EXCEPT ![at - 1] = Resized(map[at - 1], map[at - 1].size + size + map[at].size)]
      BY DEF Resized
    <3> QED
      BY <3>1, <3>2, <3>3
  <2>3. seg \in Segment /\ seg.addr = map[at - 1].addr /\ seg.addr + seg.size = map[at].addr + map[at].size
    <3>1. map[at - 1].size + size + map[at].size \in Nat \ {0}
      BY <2>12, <2>13, <2>14
    <3>2. seg \in Segment /\ seg.addr = map[at - 1].addr
          /\ seg.size = map[at - 1].size + size + map[at].size
      BY <2>1, <3>1, SegmentOf
    <3> HIDE DEF seg
    <3> QED
      BY <2>11, <2>12, <2>13, <2>14, <3>2
  <2> HIDE DEF seg
  <2>4. /\ IsMap(low) /\ Len(low) = Len(map) - 1
        /\ \A n \in Int : n \in Units(low) <=> n \in Units(map) /\ ~In(n, map[at])
        /\ \A k \in 1 .. Len(map) - 1 : k < at => low[k] = map[k]
        /\ \A k \in 1 .. Len(map) - 1 : k >= at => low[k] = map[k + 1]
    <3>1. /\ IsMap(low) /\ Len(low) = Len(map) - 1
          /\ \A n \in Int : n \in Units(low) <=> n \in Units(map) /\ ~In(n, map[at])
      BY <2>1, DropSegment
    <3>2. /\ \A k \in 1 .. Len(map) - 1 : k < at => low[k] = map[k]
          /\ \A k \in 1 .. Len(map) - 1 : k >= at => low[k] = map[k + 1]
      <4>1. map \in Seq(Segment)
        BY DEF IsMap
      <4> QED
        BY <4>1, <2>1, RemoveAtProperties
    <3> HIDE DEF low
    <3> QED
      BY <3>1, <3>2
  <2>5. low \in Seq(Segment)
    BY <2>4 DEF IsMap
  <2> HIDE DEF low
  <2>6. m = [low EXCEPT ![at - 1] = seg]
    <3>1. wide \in Seq(Segment) /\ Len(wide) = Len(map)
          /\ wide[at - 1] = seg
          /\ \A k \in 1 .. Len(map) : k # at - 1 => wide[k] = map[k]
      BY <2>1, <2>3, ExceptSeq DEF IsMap
    <3> HIDE DEF wide
    <3>2. /\ m \in Seq(Segment) /\ Len(m) = Len(map) - 1
          /\ \A k \in 1 .. Len(map) - 1 : k < at => m[k] = wide[k]
          /\ \A k \in 1 .. Len(map) - 1 : k >= at => m[k] = wide[k + 1]
      <4> DEFINE x == RemoveAt(wide, at)
      <4>1. /\ x \in Seq(Segment) /\ Len(x) = Len(wide) - 1
            /\ \A k \in 1 .. Len(wide) - 1 : k < at => x[k] = wide[k]
            /\ \A k \in 1 .. Len(wide) - 1 : k >= at => x[k] = wide[k + 1]
        <5>1. at \in 1 .. Len(wide)
          BY <2>1, <3>1
        <5> QED
          BY <3>1, <5>1, RemoveAtProperties
      <4> HIDE DEF m
      <4>2. m = x
        BY <2>2
      <4> HIDE DEF x
      <4> QED
        BY <3>1, <4>1, <4>2
    <3> DEFINE w == [low EXCEPT ![at - 1] = seg]
    <3>3. /\ w \in Seq(Segment) /\ Len(w) = Len(map) - 1
          /\ w[at - 1] = seg
          /\ \A k \in 1 .. Len(map) - 1 : k # at - 1 => w[k] = low[k]
      <4>1. at - 1 \in 1 .. Len(low)
        BY <2>1, <2>4
      <4> QED
        BY <2>3, <2>4, <2>5, <4>1, ExceptSeq
    <3> HIDE DEF w, m
    <3>4. ASSUME NEW k \in 1 .. Len(map) - 1 PROVE m[k] = w[k]
      <4>1. CASE k < at - 1
        BY <4>1, <2>1, <2>4, <3>1, <3>2, <3>3
      <4>2. CASE k = at - 1
        <5>1. k < at /\ k \in 1 .. Len(map)
          BY <4>2, <2>1
        <5>2. m[k] = wide[k]
          BY <5>1, <3>2
        <5> QED
          BY <5>2, <4>2, <3>1, <3>3
      <4>3. CASE k >= at
        <5>1. k + 1 \in 1 .. Len(map) /\ k + 1 # at - 1 /\ k # at - 1
          BY <4>3, <2>1
        <5> QED
          BY <5>1, <4>3, <2>4, <3>1, <3>2, <3>3
      <4>4. k < at - 1 \/ k = at - 1 \/ k >= at
        BY <2>1
      <4> QED
        BY <4>1, <4>2, <4>3, <4>4
    <3>5. m = w
      BY <3>2, <3>3, <3>4, SeqEqual
    <3> QED
      BY <3>5 DEF w
  <2>7. ASSUME NEW k \in 1 .. Len(low), k < at - 1
        PROVE  low[k].addr + low[k].size <= seg.addr
    <3>1. k \in 1 .. Len(map) - 1 /\ k < at /\ k \in 1 .. Len(map)
      BY <2>7, <2>1, <2>4
    <3>2. low[k] = map[k]
      BY <3>1, <2>4
    <3> QED
      BY <2>7, <3>1, <3>2, <2>1, <2>3 DEF IsMap
  <2>8. ASSUME NEW k \in 1 .. Len(low), k > at - 1
        PROVE  seg.addr + seg.size <= low[k].addr
    <3>1. low[k] = map[k + 1] /\ k + 1 \in 1 .. Len(map) /\ at < k + 1
      BY <2>8, <2>1, <2>4
    <3> QED
      BY <3>1, <2>1, <2>3 DEF IsMap
  <2>9. /\ IsMap(m) /\ Len(m) = Len(map) - 1
        /\ \A n \in Int : n \in Units(m) <=>
             (n \in Units(low) /\ ~In(n, low[at - 1])) \/ In(n, seg)
    <3> DEFINE w == [low EXCEPT ![at - 1] = seg]
    <3>1. at - 1 \in 1 .. Len(low)
      BY <2>1, <2>4
    <3>2. /\ IsMap(w) /\ Len(w) = Len(low)
          /\ \A n \in Int : n \in Units(w) <=>
               (n \in Units(low) /\ ~In(n, low[at - 1])) \/ In(n, seg)
      BY <3>1, <2>3, <2>4, <2>7, <2>8, ChangeSegment
    <3> HIDE DEF w, m
    <3>3. m = w
      BY <2>6 DEF w
    <3> QED
      BY <3>2, <3>3, <2>4
  <2> HIDE DEF m
  <2>10. ASSUME NEW n \in Units(m) PROVE n \in Units(map) \cup (addr .. addr + size - 1)
    <3>1. n \in Int
      BY <2>9, UnitsOfMap
    <3>2. In(n, seg) => In(n, map[at - 1]) \/ In(n, map[at]) \/ n \in addr .. addr + size - 1
      BY <2>1, <2>3, <3>1 DEF In
    <3> QED
      BY <2>1, <2>4, <2>9, <3>1, <3>2, UnitsOfMap
  <2> QED
    BY <2>1, <2>9, <2>10 DEF m
<1>13. CASE joinsLeft /\ ~joinsRight
  <2> DEFINE seg == [addr |-> map[at - 1].addr, size |-> map[at - 1].size + size]
             w == [map EXCEPT ![at - 1] = seg]
  <2>1. /\ at - 1 \in 1 .. Len(map) /\ at \in Int /\ Len(map) \in Nat
        /\ map[at - 1].addr + map[at - 1].size = addr
        /\ map[at - 1].addr \in Nat \ {0} /\ map[at - 1].size \in Nat \ {0}
    BY <1>1, <1>4, <1>10, <1>13
  <2>11. PICK la \in Nat \ {0} : la = map[at - 1].addr
    BY <2>1
  <2>12. PICK ls \in Nat \ {0} : ls = map[at - 1].size
    BY <2>1
  <2>13. ls + size \in Nat \ {0} /\ la + (ls + size) = addr + size
    <3>1. la + ls = addr
      BY <2>1, <2>11, <2>12
    <3> QED
      BY <3>1
  <2>2. m = w
    <3>1. m = [map EXCEPT ![at - 1].size = @ + size]
      BY <1>2, <1>13
    <3>2. Resized(map[at - 1], map[at - 1].size + size) = seg
      <4>1. map[at - 1] \in Segment /\ map[at - 1].size + size \in Int
        BY <1>1, <2>1, <2>12, <2>13
      <4> QED
        BY <4>1, SegmentExcept
    <3>3. [map EXCEPT ![at - 1].size = @ + size]
            = [map EXCEPT ![at - 1] = Resized(map[at - 1], map[at - 1].size + size)]
      BY DEF Resized
    <3> QED
      BY <3>1, <3>2, <3>3
  <2>3. seg \in Segment /\ seg.addr = map[at - 1].addr /\ seg.addr + seg.size = addr + size
    <3>1. map[at - 1].size + size \in Nat \ {0}
      BY <2>12, <2>13
    <3>2. seg \in Segment /\ seg.addr = map[at - 1].addr /\ seg.size = map[at - 1].size + size
      BY <2>1, <3>1, SegmentOf
    <3> HIDE DEF seg
    <3> QED
      BY <2>11, <2>12, <2>13, <3>2
  <2> HIDE DEF seg
  <2>4. ASSUME NEW k \in 1 .. Len(map), k < at - 1
        PROVE  map[k].addr + map[k].size <= seg.addr
    BY <2>4, <2>1, <2>3 DEF IsMap
  <2>5. ASSUME NEW k \in 1 .. Len(map), k > at - 1
        PROVE  seg.addr + seg.size <= map[k].addr
    <3>1. k >= at
      BY <2>5, <2>1
    <3> QED
      BY <3>1, <2>3, <1>7
  <2>6. /\ IsMap(w) /\ Len(w) = Len(map)
        /\ \A n \in Int : n \in Units(w) <=>
             (n \in Units(map) /\ ~In(n, map[at - 1])) \/ In(n, seg)
    BY <2>1, <2>3, <2>4, <2>5, ChangeSegment
  <2> HIDE DEF w, m
  <2>7. ASSUME NEW n \in Units(m) PROVE n \in Units(map) \cup (addr .. addr + size - 1)
    <3>1. n \in Int
      BY <2>2, <2>6, UnitsOfMap
    <3>2. In(n, seg) => In(n, map[at - 1]) \/ n \in addr .. addr + size - 1
      BY <2>1, <2>3, <3>1 DEF In
    <3> QED
      BY <2>1, <2>2, <2>6, <3>1, <3>2, UnitsOfMap
  <2> QED
    BY <2>2, <2>6, <2>7 DEF m
<1>14. CASE ~joinsLeft /\ joinsRight
  <2> DEFINE seg == [addr |-> map[at].addr - size, size |-> map[at].size + size]
             w == [map EXCEPT ![at] = seg]
  <2>1. /\ at \in 1 .. Len(map) /\ Len(map) \in Nat
        /\ addr + size = map[at].addr
        /\ map[at].addr \in Nat \ {0} /\ map[at].size \in Nat \ {0}
    BY <1>1, <1>4, <1>11, <1>14
  <2>2. m = w
    <3>1. m = [map EXCEPT ![at].addr = @ - size, ![at].size = @ + size]
      BY <1>2, <1>14
    <3>2. Changed(map[at], map[at].addr - size, map[at].size + size) = seg
      <4>1. map[at] \in Segment /\ map[at].addr - size \in Int /\ map[at].size + size \in Int
        BY <1>1, <2>1
      <4> QED
        BY <4>1, SegmentExcept
    <3>3. [map EXCEPT ![at].addr = @ - size, ![at].size = @ + size]
            = [map EXCEPT ![at] = Changed(map[at], map[at].addr - size, map[at].size + size)]
      BY DEF Changed
    <3> QED
      BY <3>1, <3>2, <3>3
  <2>3. seg \in Segment /\ seg.addr = addr /\ seg.addr + seg.size = map[at].addr + map[at].size
    <3>1. map[at].addr - size = addr /\ map[at].size + size \in Nat \ {0}
      BY <2>1
    <3>2. seg \in Segment /\ seg.addr = map[at].addr - size /\ seg.size = map[at].size + size
      BY <3>1, SegmentOf
    <3> HIDE DEF seg
    <3> QED
      BY <2>1, <3>1, <3>2
  <2> HIDE DEF seg
  <2>4. ASSUME NEW k \in 1 .. Len(map), k < at
        PROVE  map[k].addr + map[k].size <= seg.addr
    BY <2>4, <2>3, <1>6
  <2>5. ASSUME NEW k \in 1 .. Len(map), k > at
        PROVE  seg.addr + seg.size <= map[k].addr
    BY <2>5, <2>1, <2>3 DEF IsMap
  <2>6. /\ IsMap(w) /\ Len(w) = Len(map)
        /\ \A n \in Int : n \in Units(w) <=>
             (n \in Units(map) /\ ~In(n, map[at])) \/ In(n, seg)
    BY <2>1, <2>3, <2>4, <2>5, ChangeSegment
  <2> HIDE DEF w, m
  <2>7. ASSUME NEW n \in Units(m) PROVE n \in Units(map) \cup (addr .. addr + size - 1)
    <3>1. n \in Int
      BY <2>2, <2>6, UnitsOfMap
    <3>2. In(n, seg) => In(n, map[at]) \/ n \in addr .. addr + size - 1
      BY <2>1, <2>3, <3>1 DEF In
    <3> QED
      BY <2>1, <2>2, <2>6, <3>1, <3>2, UnitsOfMap
  <2> QED
    BY <2>2, <2>6, <2>7 DEF m
<1>15. CASE ~joinsLeft /\ ~joinsRight
  <2>1. m = IF Len(inserted) > mapsize - 2
            THEN RemoveAt(inserted, Len(inserted) - 1)
            ELSE inserted
    BY <1>2, <1>15
  <2>2. /\ IsMap(inserted) /\ Len(inserted) = Len(map) + 1
        /\ \A n \in Int : n \in Units(inserted) <=> n \in Units(map) \/ In(n, new)
    BY <1>4, <1>6, <1>7, <1>9, PutSegment
  <2> HIDE DEF inserted, m
  <2>3. ASSUME NEW n \in Int, n \in Units(inserted)
        PROVE  n \in Units(map) \cup (addr .. addr + size - 1)
    BY <2>2, <2>3, <1>8
  <2>4. CASE Len(inserted) > mapsize - 2
    <3>1. Len(inserted) - 1 \in 1 .. Len(inserted)
      BY <2>2, <2>4, <1>1
    <3>2. /\ IsMap(m) /\ Len(m) = Len(inserted) - 1
          /\ \A n \in Int : n \in Units(m) => n \in Units(inserted)
      BY <2>1, <2>2, <2>4, <3>1, DropSegment
    <3>3. Units(m) \subseteq Int
      BY <3>2, UnitsOfMap
    <3> QED
      BY <2>2, <2>3, <3>2, <3>3, <1>1 DEF m
  <2>5. CASE ~(Len(inserted) > mapsize - 2)
    <3>1. m = inserted /\ Len(m) <= mapsize - 2
      BY <2>1, <2>2, <2>5, <1>1
    <3>2. Units(m) \subseteq Int
      BY <2>2, <3>1, UnitsOfMap
    <3> QED
      BY <2>2, <2>3, <3>1, <3>2 DEF m
  <2> QED
    BY <2>4, <2>5
<1> QED
  BY <1>12, <1>13, <1>14, <1>15
-----------------------------------------------------------------------------
(* The inductive invariant, in parts. *)

Rm == {"rmid", "rmfree"}
Place == Working \cup Rm \cup {"idle", "asleep", "again", "setall", "exit"}
SlotAt(p) == SlotOf(semid[p])
Queue == {"semncnt_wait", "semzcnt_wait"}
Entries == [id : Nat, num : Nat, aoe : Int]

Types ==
  /\ live \in [Slot -> BOOLEAN] /\ semid_flag \in [Slot -> BOOLEAN]
  /\ seq \in [Slot -> Nat]
  /\ sem_base \in [Slot -> Nat] /\ sem_nsems \in [Slot -> Nat]
  /\ semid_lock \in [Slot -> Proc \cup {None}]
  /\ semval \in [Sem -> Int]
  /\ lost \subseteq Sem
  /\ pc \in [Proc -> Place]
  /\ semid \in [Proc -> Nat] /\ i \in [Proc -> Nat]
  /\ ops \in [Proc -> Seq(Op)]
  /\ wait \in [Proc -> {None} \cup (Queue \X Nat)]

(* id has been given to a set: it is that of the set in the slot, or of one *)
(* that was there before. *)
Known(id) ==
  /\ id \in Nat /\ SlotOf(id) \in Slot
  /\ id <= IdOf(SlotOf(id))
  /\ id = IdOf(SlotOf(id)) => live[SlotOf(id)]

(* An undo entry is for a semaphore of its set, while that exists. *)
GoodEntry == {e \in Entries : Known(e.id) /\ (Exists(e.id) => e.num < sem_nsems[SlotOf(e.id)])}
EntryInv == un_ent \in [Proc -> Seq(GoodEntry)]

(* What p's call knows of its set. *)
Fits(p) == \A k \in 1 .. Len(ops[p]) : ops[p][k].num < sem_nsems[SlotAt(p)]
MayWait(p) == SlotAt(p) \in Waiting \/ \A k \in 1 .. Len(ops[p]) : ops[p][k].nowait
WaitsInSet(p) == SlotAt(p) \in Waiting /\ wait[p] \in Queue \X SemsOf(SlotAt(p))

WorkInv(p) == pc[p] \in Working =>
  /\ SlotAt(p) \in Slot /\ Exists(semid[p]) /\ semid_lock[SlotAt(p)] = p
  /\ Fits(p) /\ MayWait(p)
  /\ pc[p] = "undo" /\ wait[p] # None => WaitsInSet(p)
BeingRemoved(id) == \E q \in Proc : pc[q] = "rmid" /\ semid[q] = id
SleepInv(p) == pc[p] \in {"asleep", "again"} =>
  /\ Known(semid[p]) /\ SlotAt(p) \in Waiting
  /\ Exists(semid[p]) => Fits(p)
  /\ pc[p] = "asleep" => /\ WaitsInSet(p)
                         /\ Exists(semid[p]) \/ BeingRemoved(semid[p])
RmInv(p) == pc[p] \in Rm =>
  /\ SlotAt(p) \in Removable /\ ~live[SlotAt(p)] /\ seq[SlotAt(p)] > 0
  /\ semid_lock[SlotAt(p)] = p \/ SlotAt(p) \in Waiting
  /\ pc[p] = "rmfree" => \A n \in SemsOf(SlotAt(p)) : semval[n] = 0
SetInv(p) == pc[p] = "setall" =>
  SlotAt(p) \in Slot /\ Exists(semid[p]) /\ semid_flag[SlotAt(p)]
ProcInv == \A p \in Proc : WorkInv(p) /\ SleepInv(p) /\ RmInv(p) /\ SetInv(p)

(* One call removes a set, and one holds it over a copy. *)
OneInv == \A p, q \in Proc :
  SlotAt(p) = SlotAt(q) /\ ((pc[p] \in Rm /\ pc[q] \in Rm) \/ (pc[p] = "setall" /\ pc[q] = "setall"))
    => p = q

SeqInv == \A s \in Slot : seq[s] > 0 => s \in Removable /\ (live[s] => s \in Reused)

(* Where the semaphores are. *)
Occupied(s) == live[s] \/ Removing(s)
MapInv == IsMap(freemap) /\ Len(freemap) <= semmap - 2 /\ Units(freemap) \subseteq Sem
SetsInv ==
  /\ \A s \in Slot : Occupied(s) => SemsOf(s) \subseteq Sem /\ sem_base[s] > 0 /\ sem_nsems[s] > 0
                       /\ SemsOf(s) \cap (Units(freemap) \cup lost) = {}
  /\ \A s, t \in Slot : Occupied(s) /\ Occupied(t) /\ s # t => SemsOf(s) \cap SemsOf(t) = {}
CoverInv ==
  /\ Units(freemap) \cap lost = {}
  /\ \A n \in Sem : n \in Units(freemap) \cup lost \/ \E s \in Slot : Occupied(s) /\ n \in SemsOf(s)
ZeroInv == \A n \in Units(freemap) : semval[n] = 0

IInv == /\ Types /\ EntryInv /\ ProcInv /\ OneInv /\ SeqInv
        /\ MapInv /\ SetsInv /\ CoverInv /\ ZeroInv

-----------------------------------------------------------------------------
(* Identifiers. *)

LEMMA Remainder ==
  ASSUME NEW m \in Nat, NEW n \in Nat, NEW s \in Nat, s < m
  PROVE  n * m + s \in Nat /\ (n * m + s) % m = s
OBVIOUS

LEMMA IdOfSlot ==
  ASSUME seq \in [Slot -> Nat], NEW s \in Slot
  PROVE  IdOf(s) \in Nat /\ SlotOf(IdOf(s)) = s
<1>1. /\ semmni \in Nat /\ s \in Nat /\ s < semmni /\ seq[s] \in Nat
  BY InfoAssumption DEF Slot
<1> QED
  BY <1>1, Remainder DEF IdOf, SlotOf

(* A set that is gone has left its mark on the slot. *)
LEMMA GoneId ==
  ASSUME seq \in [Slot -> Nat], NEW id, Known(id), ~Exists(id)
  PROVE  seq[SlotOf(id)] > 0
<1>1. /\ id \in Nat /\ SlotOf(id) \in Slot /\ id < IdOf(SlotOf(id))
  <2>1. /\ id \in Nat /\ SlotOf(id) \in Slot /\ id <= IdOf(SlotOf(id))
        /\ id # IdOf(SlotOf(id))
    BY DEF Known, Exists
  <2>2. IdOf(SlotOf(id)) \in Nat
    BY <2>1, IdOfSlot
  <2> QED
    BY <2>1, <2>2
<1>2. semmni \in Nat /\ SlotOf(id) < semmni /\ SlotOf(id) \in Nat /\ seq[SlotOf(id)] \in Nat
  BY <1>1, InfoAssumption DEF Slot
<1>3. SUFFICES ASSUME seq[SlotOf(id)] = 0 PROVE FALSE
  BY <1>2
<1>4. IdOf(SlotOf(id)) = SlotOf(id)
  BY <1>2, <1>3 DEF IdOf
<1>5. id < semmni /\ id < SlotOf(id)
  BY <1>1, <1>2, <1>4
<1>6. SlotOf(id) = id
  BY <1>1, <1>2, <1>5 DEF SlotOf
<1> QED
  BY <1>1, <1>5, <1>6

(* With GotoWaking. *)
LEMMA Woken ==
  ASSUME Types, NEW p \in Proc, NEW place \in Place, NEW queues, GotoWaking(p, place, queues)
  PROVE  /\ pc' \in [Proc -> Place]
         /\ pc'[p] = place
         /\ \A q \in Proc \ {p} : pc'[q] = pc[q] \/ (pc[q] = "asleep" /\ pc'[q] = "again")
         /\ \A q \in Proc \ {p} : pc'[q] = "asleep" => pc[q] = "asleep" /\ wait[q] \notin queues
<1>1. pc \in [Proc -> Place] /\ "again" \in Place
  BY DEF Types, Place
<1>2. pc' = [q \in Proc |-> CASE q = p -> place
                          [] q # p /\ pc[q] = "asleep" /\ wait[q] \in queues -> "again"
                          [] OTHER -> pc[q]]
  BY DEF GotoWaking
<1>3. \A q \in Proc : pc'[q] = CASE q = p -> place
                          [] q # p /\ pc[q] = "asleep" /\ wait[q] \in queues -> "again"
                          [] OTHER -> pc[q]
  BY <1>2
<1> HIDE DEF Place
<1>4. \A q \in Proc : pc'[q] \in Place
  BY <1>1, <1>3
<1>5. pc'[p] = place
  BY <1>3
<1>6. ASSUME NEW q \in Proc \ {p}
      PROVE  /\ pc'[q] = pc[q] \/ (pc[q] = "asleep" /\ pc'[q] = "again")
             /\ pc'[q] = "asleep" => pc[q] = "asleep" /\ wait[q] \notin queues
  BY <1>3
<1> QED
  BY <1>2, <1>4, <1>5, <1>6

LEMMA Gone ==
  ASSUME Types, NEW p \in Proc, NEW place \in Place, Goto(p, place)
  PROVE  /\ pc' \in [Proc -> Place]
         /\ pc'[p] = place
         /\ \A q \in Proc \ {p} : pc'[q] = pc[q]
BY DEF Types, Goto
-----------------------------------------------------------------------------
(* The steps of p in which no set is made or removed; with Quiet, no set is *)
(* freed either. *)

SetsStay == UNCHANGED <<live, seq, sem_base, sem_nsems, freemap, lost>>
Calm(p) ==
  /\ UNCHANGED <<live, seq, sem_base, sem_nsems>>
  /\ \A q \in Proc \ {p} :
       /\ semid'[q] = semid[q] /\ ops'[q] = ops[q] /\ wait'[q] = wait[q]
       /\ pc'[q] = pc[q] \/ (pc[q] = "asleep" /\ pc'[q] = "again")
  /\ pc'[p] \in Rm => pc[p] \in Rm /\ semid'[p] = semid[p]
  /\ pc[p] = "rmid" => \A q \in Proc : pc'[q] = "asleep" => semid[q] # semid[p]
  /\ \A s \in Slot : semid_lock[s] \notin {None, p} /\ semid_lock'[s] # semid_lock[s]
                       => ~live[s] /\ s \in Waiting
  /\ \A s \in Slot : semid_flag[s] /\ ~semid_flag'[s] => pc[p] = "setall" /\ SlotAt(p) = s
  /\ pc'[p] = "setall" => ~semid_flag[SlotOf(semid'[p])]
  /\ \A n \in Sem : \/ semval'[n] = semval[n] \/ semval'[n] = 0
                    \/ \E s \in Slot : live[s] /\ n \in SemsOf(s)
Quiet(p) ==
  /\ Calm(p) /\ SetsStay
  /\ pc[p] \in Rm => pc'[p] \in Rm

LEMMA QuietRemoving ==
  ASSUME NEW p \in Proc, Quiet(p), NEW s
  PROVE  Removing(s)' <=> Removing(s)
<1>1. \A q \in Proc : (pc'[q] \in Rm <=> pc[q] \in Rm) /\ (pc[q] \in Rm => semid'[q] = semid[q])
  BY DEF Quiet, Calm, Rm
<1> QED
  BY <1>1, Zenon DEF Removing, Rm, SlotOf

LEMMA QuietOccupied ==
  ASSUME NEW p \in Proc, Quiet(p), NEW s
  PROVE  /\ Occupied(s)' <=> Occupied(s)
         /\ SemsOf(s)' = SemsOf(s)
BY QuietRemoving DEF Occupied, Quiet, SetsStay, SemsOf

LEMMA QuietSets ==
  ASSUME MapInv, SetsInv, CoverInv, SeqInv, NEW p \in Proc, Quiet(p)
  PROVE  MapInv' /\ SetsInv' /\ CoverInv' /\ SeqInv'
<1>1. /\ freemap' = freemap /\ lost' = lost /\ live' = live /\ seq' = seq
      /\ sem_base' = sem_base /\ sem_nsems' = sem_nsems
  BY DEF Quiet, SetsStay
<1>2. MapInv' /\ SeqInv'
  BY <1>1 DEF MapInv, SeqInv
<1>3. \A s : (Occupied(s)' <=> Occupied(s)) /\ SemsOf(s)' = SemsOf(s)
  BY QuietOccupied
<1>4. SetsInv'
  BY <1>1, <1>3, Zenon DEF SetsInv
<1>5. CoverInv'
  BY <1>1, <1>3, Zenon DEF CoverInv
<1> QED
  BY <1>2, <1>4, <1>5

LEMMA QuietZero ==
  ASSUME Types, SetsInv, MapInv, ZeroInv, NEW p \in Proc, Quiet(p)
  PROVE  ZeroInv'
<1>1. SUFFICES ASSUME NEW n \in Units(freemap) PROVE semval'[n] = 0
  BY DEF ZeroInv, Quiet, SetsStay
<1>2. n \in Sem /\ semval[n] = 0
  BY <1>1 DEF ZeroInv, MapInv
<1>3. ASSUME NEW s \in Slot, live[s], n \in SemsOf(s) PROVE FALSE
  BY <1>1, <1>3 DEF SetsInv, Occupied
<1> QED
  BY <1>2, <1>3 DEF Quiet, Calm

LEMMA CalmOther ==
  ASSUME Types, ProcInv, OneInv, SetsInv, NEW p \in Proc, Calm(p), NEW q \in Proc \ {p}
  PROVE  WorkInv(q)' /\ SleepInv(q)' /\ RmInv(q)' /\ SetInv(q)'
<1>1. /\ live' = live /\ seq' = seq
      /\ sem_base' = sem_base /\ sem_nsems' = sem_nsems
      /\ semid'[q] = semid[q] /\ ops'[q] = ops[q] /\ wait'[q] = wait[q]
      /\ pc'[q] = pc[q] \/ (pc[q] = "asleep" /\ pc'[q] = "again")
  BY DEF Calm
<1> PICK id : id = semid[q]
  OBVIOUS
<1>a. semid[q] = id /\ semid'[q] = id
  BY <1>1
<1>2. /\ SlotAt(q)' = SlotAt(q)
      /\ Exists(id)' = Exists(id) /\ Known(id)' = Known(id)
      /\ Fits(q)' = Fits(q) /\ MayWait(q)' = MayWait(q) /\ WaitsInSet(q)' = WaitsInSet(q)
      /\ SemsOf(SlotAt(q))' = SemsOf(SlotAt(q))
  <2>1. SlotAt(q)' = SlotAt(q) /\ SlotAt(q) = SlotOf(id)
    BY <1>1, <1>a DEF SlotAt, SlotOf
  <2>2. Exists(id)' = Exists(id) /\ Known(id)' = Known(id)
    BY <1>1 DEF Exists, Known, IdOf, SlotOf
  <2>3. SemsOf(SlotAt(q))' = SemsOf(SlotAt(q))
    BY <1>1, <2>1 DEF SemsOf
  <2> QED
    BY <1>1, <2>1, <2>2, <2>3 DEF Fits, MayWait, WaitsInSet
<1>3. WorkInv(q) /\ SleepInv(q) /\ RmInv(q) /\ SetInv(q)
  BY DEF ProcInv
<1>4. q # None /\ q # p
  BY ProcAssumption
<1>5. WorkInv(q)'
  <2>1. SUFFICES ASSUME pc'[q] \in Working
                 PROVE  /\ SlotAt(q) \in Slot /\ Exists(id) /\ semid_lock'[SlotAt(q)] = q
                        /\ Fits(q) /\ MayWait(q)
                        /\ pc'[q] = "undo" /\ wait[q] # None => WaitsInSet(q)
    BY <1>1, <1>2, <1>a DEF WorkInv
  <2>2. pc'[q] = pc[q]
    BY <1>1, <2>1 DEF Working
  <2>3. /\ SlotAt(q) \in Slot /\ Exists(id) /\ semid_lock[SlotAt(q)] = q
        /\ Fits(q) /\ MayWait(q)
        /\ pc[q] = "undo" /\ wait[q] # None => WaitsInSet(q)
    BY <2>1, <2>2, <1>3, <1>a DEF WorkInv
  <2>4. live[SlotAt(q)]
    BY <2>3, <1>a DEF Exists, SlotAt
  <2>5. semid_lock'[SlotAt(q)] = q
    BY <2>3, <2>4, <1>4 DEF Calm
  <2> QED
    BY <2>2, <2>3, <2>5
<1>6. SleepInv(q)'
  <2>1. SUFFICES ASSUME pc'[q] \in {"asleep", "again"}
                 PROVE  /\ Known(id) /\ SlotAt(q) \in Waiting
                        /\ Exists(id) => Fits(q)
                        /\ pc'[q] = "asleep" => /\ WaitsInSet(q)
                                                /\ Exists(id) \/ BeingRemoved(id)'
    BY <1>2, <1>a DEF SleepInv
  <2>2. /\ pc[q] \in {"asleep", "again"}
        /\ pc'[q] = "asleep" => pc[q] = "asleep"
    BY <1>1, <2>1
  <2>3. /\ Known(id) /\ SlotAt(q) \in Waiting
        /\ Exists(id) => Fits(q)
        /\ pc[q] = "asleep" => /\ WaitsInSet(q)
                               /\ Exists(id) \/ BeingRemoved(id)
    BY <2>2, <1>3, <1>a DEF SleepInv
  <2>4. ASSUME pc'[q] = "asleep", BeingRemoved(id) PROVE BeingRemoved(id)'
    <3>1. PICK r \in Proc : pc[r] = "rmid" /\ semid[r] = id
      BY <2>4 DEF BeingRemoved
    <3>2. r # p
      BY <2>4, <3>1, <1>a DEF Calm
    <3>3. pc'[r] = "rmid" /\ semid'[r] = id
      BY <3>1, <3>2, <1>a DEF Calm
    <3> QED
      BY <3>3 DEF BeingRemoved
  <2> QED
    BY <2>2, <2>3, <2>4
<1>7. RmInv(q)'
  <2>1. SUFFICES ASSUME pc'[q] \in Rm
                 PROVE  /\ SlotAt(q) \in Removable /\ ~live[SlotAt(q)] /\ seq[SlotAt(q)] > 0
                        /\ semid_lock'[SlotAt(q)] = q \/ SlotAt(q) \in Waiting
                        /\ pc'[q] = "rmfree" => \A n \in SemsOf(SlotAt(q)) : semval'[n] = 0
    BY <1>1, <1>2 DEF RmInv
  <2>2. pc'[q] = pc[q] /\ pc[q] \in Rm
    BY <1>1, <2>1 DEF Rm
  <2>3. /\ SlotAt(q) \in Removable /\ ~live[SlotAt(q)] /\ seq[SlotAt(q)] > 0
        /\ semid_lock[SlotAt(q)] = q \/ SlotAt(q) \in Waiting
        /\ pc[q] = "rmfree" => \A n \in SemsOf(SlotAt(q)) : semval[n] = 0
    BY <2>2, <1>3 DEF RmInv
  <2>4. SlotAt(q) \in Slot
    BY <2>3, CallAssumption
  <2>5. semid_lock'[SlotAt(q)] = q \/ SlotAt(q) \in Waiting
    BY <2>3, <2>4, <1>4 DEF Calm
  <2>6. ASSUME pc'[q] = "rmfree", NEW n \in SemsOf(SlotAt(q)) PROVE semval'[n] = 0
    <3>1. Occupied(SlotAt(q))
      BY <2>2 DEF Occupied, Removing, Rm, SlotAt
    <3>2. n \in Sem
      BY <2>4, <2>6, <3>1 DEF SetsInv
    <3>3. ASSUME NEW s \in Slot, live[s], n \in SemsOf(s) PROVE FALSE
      <4>1. s # SlotAt(q) /\ Occupied(s)
        BY <2>3, <3>3 DEF Occupied
      <4> QED
        BY <2>4, <2>6, <3>1, <3>3, <4>1 DEF SetsInv
    <3>4. semval[n] = 0
      BY <2>2, <2>3, <2>6
    <3> QED
      BY <3>2, <3>3, <3>4 DEF Calm
  <2> QED
    BY <2>3, <2>5, <2>6
<1>8. SetInv(q)'
  <2>1. SUFFICES ASSUME pc'[q] = "setall"
                 PROVE  SlotAt(q) \in Slot /\ Exists(id) /\ semid_flag'[SlotAt(q)]
    BY <1>1, <1>2, <1>a DEF SetInv
  <2>2. pc[q] = "setall"
    BY <2>1, <1>1
  <2>3. SlotAt(q) \in Slot /\ Exists(id) /\ semid_flag[SlotAt(q)]
    BY <2>2, <1>3, <1>a DEF SetInv
  <2>4. ASSUME pc[p] = "setall", SlotAt(p) = SlotAt(q) PROVE FALSE
    BY <2>2, <2>4 DEF OneInv
  <2> QED
    BY <2>3, <2>4 DEF Calm
<1> QED
  BY <1>5, <1>6, <1>7, <1>8

LEMMA CalmOne ==
  ASSUME ProcInv, OneInv, ProcInv', NEW p \in Proc, Calm(p)
  PROVE  OneInv'
<1>1. SUFFICES ASSUME NEW q \in Proc, NEW r \in Proc, SlotAt(q)' = SlotAt(r)',
                      \/ pc'[q] \in Rm /\ pc'[r] \in Rm
                      \/ pc'[q] = "setall" /\ pc'[r] = "setall"
               PROVE  q = r
  BY DEF OneInv
<1>2. CASE pc'[q] \in Rm /\ pc'[r] \in Rm
  <2>1. ASSUME NEW x \in Proc, pc'[x] \in Rm PROVE pc[x] \in Rm /\ semid'[x] = semid[x]
    BY <2>1 DEF Calm, Rm
  <2>2. /\ pc[q] \in Rm /\ semid'[q] = semid[q]
        /\ pc[r] \in Rm /\ semid'[r] = semid[r]
    BY <1>2, <2>1
  <2>3. SlotAt(q) = SlotAt(r)
    BY <1>1, <2>2 DEF SlotAt, SlotOf
  <2> QED
    BY <2>2, <2>3 DEF OneInv
<1>3. CASE pc'[q] = "setall" /\ pc'[r] = "setall"
  <2>1. ASSUME NEW x \in Proc \ {p}, pc'[x] = "setall"
        PROVE  /\ pc[x] = "setall" /\ SlotAt(x)' = SlotAt(x)
               /\ SlotAt(x) \in Slot /\ semid_flag[SlotAt(x)]
    <3>1. pc[x] = "setall" /\ semid'[x] = semid[x]
      BY <2>1 DEF Calm
    <3> QED
      BY <3>1 DEF ProcInv, SetInv, SlotAt, SlotOf
  <2>2. ASSUME NEW x \in Proc \ {p}, pc'[x] = "setall", pc'[p] = "setall", SlotAt(x)' = SlotAt(p)'
        PROVE  FALSE
    <3>1. ~semid_flag[SlotAt(p)']
      BY <2>2 DEF Calm, SlotAt, SlotOf
    <3> QED
      BY <2>1, <2>2, <3>1
  <2>3. CASE q = p \/ r = p
    BY <1>1, <1>3, <2>2, <2>3
  <2>4. CASE q # p /\ r # p
    BY <1>1, <1>3, <2>1, <2>4 DEF OneInv
  <2> QED
    BY <2>3, <2>4
<1> QED
  BY <1>1, <1>2, <1>3

LEMMA CalmEntries ==
  ASSUME NEW p \in Proc, Calm(p)
  PROVE  /\ GoodEntry' = GoodEntry
         /\ \A id : Exists(id)' = Exists(id) /\ Known(id)' = Known(id)
BY DEF Calm, GoodEntry, Exists, Known, IdOf, SlotOf

LEMMA QuietStep ==
  ASSUME IInv, NEW p \in Proc, Quiet(p), Types',
         un_ent' \in [Proc -> Seq(GoodEntry)],
         WorkInv(p)' /\ SleepInv(p)' /\ RmInv(p)' /\ SetInv(p)'
  PROVE  IInv'
<1>1. EntryInv'
  BY CalmEntries DEF Quiet, EntryInv
<1>2. \A q \in Proc \ {p} : WorkInv(q)' /\ SleepInv(q)' /\ RmInv(q)' /\ SetInv(q)'
  BY CalmOther DEF Quiet, IInv
<1>3. ProcInv'
  BY <1>2 DEF ProcInv
<1>4. OneInv'
  BY <1>3, CalmOne DEF Quiet, IInv
<1>5. MapInv' /\ SetsInv' /\ CoverInv' /\ SeqInv'
  BY QuietSets DEF IInv
<1>6. ZeroInv'
  BY QuietZero DEF IInv
<1> QED
  BY <1>1, <1>3, <1>4, <1>5, <1>6 DEF IInv
-----------------------------------------------------------------------------
(* Undo entries. *)

LEMMA KeptSeq ==
  ASSUME NEW T, NEW entries \in Seq(T), NEW id, NEW low, NEW high
  PROVE  Kept(entries, id, low, high) \in Seq(T)
<1> DEFINE other(e) == e.id # id \/ e.num < low \/ e.num > high
           N == Len(entries)
           IsKept(f) == f = [k \in 0 .. N |->
             IF k = 0 THEN <<>>
             ELSE IF other(entries[k]) THEN Append(f[k - 1], entries[k]) ELSE f[k - 1]]
           Q == Seq(T)
           S == [k \in 0 .. N |-> Q]
           F == [x \in Q \X (1 .. N) |->
                  IF other(entries[x[2]]) THEN Append(x[1], entries[x[2]]) ELSE x[1]]
<1>1. N \in Nat /\ \A k \in 1 .. N : entries[k] \in T
  BY LenProperties, ElementOfSeq
<1>2. \A x \in Q, k \in 1 .. N :
        /\ F[<<x, k>>] = IF other(entries[k]) THEN Append(x, entries[k]) ELSE x
        /\ F[<<x, k>>] \in Q /\ Append(x, entries[k]) \in Q
  BY <1>1, AppendProperties
<1>3. <<>> \in Q /\ \A k \in 0 .. N : S[k] = Q
  OBVIOUS
<1> HIDE DEF other, F, S, N, Q
<1>4. PICK g : Computes(g, S, N, <<>>, F)
  <2>1. <<>> \in S[0] /\ \A k \in 1 .. N : \A x \in S[k - 1] : F[<<x, k>>] \in S[k]
    BY <1>1, <1>2, <1>3
  <2> QED
    BY <1>1, <2>1, Recursion
<1>5. IsKept(g)
  <2>1. ASSUME NEW k \in 0 .. N
        PROVE  g[k] = IF k = 0 THEN <<>>
                      ELSE IF other(entries[k]) THEN Append(g[k - 1], entries[k]) ELSE g[k - 1]
    <3>1. CASE k = 0
      BY <3>1, <1>4 DEF Computes
    <3>2. CASE k # 0
      <4>1. k \in 1 .. N /\ k - 1 \in 0 .. N
        BY <3>2, <1>1
      <4>2. g[k - 1] \in Q /\ g[k] = F[<<g[k - 1], k>>]
        BY <4>1, <1>3, <1>4 DEF Computes
      <4> QED
        BY <3>2, <4>1, <4>2, <1>2
    <3> QED
      BY <3>1, <3>2
  <2> QED
    BY <2>1, <1>4 DEF Computes
<1>6. PICK f : IsKept(f) /\ Kept(entries, id, low, high) = f[N]
  BY <1>5 DEF Kept, other, N
<1>7. \A k \in 0 .. N : f[k] \in S[k]
  <2>1. f[0] \in S[0]
    BY <1>1, <1>3, <1>6
  <2>2. ASSUME NEW k \in 1 .. N, f[k - 1] \in S[k - 1] PROVE f[k] \in S[k]
    <3>1. k \in 0 .. N /\ k - 1 \in 0 .. N /\ k # 0
      BY <1>1
    <3>2. f[k] = IF other(entries[k]) THEN Append(f[k - 1], entries[k]) ELSE f[k - 1]
      BY <3>1, <1>6
    <3>3. f[k - 1] \in Q /\ S[k] = Q
      BY <2>2, <3>1, <1>3
    <3> QED
      BY <3>2, <3>3, <1>2
  <2> QED
    BY <1>1, <2>1, <2>2, StaysIn
<1>8. N \in 0 .. N
  BY <1>1
<1>9. f[N] \in Q
  BY <1>3, <1>7, <1>8
<1> QED
  BY <1>6, <1>9 DEF Q

(* semunrm() *)
LEMMA RemovedEntries ==
  ASSUME NEW T, un_ent \in [Proc -> Seq(T)], NEW id, NEW low, NEW high, semunrm(id, low, high)
  PROVE  un_ent' \in [Proc -> Seq(T)]
BY KeptSeq DEF semunrm

(* What SelectInSeq finds. *)
LEMMA EntryFound ==
  ASSUME NEW p \in Proc, un_ent[p] \in Seq(Entries), NEW id, NEW num
  PROVE  /\ Entry(p, id, num) \in 0 .. Len(un_ent[p])
         /\ Entry(p, id, num) # 0 => /\ un_ent[p][Entry(p, id, num)].id = id
                                     /\ un_ent[p][Entry(p, id, num)].num = num
<1> DEFINE I == {k \in 1 .. Len(un_ent[p]) : un_ent[p][k].id = id /\ un_ent[p][k].num = num}
<1>1. Len(un_ent[p]) \in Nat
  BY LenProperties
<1>2. Entry(p, id, num) = IF I # {} THEN Min(I) ELSE 0
  BY DEF Entry, SelectInSeq
<1>3. I \in SUBSET Nat
  BY <1>1
<1>4. CASE I # {}
  <2>1. Min(I) \in I
    <3> HIDE DEF I
    <3> QED
      BY <1>3, <1>4, MinNat
  <2> QED
    BY <1>2, <1>4, <2>1
<1>5. CASE I = {}
  BY <1>1, <1>2, <1>5
<1> QED
  BY <1>4, <1>5

LEMMA EntryExcept ==
  ASSUME NEW e \in Entries, NEW val \in Int
  PROVE  [e EXCEPT !.aoe = @ - val] = [id |-> e.id, num |-> e.num, aoe |-> e.aoe - val]
BY DEF Entries

(* semaoe() *)
LEMMA AddedEntry ==
  ASSUME NEW T \in SUBSET Entries, un_ent \in [Proc -> Seq(T)], NEW p \in Proc,
         NEW val \in Int, NEW id \in Nat, NEW num \in Nat,
         \A a \in Int : [id |-> id, num |-> num, aoe |-> a] \in T,
         semaoe(p, val, id, num)
  PROVE  un_ent' \in [Proc -> Seq(T)]
<1> DEFINE k == Entry(p, id, num)
           q == un_ent[p]
           I == {j \in 1 .. Len(q) : q[j].id > id \/ (q[j].id = id /\ q[j].num > num)}
           later == SelectInSeq(un_ent[p], LAMBDA e : e.id > id \/ (e.id = id /\ e.num > num))
           at == IF later = 0 THEN Len(un_ent[p]) + 1 ELSE later
           entries == CASE k = 0 -> InsertAt(un_ent[p], at, [id |-> id, num |-> num, aoe |-> -val])
                   [] k # 0 /\ un_ent[p][k].aoe = val -> RemoveAt(un_ent[p], k)
                   [] OTHER -> [un_ent[p] EXCEPT ![k].aoe = @ - val]
<1>1. q \in Seq(T) /\ q \in Seq(Entries) /\ Len(q) \in Nat /\ \A j \in 1 .. Len(q) : q[j] \in T
  BY SeqMonotonic, LenProperties, ElementOfSeq
<1>2. un_ent' = [un_ent EXCEPT ![p] = entries]
  BY DEF semaoe
<1>3. k \in 0 .. Len(q) /\ (k # 0 => q[k].id = id /\ q[k].num = num)
  BY <1>1, EntryFound
<1>4. later = IF I # {} THEN Min(I) ELSE 0
  BY DEF SelectInSeq
<1> HIDE DEF k, later
<1>5. at \in 1 .. Len(q) + 1
  <2>1. CASE I = {}
    BY <2>1, <1>1, <1>4
  <2>2. CASE I # {}
    <3>1. I \in SUBSET Nat
      BY <1>1
    <3>2. Min(I) \in I
      <4> HIDE DEF I
      <4> QED
        BY <2>2, <3>1, MinNat
    <3> QED
      BY <2>2, <3>2, <1>1, <1>4
  <2> QED
    BY <2>1, <2>2
<1> HIDE DEF at
<1>6. CASE k = 0
  <2>1. -val \in Int
    OBVIOUS
  <2>2. [id |-> id, num |-> num, aoe |-> -val] \in T
    BY <2>1
  <2>3. InsertAt(q, at, [id |-> id, num |-> num, aoe |-> -val]) \in Seq(T)
    BY <1>1, <1>5, <2>2, InsertAtProperties
  <2> QED
    BY <1>2, <1>6, <2>3
<1>7. CASE k # 0
  <2>1. k \in 1 .. Len(q)
    BY <1>3, <1>7
  <2>2. RemoveAt(q, k) \in Seq(T)
    BY <1>1, <2>1, RemoveAtProperties
  <2>3. [q EXCEPT ![k].aoe = @ - val] \in Seq(T)
    <3>1. PICK e \in T : e = q[k]
      BY <1>1, <2>1
    <3>2. e \in Entries /\ e.id = id /\ e.num = num /\ e.aoe \in Int
      BY <3>1, <1>3, <1>7 DEF Entries
    <3>3. [e EXCEPT !.aoe = @ - val] = [id |-> id, num |-> num, aoe |-> e.aoe - val]
      BY <3>2, EntryExcept
    <3>4. [e EXCEPT !.aoe = @ - val] \in T
      BY <3>2, <3>3
    <3>5. PICK d \in T : d = [e EXCEPT !.aoe = @ - val]
      BY <3>4
    <3>6. [q EXCEPT ![k].aoe = @ - val] = [q EXCEPT ![k] = d]
      BY <3>1, <3>5
    <3>7. [q EXCEPT ![k] = d] \in Seq(T)
      <4> HIDE DEF q
      <4> QED
        BY <1>1, <2>1, ExceptSeq
    <3> QED
      BY <3>6, <3>7
  <2> QED
    BY <1>2, <1>7, <2>2, <2>3
<1> QED
  BY <1>6, <1>7
-----------------------------------------------------------------------------
(* What a step does to the process that makes it. *)

LEMMA AtRest ==
  ASSUME NEW p \in Proc, pc'[p] \in {"idle", "exit"}
  PROVE  WorkInv(p)' /\ SleepInv(p)' /\ RmInv(p)' /\ SetInv(p)'
BY DEF WorkInv, SleepInv, RmInv, SetInv, Working, Rm

LEMMA Forgotten ==
  ASSUME Types, NEW p \in Proc, Forget(p)
  PROVE  /\ semid' \in [Proc -> Nat] /\ i' \in [Proc -> Nat]
         /\ ops' \in [Proc -> Seq(Op)]
         /\ wait' \in [Proc -> {None} \cup (Queue \X Nat)]
         /\ \A q \in Proc \ {p} : semid'[q] = semid[q] /\ ops'[q] = ops[q] /\ wait'[q] = wait[q]
<1>1. <<>> \in Seq(Op) /\ 0 \in Nat
  OBVIOUS
<1> HIDE DEF Op
<1> QED
  BY <1>1 DEF Types, Forget

LEMMA AtWork ==
  ASSUME IInv, NEW p \in Proc, pc[p] \in Working
  PROVE  /\ SlotAt(p) \in Slot /\ semid[p] \in Nat /\ Exists(semid[p]) /\ live[SlotAt(p)]
         /\ semid_lock[SlotAt(p)] = p /\ Known(semid[p])
         /\ SemsOf(SlotAt(p)) \subseteq Sem
<1>1. SlotAt(p) \in Slot /\ Exists(semid[p]) /\ semid_lock[SlotAt(p)] = p
  BY DEF IInv, ProcInv, WorkInv
<1>2. semid[p] \in Nat /\ seq \in [Slot -> Nat]
  BY DEF IInv, Types
<1>3. live[SlotAt(p)] /\ IdOf(SlotAt(p)) = semid[p]
  BY <1>1 DEF Exists, SlotAt
<1>4. Known(semid[p])
  BY <1>1, <1>2, <1>3 DEF Known, SlotAt
<1>5. SemsOf(SlotAt(p)) \subseteq Sem
  BY <1>1, <1>3 DEF IInv, SetsInv, Occupied
<1> QED
  BY <1>1, <1>2, <1>3, <1>4, <1>5

LEMMA AtOperation ==
  ASSUME IInv, NEW p \in Proc, pc[p] \in Working, i[p] \in DOMAIN ops[p]
  PROVE  /\ Current(p) \in Op /\ Current(p).num \in Nat /\ Current(p).op \in Int
         /\ Current(p).num < sem_nsems[SlotAt(p)]
         /\ SlotAt(p) \in Waiting \/ Current(p).nowait
         /\ CurrentSem(p) \in SemsOf(SlotAt(p))
         /\ CurrentSem(p) \in Sem /\ CurrentSem(p) \in Nat /\ semval[CurrentSem(p)] \in Int
         /\ i[p] \in Nat \ {0} /\ i[p] <= Len(ops[p])
<1>1. ops[p] \in Seq(Op) /\ i[p] \in Nat
  BY DEF IInv, Types
<1> HIDE DEF Op
<1>2. i[p] \in 1 .. Len(ops[p]) /\ Len(ops[p]) \in Nat
  BY <1>1, LenProperties
<1>3. Current(p) \in Op
  BY <1>1, <1>2, ElementOfSeq DEF Current
<1>4. Fits(p) /\ MayWait(p)
  BY DEF IInv, ProcInv, WorkInv
<1>5. /\ Current(p).num < sem_nsems[SlotAt(p)]
      /\ SlotAt(p) \in Waiting \/ Current(p).nowait
  BY <1>2, <1>4 DEF Fits, MayWait, Current
<1>6. Current(p).num \in Nat /\ Current(p).op \in Int
  BY <1>3 DEF Op
<1>7. /\ sem_base[SlotAt(p)] \in Nat /\ sem_nsems[SlotAt(p)] \in Nat
      /\ SlotAt(p) \in Slot /\ SemsOf(SlotAt(p)) \subseteq Sem
  BY AtWork DEF IInv, Types
<1>8. CurrentSem(p) = sem_base[SlotAt(p)] + Current(p).num
  BY DEF CurrentSem, SemOf, SlotAt
<1>9. CurrentSem(p) \in SemsOf(SlotAt(p)) /\ CurrentSem(p) \in Nat
  BY <1>5, <1>6, <1>7, <1>8 DEF SemsOf
<1>10. semval[CurrentSem(p)] \in Int
  BY <1>7, <1>9 DEF IInv, Types
<1> QED
  BY <1>2, <1>3, <1>5, <1>6, <1>7, <1>9, <1>10

LEMMA BeginStep ==
  ASSUME IInv, NEW p \in Proc, pc[p] \in {"idle", "again"},
         NEW id \in Nat, SlotOf(id) \in Slot, semconv(id),
         NEW list \in Seq(Op), \A k \in 1 .. Len(list) : list[k].num < sem_nsems[SlotOf(id)],
         SlotOf(id) \in Waiting \/ \A k \in 1 .. Len(list) : list[k].nowait,
         Begin(p, id, list)
  PROVE  IInv'
<1>1. /\ SetsStay /\ semid_flag' = semid_flag /\ semval' = semval /\ un_ent' = un_ent
      /\ semid' = [semid EXCEPT ![p] = id] /\ ops' = [ops EXCEPT ![p] = list]
      /\ i' = [i EXCEPT ![p] = 1] /\ wait' = [wait EXCEPT ![p] = None]
      /\ semid_lock' = [semid_lock EXCEPT ![SlotOf(id)] = p]
      /\ Goto(p, "ops")
      /\ Exists(id) /\ semid_lock[SlotOf(id)] = None /\ ~semid_flag[SlotOf(id)]
  BY DEF Begin, undoVars, SetsStay, Lock, semconv
<1>2. Types
  BY DEF IInv
<1>3. /\ pc' \in [Proc -> Place] /\ pc'[p] = "ops"
      /\ \A q \in Proc \ {p} : pc'[q] = pc[q]
  BY <1>1, <1>2, Gone DEF Place, Working
<1>4. /\ semid'[p] = id /\ ops'[p] = list /\ wait'[p] = None
      /\ semid_lock'[SlotOf(id)] = p
      /\ \A s \in Slot : s # SlotOf(id) => semid_lock'[s] = semid_lock[s]
      /\ \A q \in Proc \ {p} : semid'[q] = semid[q] /\ ops'[q] = ops[q] /\ wait'[q] = wait[q]
  BY <1>1, <1>2 DEF Types
<1>5. Types'
  <2> HIDE DEF Op
  <2> QED
    BY <1>1, <1>2, <1>3 DEF Types, SetsStay
<1>6. Quiet(p)
  BY <1>1, <1>3, <1>4 DEF Quiet, Calm, SetsStay, Rm
<1>7. un_ent' \in [Proc -> Seq(GoodEntry)]
  BY <1>1 DEF IInv, EntryInv
<1>8. WorkInv(p)'
  <2>1. SlotAt(p)' = SlotOf(id)
    BY <1>4 DEF SlotAt, SlotOf
  <2>2. Exists(id)'
    BY <1>1, <1>6, CalmEntries DEF Quiet
  <2>3. Fits(p)' /\ MayWait(p)'
    BY <2>1, <1>1, <1>4 DEF Fits, MayWait, SetsStay
  <2> QED
    BY <2>1, <2>2, <2>3, <1>3, <1>4 DEF WorkInv
<1>9. SleepInv(p)' /\ RmInv(p)' /\ SetInv(p)'
  BY <1>3 DEF SleepInv, RmInv, SetInv, Rm
<1> QED
  BY <1>5, <1>6, <1>7, <1>8, <1>9, QuietStep

LEMMA semopStep ==
  ASSUME IInv, NEW p \in Proc, semop(p)
  PROVE  IInv'
<1>1. PICK s \in Slot, list \in OpLists :
        /\ live[s] /\ semconv(IdOf(s))
        /\ \A k \in DOMAIN list : list[k].num < sem_nsems[s]
        /\ s \in Waiting \/ \A k \in DOMAIN list : list[k].nowait
        /\ Begin(p, IdOf(s), list)
  BY DEF semop
<1>2. list \in Seq(Op) /\ DOMAIN list = 1 .. Len(list)
  BY CallAssumption, LenProperties
<1>3. IdOf(s) \in Nat /\ SlotOf(IdOf(s)) = s
  BY IdOfSlot DEF IInv, Types
<1>4. pc[p] = "idle"
  BY DEF semop
<1> HIDE DEF Op
<1> QED
  BY <1>1, <1>2, <1>3, <1>4, BeginStep

(* Awake, p knows the set or finds it gone; it gives up a lock then that   *)
(* at most the call that removes the set holds. *)
LEMMA AgainStep ==
  ASSUME Waiting \cap Removable \cap Reused = {}, IInv, NEW p \in Proc, Again(p)
  PROVE  IInv'
<1>1. pc[p] = "again" /\ Types
  BY DEF Again, IInv
<1>2. /\ Known(semid[p]) /\ SlotAt(p) \in Waiting
      /\ Exists(semid[p]) => Fits(p)
  BY <1>1 DEF IInv, ProcInv, SleepInv
<1>3. semid[p] \in Nat /\ SlotOf(semid[p]) \in Slot /\ SlotAt(p) = SlotOf(semid[p])
  BY <1>2 DEF Known, SlotAt
<1>4. CASE semconv(semid[p]) /\ Begin(p, semid[p], ops[p])
  <2>1. ops[p] \in Seq(Op)
    BY <1>1 DEF Types
  <2>2. \A k \in 1 .. Len(ops[p]) : ops[p][k].num < sem_nsems[SlotOf(semid[p])]
    BY <1>2, <1>3, <1>4 DEF Fits, semconv
  <2> HIDE DEF Op
  <2> QED
    BY <2>1, <2>2, <1>1, <1>2, <1>3, <1>4, BeginStep
<1>5. CASE /\ ~Exists(semid[p])
           /\ Lock(SlotOf(semid[p]), None)
           /\ Goto(p, "idle") /\ Forget(p)
           /\ UNCHANGED <<live, seq, sem_base, sem_nsems, semid_flag, freemap, lost,
                          semval, undoVars, net>>
  <2>1. /\ SetsStay /\ semid_flag' = semid_flag /\ semval' = semval /\ un_ent' = un_ent
        /\ semid_lock' = [semid_lock EXCEPT ![SlotAt(p)] = None]
    BY <1>5, <1>3 DEF SetsStay, undoVars, Lock
  <2>2. /\ pc' \in [Proc -> Place] /\ pc'[p] = "idle"
        /\ \A q \in Proc \ {p} : pc'[q] = pc[q]
    BY <1>1, <1>5, Gone DEF Place
  <2>3. /\ semid' \in [Proc -> Nat] /\ i' \in [Proc -> Nat]
        /\ ops' \in [Proc -> Seq(Op)]
        /\ wait' \in [Proc -> {None} \cup (Queue \X Nat)]
        /\ \A q \in Proc \ {p} : semid'[q] = semid[q] /\ ops'[q] = ops[q] /\ wait'[q] = wait[q]
    BY <1>1, <1>5, Forgotten
  <2>4. Types'
    <3> HIDE DEF Op
    <3> QED
      BY <1>1, <2>1, <2>2, <2>3 DEF Types, SetsStay
  <2>5. ~live[SlotAt(p)]
    <3>1. seq[SlotAt(p)] > 0
      BY <1>1, <1>2, <1>3, <1>5, GoneId DEF Types
    <3>2. SlotAt(p) \in Removable /\ (live[SlotAt(p)] => SlotAt(p) \in Reused)
      BY <1>3, <3>1 DEF IInv, SeqInv
    <3> QED
      BY <1>2, <3>2
  <2>6. \A s \in Slot : s # SlotAt(p) => semid_lock'[s] = semid_lock[s]
    BY <1>1, <2>1 DEF Types
  <2>7. Quiet(p)
    BY <1>1, <1>2, <2>1, <2>2, <2>3, <2>5, <2>6 DEF Quiet, Calm, SetsStay, Rm
  <2>8. un_ent' \in [Proc -> Seq(GoodEntry)]
    BY <2>1 DEF IInv, EntryInv
  <2> QED
    BY <2>2, <2>4, <2>7, <2>8, AtRest, QuietStep
<1> QED
  BY <1>4, <1>5 DEF Again

LEMMA InterruptStep ==
  ASSUME IInv, NEW p \in Proc, Interrupt(p)
  PROVE  IInv'
<1>1. /\ SetsStay /\ semid_flag' = semid_flag /\ semval' = semval /\ un_ent' = un_ent
      /\ semid_lock' = semid_lock
      /\ pc[p] = "asleep" /\ Goto(p, "idle") /\ Forget(p) /\ Types
  BY DEF Interrupt, setVars, SetsStay, undoVars, IInv
<1>2. /\ pc' \in [Proc -> Place] /\ pc'[p] = "idle"
      /\ \A q \in Proc \ {p} : pc'[q] = pc[q]
  BY <1>1, Gone DEF Place
<1>3. /\ semid' \in [Proc -> Nat] /\ i' \in [Proc -> Nat]
      /\ ops' \in [Proc -> Seq(Op)]
      /\ wait' \in [Proc -> {None} \cup (Queue \X Nat)]
      /\ \A q \in Proc \ {p} : semid'[q] = semid[q] /\ ops'[q] = ops[q] /\ wait'[q] = wait[q]
  BY <1>1, Forgotten
<1>4. Types'
  <2> HIDE DEF Op
  <2> QED
    BY <1>1, <1>2, <1>3 DEF Types, SetsStay
<1>5. Quiet(p)
  BY <1>1, <1>2, <1>3 DEF Quiet, Calm, SetsStay, Rm
<1>6. un_ent' \in [Proc -> Seq(GoodEntry)]
  BY <1>1 DEF IInv, EntryInv
<1> QED
  BY <1>2, <1>4, <1>5, <1>6, AtRest, QuietStep

(* The semaphores and entries of its set change while p works on it; it    *)
(* does not leave its place. *)
LEMMA WorkStep ==
  ASSUME IInv, NEW p \in Proc, pc[p] \in Working, pc'[p] \in Working,
         UNCHANGED <<setVars, semid, ops>>, Types',
         \A q \in Proc \ {p} : /\ pc'[q] = pc[q] \/ (pc[q] = "asleep" /\ pc'[q] = "again")
                               /\ wait'[q] = wait[q],
         \A n \in Sem : semval'[n] = semval[n] \/ n \in SemsOf(SlotAt(p)),
         un_ent' \in [Proc -> Seq(GoodEntry)],
         pc'[p] = "undo" /\ wait'[p] # None =>
           SlotAt(p) \in Waiting /\ wait'[p] \in Queue \X SemsOf(SlotAt(p))
  PROVE  IInv'
<1>1. /\ SetsStay /\ semid_flag' = semid_flag /\ semid_lock' = semid_lock
      /\ semid' = semid /\ ops' = ops
  BY DEF setVars, SetsStay
<1>2. /\ SlotAt(p) \in Slot /\ semid[p] \in Nat /\ Exists(semid[p]) /\ live[SlotAt(p)]
      /\ semid_lock[SlotAt(p)] = p
  BY AtWork
<1>3. pc[p] \notin Rm \cup {"setall"} /\ pc'[p] \notin Rm \cup {"setall", "asleep", "again"}
  BY DEF Working, Rm
<1>4. Quiet(p)
  BY <1>1, <1>2, <1>3 DEF Quiet, Calm, SetsStay, Rm
<1>5. WorkInv(p)'
  <2> PICK id : id = semid[p]
    OBVIOUS
  <2>1. SlotAt(p)' = SlotAt(p) /\ semid'[p] = id
    BY <1>1 DEF SlotAt, SlotOf
  <2>2. Exists(id)'
    BY <1>2, <1>4, CalmEntries DEF Quiet
  <2>3. Fits(p)' /\ MayWait(p)'
    <3>1. Fits(p) /\ MayWait(p)
      BY DEF IInv, ProcInv, WorkInv
    <3> QED
      BY <3>1, <2>1, <1>1 DEF Fits, MayWait, SetsStay
  <2>4. pc'[p] = "undo" /\ wait'[p] # None => WaitsInSet(p)'
    BY <2>1, <1>1 DEF WaitsInSet, SemsOf, SetsStay
  <2> QED
    BY <2>1, <2>2, <2>3, <2>4, <1>1, <1>2 DEF WorkInv
<1>6. SleepInv(p)' /\ RmInv(p)' /\ SetInv(p)'
  BY <1>3 DEF SleepInv, RmInv, SetInv
<1> QED
  BY <1>4, <1>5, <1>6, QuietStep

LEMMA PushFirstStep ==
  ASSUME IInv, NEW p \in Proc, PushFirst(p)
  PROVE  IInv'
<1>1. /\ pc[p] \in Working
      /\ UNCHANGED <<setVars, semval, un_ent, pc, semid, ops, i, wait>>
  BY DEF PushFirst, AtOp, Push, Working
<1>2. Types'
  BY <1>1 DEF IInv, Types, setVars
<1>3. un_ent' \in [Proc -> Seq(GoodEntry)]
  BY <1>1 DEF IInv, EntryInv
<1>4. pc[p] = "undo" /\ wait[p] # None =>
           SlotAt(p) \in Waiting /\ wait[p] \in Queue \X SemsOf(SlotAt(p))
  BY <1>1 DEF IInv, ProcInv, WorkInv, WaitsInSet
<1> QED
  BY <1>1, <1>2, <1>3, <1>4, WorkStep

(* An entry for a semaphore of p's set. *)
LEMMA OwnEntry ==
  ASSUME IInv, NEW p \in Proc, pc[p] \in Working, i[p] \in DOMAIN ops[p], NEW val \in Int,
         semaoe(p, val, semid[p], Current(p).num)
  PROVE  un_ent' \in [Proc -> Seq(GoodEntry)]
<1>1. /\ semid[p] \in Nat /\ Exists(semid[p]) /\ Known(semid[p])
      /\ SlotOf(semid[p]) = SlotAt(p)
  BY AtWork DEF SlotAt
<1>2. Current(p).num \in Nat /\ Current(p).num < sem_nsems[SlotAt(p)]
  BY AtOperation
<1>3. \A a \in Int : [id |-> semid[p], num |-> Current(p).num, aoe |-> a] \in GoodEntry
  BY <1>1, <1>2 DEF GoodEntry, Entries
<1>4. GoodEntry \in SUBSET Entries /\ un_ent \in [Proc -> Seq(GoodEntry)]
  BY DEF GoodEntry, IInv, EntryInv
<1> HIDE DEF GoodEntry, Entries
<1> QED
  BY <1>1, <1>2, <1>3, <1>4, AddedEntry

LEMMA DoStep ==
  ASSUME IInv, NEW p \in Proc, Do(p)
  PROVE  IInv'
<1> DEFINE op == Current(p)
           n == CurrentSem(p)
           val == semval[n] + op.op
<1>1. /\ pc[p] = "ops" /\ i[p] \in DOMAIN ops[p]
      /\ IF op.undo /\ op.op # 0
         THEN semaoe(p, op.op, semid[p], op.num) ELSE UNCHANGED <<undoVars, pushed>>
      /\ semval' = [semval EXCEPT ![n] = val]
      /\ GotoWaking(p, "ops", Queues(op, n, val))
      /\ i' = [i EXCEPT ![p] = @ + 1]
      /\ UNCHANGED <<setVars, semid, ops, wait>>
  BY DEF Do, AtOp
<1>2. pc[p] \in Working
  BY <1>1 DEF Working
<1>3. /\ op.op \in Int /\ n \in SemsOf(SlotAt(p)) /\ n \in Sem /\ semval[n] \in Int
  BY <1>1, <1>2, AtOperation
<1>4. un_ent' \in [Proc -> Seq(GoodEntry)]
  <2>1. CASE op.undo /\ op.op # 0
    BY <2>1, <1>1, <1>2, <1>3, OwnEntry
  <2>2. CASE ~(op.undo /\ op.op # 0)
    BY <2>2, <1>1 DEF undoVars, IInv, EntryInv
  <2> QED
    BY <2>1, <2>2
<1> HIDE DEF op, n
<1>5. Types
  BY DEF IInv
<1>6. /\ pc' \in [Proc -> Place] /\ pc'[p] = "ops"
      /\ \A q \in Proc \ {p} : pc'[q] = pc[q] \/ (pc[q] = "asleep" /\ pc'[q] = "again")
  BY <1>1, <1>5, Woken DEF Place, Working
<1>7. Types'
  <2>1. semval' \in [Sem -> Int] /\ i' \in [Proc -> Nat]
    BY <1>1, <1>3, <1>5 DEF Types
  <2> HIDE DEF Op
  <2> QED
    BY <2>1, <1>1, <1>5, <1>6 DEF Types, setVars
<1>8. \A m \in Sem : semval'[m] = semval[m] \/ m \in SemsOf(SlotAt(p))
  BY <1>1, <1>3, <1>5 DEF Types
<1> QED
  BY <1>1, <1>2, <1>4, <1>6, <1>7, <1>8, WorkStep DEF Working

LEMMA semundoStep ==
  ASSUME IInv, NEW p \in Proc, semundo(p)
  PROVE  IInv'
<1> DEFINE op == Current(p)
           n == CurrentSem(p)
<1>1. /\ pc[p] = "undo" /\ i[p] \in DOMAIN ops[p]
      /\ semval' = [semval EXCEPT ![n] = @ - op.op]
      /\ semaoe(p, -op.op, semid[p], op.num) \/ UNCHANGED <<undoVars, pushed>>
      /\ i' = [i EXCEPT ![p] = @ - 1]
      /\ UNCHANGED <<setVars, pc, semid, ops, wait>>
  BY DEF semundo, AtOp
<1>2. pc[p] \in Working
  BY <1>1 DEF Working
<1>3. /\ op.op \in Int /\ n \in SemsOf(SlotAt(p)) /\ n \in Sem /\ semval[n] \in Int
      /\ i[p] \in Nat \ {0}
  BY <1>1, <1>2, AtOperation
<1>4. un_ent' \in [Proc -> Seq(GoodEntry)]
  <2>1. CASE semaoe(p, -op.op, semid[p], op.num)
    <3>1. -op.op \in Int
      BY <1>3
    <3> QED
      BY <2>1, <3>1, <1>1, <1>2, OwnEntry
  <2>2. CASE UNCHANGED <<undoVars, pushed>>
    BY <2>2 DEF undoVars, IInv, EntryInv
  <2> QED
    BY <2>1, <2>2, <1>1
<1> HIDE DEF op, n
<1>5. Types
  BY DEF IInv
<1>6. Types'
  <2>1. semval' \in [Sem -> Int] /\ i' \in [Proc -> Nat]
    BY <1>1, <1>3, <1>5 DEF Types
  <2> HIDE DEF Op
  <2> QED
    BY <2>1, <1>1, <1>5 DEF Types, setVars
<1>7. \A m \in Sem : semval'[m] = semval[m] \/ m \in SemsOf(SlotAt(p))
  BY <1>1, <1>3, <1>5 DEF Types
<1>8. pc[p] = "undo" /\ wait[p] # None =>
           SlotAt(p) \in Waiting /\ wait[p] \in Queue \X SemsOf(SlotAt(p))
  BY <1>2 DEF IInv, ProcInv, WorkInv, WaitsInSet
<1> QED
  BY <1>1, <1>2, <1>4, <1>6, <1>7, <1>8, WorkStep

LEMMA RefuseStep ==
  ASSUME IInv, NEW p \in Proc, Refuse(p)
  PROVE  IInv'
<1> DEFINE op == Current(p)
           n == CurrentSem(p)
           mustWait == MustWait(op, semval[n]) /\ ~op.nowait
           queue == IF op.op = 0 THEN "semzcnt_wait" ELSE "semncnt_wait"
<1>1. /\ pc[p] = "ops" /\ i[p] \in DOMAIN ops[p]
      /\ wait' = [wait EXCEPT ![p] = IF mustWait THEN <<queue, n>> ELSE None]
      /\ Goto(p, "undo")
      /\ i' = [i EXCEPT ![p] = @ - 1]
      /\ UNCHANGED <<setVars, semval, undoVars, semid, ops>>
  BY DEF Refuse, AtOp
<1>2. pc[p] \in Working
  BY <1>1 DEF Working
<1>3. /\ n \in SemsOf(SlotAt(p)) /\ n \in Nat /\ i[p] \in Nat \ {0}
      /\ SlotAt(p) \in Waiting \/ op.nowait
  BY <1>1, <1>2, AtOperation
<1>4. queue \in Queue
  BY DEF Queue
<1>5. mustWait => SlotAt(p) \in Waiting
  BY <1>3
<1> HIDE DEF op, n, queue, mustWait
<1>6. Types
  BY DEF IInv
<1>7. /\ pc' \in [Proc -> Place] /\ pc'[p] = "undo"
      /\ \A q \in Proc \ {p} : pc'[q] = pc[q]
  BY <1>1, <1>6, Gone DEF Place, Working
<1>8. /\ wait' \in [Proc -> {None} \cup (Queue \X Nat)]
      /\ wait'[p] # None => mustWait /\ wait'[p] \in Queue \X SemsOf(SlotAt(p))
      /\ \A q \in Proc \ {p} : wait'[q] = wait[q]
  <2>1. wait \in [Proc -> {None} \cup (Queue \X Nat)]
    BY <1>6 DEF Types
  <2> DEFINE new == IF mustWait THEN <<queue, n>> ELSE None
  <2>2. /\ new \in {None} \cup (Queue \X Nat)
        /\ new # None => mustWait /\ new \in Queue \X SemsOf(SlotAt(p))
    <3>1. <<queue, n>> \in Queue \X Nat /\ <<queue, n>> \in Queue \X SemsOf(SlotAt(p))
      <4>1. n \in Nat /\ n \in SemsOf(SlotAt(p))
        BY <1>3
      <4> QED
        BY <4>1, <1>4
    <3>2. CASE mustWait
      BY <3>1, <3>2
    <3>3. CASE ~mustWait
      BY <3>3
    <3> QED
      BY <3>2, <3>3
  <2>3. wait' = [wait EXCEPT ![p] = new]
    BY <1>1
  <2> HIDE DEF new
  <2> QED
    BY <2>1, <2>2, <2>3
<1>9. Types'
  <2>1. i' \in [Proc -> Nat]
    BY <1>1, <1>3, <1>6 DEF Types
  <2> HIDE DEF Op
  <2> QED
    BY <2>1, <1>1, <1>6, <1>7, <1>8 DEF Types, setVars
<1>10. un_ent' \in [Proc -> Seq(GoodEntry)]
  BY <1>1 DEF undoVars, IInv, EntryInv
<1>11. pc'[p] \in Working
  BY <1>7 DEF Working
<1> QED
  BY <1>1, <1>2, <1>5, <1>7, <1>8, <1>9, <1>10, <1>11, WorkStep

(* p gives its set up; it sleeps on it or its call is over. *)
LEMMA UndoneStep ==
  ASSUME IInv, NEW p \in Proc, Undone(p)
  PROVE  IInv'
<1>1. /\ pc[p] = "undo" /\ Unlock(p) /\ Types
      /\ SetsStay /\ semid_flag' = semid_flag /\ semval' = semval /\ un_ent' = un_ent
      /\ semid_lock' = [semid_lock EXCEPT ![SlotAt(p)] = None]
  BY DEF Undone, SetsStay, undoVars, Unlock, SlotAt, IInv
<1>2. /\ SlotAt(p) \in Slot /\ semid[p] \in Nat /\ Exists(semid[p]) /\ live[SlotAt(p)]
      /\ semid_lock[SlotAt(p)] = p /\ Known(semid[p])
  BY <1>1, AtWork DEF Working
<1>3. \A s \in Slot : s # SlotAt(p) => semid_lock'[s] = semid_lock[s]
  BY <1>1 DEF Types
<1>4. semid_lock' \in [Slot -> Proc \cup {None}]
  BY <1>1 DEF Types
<1>5. un_ent' \in [Proc -> Seq(GoodEntry)]
  BY <1>1 DEF IInv, EntryInv
<1>6. CASE wait[p] # None
  <2>1. Goto(p, "asleep") /\ semid' = semid /\ ops' = ops /\ i' = i /\ wait' = wait
    BY <1>6 DEF Undone
  <2>2. /\ pc' \in [Proc -> Place] /\ pc'[p] = "asleep"
        /\ \A q \in Proc \ {p} : pc'[q] = pc[q]
    BY <1>1, <2>1, Gone DEF Place
  <2>3. Types'
    <3> HIDE DEF Op
    <3> QED
      BY <1>1, <1>4, <2>1, <2>2 DEF Types, SetsStay
  <2>4. Quiet(p)
    BY <1>1, <1>2, <1>3, <2>1, <2>2 DEF Quiet, Calm, SetsStay, Rm
  <2>5. SleepInv(p)'
    <3> PICK id : id = semid[p]
      OBVIOUS
    <3>1. SlotAt(p)' = SlotAt(p) /\ semid'[p] = id
      BY <2>1 DEF SlotAt, SlotOf
    <3>2. Fits(p) /\ WaitsInSet(p)
      BY <1>1, <1>6 DEF IInv, ProcInv, WorkInv, Working
    <3>3. Fits(p)' /\ WaitsInSet(p)'
      BY <1>1, <2>1, <3>1, <3>2 DEF Fits, WaitsInSet, SemsOf, SetsStay
    <3>4. SlotAt(p)' \in Waiting
      BY <3>1, <3>2 DEF WaitsInSet
    <3>5. Exists(id)' /\ Known(id)'
      BY <1>2, <2>4, CalmEntries DEF Quiet
    <3> QED
      BY <2>2, <3>1, <3>3, <3>4, <3>5 DEF SleepInv
  <2>6. WorkInv(p)' /\ RmInv(p)' /\ SetInv(p)'
    BY <2>2 DEF WorkInv, RmInv, SetInv, Working, Rm
  <2> QED
    BY <1>5, <2>3, <2>4, <2>5, <2>6, QuietStep
<1>7. CASE wait[p] = None
  <2>1. Goto(p, "idle") /\ Forget(p)
    BY <1>7 DEF Undone
  <2>2. /\ pc' \in [Proc -> Place] /\ pc'[p] = "idle"
        /\ \A q \in Proc \ {p} : pc'[q] = pc[q]
    BY <1>1, <2>1, Gone DEF Place
  <2>3. /\ semid' \in [Proc -> Nat] /\ i' \in [Proc -> Nat]
        /\ ops' \in [Proc -> Seq(Op)]
        /\ wait' \in [Proc -> {None} \cup (Queue \X Nat)]
        /\ \A q \in Proc \ {p} : semid'[q] = semid[q] /\ ops'[q] = ops[q] /\ wait'[q] = wait[q]
    BY <1>1, <2>1, Forgotten
  <2>4. Types'
    <3> HIDE DEF Op
    <3> QED
      BY <1>1, <1>4, <2>2, <2>3 DEF Types, SetsStay
  <2>5. Quiet(p)
    BY <1>1, <1>2, <1>3, <2>2, <2>3 DEF Quiet, Calm, SetsStay, Rm
  <2> QED
    BY <1>5, <2>2, <2>4, <2>5, AtRest, QuietStep
<1> QED
  BY <1>6, <1>7

LEMMA SucceedStep ==
  ASSUME IInv, NEW p \in Proc, Succeed(p)
  PROVE  IInv'
<1>1. /\ pc[p] = "ops" /\ Types /\ Goto(p, "idle") /\ Forget(p)
      /\ SetsStay /\ semid_flag' = semid_flag /\ semval' = semval /\ un_ent' = un_ent
      /\ semid_lock' = [semid_lock EXCEPT ![SlotAt(p)] = None]
  BY DEF Succeed, SetsStay, undoVars, Unlock, SlotAt, IInv
<1>2. SlotAt(p) \in Slot /\ semid_lock[SlotAt(p)] = p
  BY <1>1, AtWork DEF Working
<1>3. \A s \in Slot : s # SlotAt(p) => semid_lock'[s] = semid_lock[s]
  BY <1>1 DEF Types
<1>4. un_ent' \in [Proc -> Seq(GoodEntry)]
  BY <1>1 DEF IInv, EntryInv
<1>5. /\ pc' \in [Proc -> Place] /\ pc'[p] = "idle"
      /\ \A q \in Proc \ {p} : pc'[q] = pc[q]
  BY <1>1, Gone DEF Place
<1>6. /\ semid' \in [Proc -> Nat] /\ i' \in [Proc -> Nat]
      /\ ops' \in [Proc -> Seq(Op)]
      /\ wait' \in [Proc -> {None} \cup (Queue \X Nat)]
      /\ \A q \in Proc \ {p} : semid'[q] = semid[q] /\ ops'[q] = ops[q] /\ wait'[q] = wait[q]
  BY <1>1, Forgotten
<1>7. Types'
  <2> HIDE DEF Op
  <2> QED
    BY <1>1, <1>5, <1>6 DEF Types, SetsStay
<1>8. Quiet(p)
  BY <1>1, <1>2, <1>3, <1>5, <1>6 DEF Quiet, Calm, SetsStay, Rm
<1> QED
  BY <1>4, <1>5, <1>7, <1>8, AtRest, QuietStep

(* SETVAL and SETALL write to semaphores of a set that exists. *)
LEMMA ValuesSet ==
  ASSUME IInv, NEW p \in Proc, NEW id, SlotOf(id) \in Slot,
         NEW nums \in SUBSET (0 .. sem_nsems[SlotOf(id)] - 1), NEW values \in [nums -> Values],
         SetValues(p, id, values)
  PROVE  /\ semval' \in [Sem -> Int]
         /\ \A n \in Sem : semval'[n] = semval[n] \/ n \in SemsOf(SlotOf(id))
         /\ pc' \in [Proc -> Place] /\ pc'[p] = "idle"
         /\ \A q \in Proc \ {p} : pc'[q] = pc[q] \/ (pc[q] = "asleep" /\ pc'[q] = "again")
<1> DEFINE base == sem_base[SlotOf(id)]
           set == {SemOf(id, num) : num \in DOMAIN values}
<1>1. /\ semval' = [n \in Sem |-> IF n \in set THEN values[n - SemOf(id, 0)] ELSE semval[n]]
      /\ \E queues : GotoWaking(p, "idle", queues)
  BY DEF SetValues
<1>2. /\ base \in Nat /\ sem_nsems[SlotOf(id)] \in Nat /\ semval \in [Sem -> Int]
      /\ \A num : SemOf(id, num) = base + num
      /\ Values \subseteq Int
  BY CallAssumption DEF IInv, Types, SemOf
<1>3. SemsOf(SlotOf(id)) = base .. base + sem_nsems[SlotOf(id)] - 1
  BY DEF SemsOf
<1> HIDE DEF base
<1>4. ASSUME NEW n \in set
      PROVE  n - SemOf(id, 0) \in nums /\ n \in SemsOf(SlotOf(id))
  <2>1. PICK num \in nums : n = base + num
    BY <1>2, <1>4
  <2>2. num \in Int /\ num \in 0 .. sem_nsems[SlotOf(id)] - 1
    OBVIOUS
  <2>3. n - SemOf(id, 0) = num
    BY <2>1, <2>2, <1>2
  <2>4. n \in SemsOf(SlotOf(id))
    BY <2>1, <2>2, <1>2, <1>3
  <2> QED
    BY <2>3, <2>4
<1>5. \A n \in set : values[n - SemOf(id, 0)] \in Int
  BY <1>2, <1>4
<1> HIDE DEF set
<1>6. semval' \in [Sem -> Int] /\ \A n \in Sem : semval'[n] = semval[n] \/ n \in SemsOf(SlotOf(id))
  BY <1>1, <1>2, <1>4, <1>5
<1>7. PICK queues : GotoWaking(p, "idle", queues)
  BY <1>1
<1>8. Types /\ "idle" \in Place
  BY DEF IInv, Place
<1>9. /\ pc' \in [Proc -> Place] /\ pc'[p] = "idle"
      /\ \A q \in Proc \ {p} : pc'[q] = pc[q] \/ (pc[q] = "asleep" /\ pc'[q] = "again")
  BY <1>7, <1>8, Woken
<1> QED
  BY <1>6, <1>9

LEMMA SETVALStep ==
  ASSUME IInv, NEW p \in Proc, SETVAL(p)
  PROVE  IInv'
<1>1. PICK s \in Slot : \E num \in 0 .. sem_nsems[s] - 1, val \in Values :
        /\ live[s] /\ semconv(IdOf(s))
        /\ semunrm(IdOf(s), num, num)
        /\ SetValues(p, IdOf(s), [k \in {num} |-> val])
  BY DEF SETVAL
<1>2. PICK num \in 0 .. sem_nsems[s] - 1, val \in Values :
        /\ live[s]
        /\ semunrm(IdOf(s), num, num)
        /\ SetValues(p, IdOf(s), [k \in {num} |-> val])
  BY <1>1
<1>3. /\ pc[p] = "idle" /\ SetsStay /\ semid_flag' = semid_flag /\ semid_lock' = semid_lock
      /\ semid' = semid /\ ops' = ops /\ i' = i /\ wait' = wait /\ Types
  BY DEF SETVAL, setVars, callVars, SetsStay, IInv
<1>4. IdOf(s) \in Nat /\ SlotOf(IdOf(s)) = s
  BY <1>3, IdOfSlot DEF Types
<1>5. /\ semval' \in [Sem -> Int]
      /\ \A n \in Sem : semval'[n] = semval[n] \/ n \in SemsOf(s)
      /\ pc' \in [Proc -> Place] /\ pc'[p] = "idle"
      /\ \A q \in Proc \ {p} : pc'[q] = pc[q] \/ (pc[q] = "asleep" /\ pc'[q] = "again")
  <2> DEFINE nums == {num}
             values == [k \in {num} |-> val]
  <2>1. nums \in SUBSET (0 .. sem_nsems[SlotOf(IdOf(s))] - 1) /\ values \in [nums -> Values]
    BY <1>4
  <2>2. SlotOf(IdOf(s)) \in Slot /\ SetValues(p, IdOf(s), values)
    BY <1>2, <1>4
  <2> HIDE DEF nums, values
  <2> QED
    BY <2>1, <2>2, <1>4, ValuesSet
<1>6. un_ent' \in [Proc -> Seq(GoodEntry)]
  BY <1>2, RemovedEntries DEF IInv, EntryInv
<1>7. Types'
  <2> HIDE DEF Op
  <2> QED
    BY <1>3, <1>5 DEF Types, SetsStay
<1>8. Quiet(p)
  BY <1>2, <1>3, <1>5 DEF Quiet, Calm, SetsStay, Rm
<1> QED
  BY <1>5, <1>6, <1>7, <1>8, AtRest, QuietStep

LEMMA SETALLStep ==
  ASSUME IInv, NEW p \in Proc, SETALL(p)
  PROVE  IInv'
<1>1. PICK s \in Slot :
        /\ live[s] /\ semconv(IdOf(s))
        /\ semid_flag' = [semid_flag EXCEPT ![s] = TRUE]
        /\ semid' = [semid EXCEPT ![p] = IdOf(s)]
  BY DEF SETALL
<1>2. /\ pc[p] = "idle" /\ Goto(p, "setall") /\ SetsStay /\ semid_lock' = semid_lock
      /\ semval' = semval /\ un_ent' = un_ent
      /\ ops' = ops /\ i' = i /\ wait' = wait /\ Types
  BY DEF SETALL, undoVars, SetsStay, IInv
<1>3. IdOf(s) \in Nat /\ SlotOf(IdOf(s)) = s /\ ~semid_flag[s] /\ Exists(IdOf(s))
  BY <1>1, <1>2, IdOfSlot DEF Types, semconv
<1>4. /\ pc' \in [Proc -> Place] /\ pc'[p] = "setall"
      /\ \A q \in Proc \ {p} : pc'[q] = pc[q]
  BY <1>2, Gone DEF Place
<1>5. /\ semid' \in [Proc -> Nat] /\ semid'[p] = IdOf(s)
      /\ \A q \in Proc \ {p} : semid'[q] = semid[q]
      /\ semid_flag' \in [Slot -> BOOLEAN] /\ semid_flag'[s]
      /\ \A t \in Slot : semid_flag[t] => semid_flag'[t]
  BY <1>1, <1>2, <1>3 DEF Types
<1>6. Types'
  <2> HIDE DEF Op
  <2> QED
    BY <1>2, <1>4, <1>5 DEF Types, SetsStay
<1>7. SlotOf(semid'[p]) = s
  BY <1>3, <1>5
<1>8. Quiet(p)
  BY <1>2, <1>3, <1>4, <1>5, <1>7 DEF Quiet, Calm, SetsStay, Rm
<1>9. un_ent' \in [Proc -> Seq(GoodEntry)]
  BY <1>2 DEF IInv, EntryInv
<1>10. SetInv(p)'
  <2> PICK id : id = IdOf(s)
    OBVIOUS
  <2>1. Exists(id)'
    BY <1>3, <1>8, CalmEntries DEF Quiet
  <2>2. SlotAt(p)' = s /\ semid'[p] = id
    BY <1>5, <1>7 DEF SlotAt, SlotOf
  <2> QED
    BY <1>5, <2>1, <2>2 DEF SetInv
<1>11. WorkInv(p)' /\ SleepInv(p)' /\ RmInv(p)'
  BY <1>4 DEF WorkInv, SleepInv, RmInv, Working, Rm
<1> QED
  BY <1>6, <1>8, <1>9, <1>10, <1>11, QuietStep

LEMMA CopiedStep ==
  ASSUME IInv, NEW p \in Proc, Copied(p)
  PROVE  IInv'
<1> DEFINE s == SlotOf(semid[p])
<1>1. /\ pc[p] = "setall" /\ Forget(p) /\ SetsStay /\ semid_lock' = semid_lock /\ Types
      /\ semid_flag' = [semid_flag EXCEPT ![s] = FALSE]
      /\ \/ \E values \in [0 .. sem_nsems[s] - 1 -> Values] :
              /\ semunrm(semid[p], 0, sem_nsems[s])
              /\ SetValues(p, semid[p], values)
         \/ Goto(p, "idle") /\ UNCHANGED <<semval, undoVars, net>>
  BY DEF Copied, SetsStay, IInv
<1>2. s \in Slot /\ live[s] /\ s = SlotAt(p)
  BY <1>1 DEF IInv, ProcInv, SetInv, Exists, SlotAt
<1>3. /\ semid' \in [Proc -> Nat] /\ i' \in [Proc -> Nat]
      /\ ops' \in [Proc -> Seq(Op)]
      /\ wait' \in [Proc -> {None} \cup (Queue \X Nat)]
      /\ \A q \in Proc \ {p} : semid'[q] = semid[q] /\ ops'[q] = ops[q] /\ wait'[q] = wait[q]
  BY <1>1, Forgotten
<1>4. /\ semval' \in [Sem -> Int]
      /\ \A n \in Sem : semval'[n] = semval[n] \/ n \in SemsOf(s)
      /\ pc' \in [Proc -> Place] /\ pc'[p] = "idle"
      /\ \A q \in Proc \ {p} : pc'[q] = pc[q] \/ (pc[q] = "asleep" /\ pc'[q] = "again")
      /\ un_ent' \in [Proc -> Seq(GoodEntry)]
  <2>1. CASE \E values \in [0 .. sem_nsems[s] - 1 -> Values] :
               /\ semunrm(semid[p], 0, sem_nsems[s])
               /\ SetValues(p, semid[p], values)
    <3> DEFINE nums == 0 .. sem_nsems[s] - 1
    <3>1. PICK values \in [nums -> Values] :
               /\ semunrm(semid[p], 0, sem_nsems[s])
               /\ SetValues(p, semid[p], values)
      BY <2>1
    <3>2. nums \in SUBSET (0 .. sem_nsems[SlotOf(semid[p])] - 1)
      OBVIOUS
    <3>3. un_ent' \in [Proc -> Seq(GoodEntry)]
      BY <3>1, RemovedEntries DEF IInv, EntryInv
    <3> HIDE DEF nums
    <3> QED
      BY <3>1, <3>2, <3>3, <1>2, ValuesSet
  <2>2. CASE Goto(p, "idle") /\ UNCHANGED <<semval, undoVars, net>>
    <3>1. /\ pc' \in [Proc -> Place] /\ pc'[p] = "idle"
          /\ \A q \in Proc \ {p} : pc'[q] = pc[q]
      BY <1>1, <2>2, Gone DEF Place
    <3>2. semval' = semval /\ un_ent' = un_ent
      BY <2>2 DEF undoVars
    <3>3. semval \in [Sem -> Int] /\ un_ent \in [Proc -> Seq(GoodEntry)]
      BY DEF IInv, EntryInv, Types
    <3> QED
      BY <3>1, <3>2, <3>3
  <2> QED
    BY <2>1, <2>2, <1>1
<1> HIDE DEF s
<1>5. /\ semid_flag' \in [Slot -> BOOLEAN]
      /\ \A t \in Slot : t # s => semid_flag'[t] = semid_flag[t]
  BY <1>1 DEF Types
<1>6. Types'
  <2> HIDE DEF Op
  <2> QED
    BY <1>1, <1>3, <1>4, <1>5 DEF Types, SetsStay
<1>7. Quiet(p)
  BY <1>1, <1>2, <1>3, <1>4, <1>5 DEF Quiet, Calm, SetsStay, Rm
<1> QED
  BY <1>4, <1>6, <1>7, AtRest, QuietStep

(* The semaphores of the set are cleared and its sleepers woken. *)
LEMMA CleanUpStep ==
  ASSUME IInv, NEW p \in Proc, CleanUp(p)
  PROVE  IInv'
<1> DEFINE s == SlotAt(p)
           queues == {"semncnt_wait", "semzcnt_wait"} \X SemsOf(s)
<1>1. /\ pc[p] = "rmid" /\ Types
      /\ semunrm(semid[p], 0, sem_nsems[s])
      /\ semval' = [n \in Sem |-> IF n \in SemsOf(s) THEN 0 ELSE semval[n]]
      /\ GotoWaking(p, "rmfree", queues)
      /\ SetsStay /\ semid_flag' = semid_flag /\ semid_lock' = semid_lock
      /\ semid' = semid /\ ops' = ops /\ i' = i /\ wait' = wait
  BY DEF CleanUp, SlotAt, setVars, callVars, SetsStay, IInv
<1>2. RmInv(p) /\ pc[p] \in Rm
  BY <1>1 DEF IInv, ProcInv, Rm
<1>3. s \in Slot /\ Occupied(s) /\ SemsOf(s) \subseteq Sem
  <2>1. s \in Slot
    BY <1>2, CallAssumption DEF RmInv
  <2>2. Occupied(s)
    BY <1>1 DEF Occupied, Removing, SlotAt
  <2> QED
    BY <2>1, <2>2 DEF IInv, SetsInv
<1>4. /\ pc' \in [Proc -> Place] /\ pc'[p] = "rmfree"
      /\ \A q \in Proc \ {p} : pc'[q] = pc[q] \/ (pc[q] = "asleep" /\ pc'[q] = "again")
      /\ \A q \in Proc \ {p} : pc'[q] = "asleep" => pc[q] = "asleep" /\ wait[q] \notin queues
  <2> HIDE DEF queues
  <2> QED
    BY <1>1, Woken DEF Place, Rm
<1>5. semval' \in [Sem -> Int] /\ \A n \in Sem : semval'[n] = semval[n] \/ semval'[n] = 0
  <2> HIDE DEF s
  <2> QED
    BY <1>1 DEF Types
<1>6. \A n \in SemsOf(s) : semval'[n] = 0
  <2> HIDE DEF s
  <2> QED
    BY <1>1, <1>3
<1>7. ASSUME NEW q \in Proc, pc'[q] = "asleep" PROVE semid[q] # semid[p]
  <2>1. q # p
    BY <1>4, <1>7
  <2>2. pc[q] = "asleep" /\ wait[q] \notin queues
    BY <2>1, <1>4, <1>7
  <2>3. wait[q] \in Queue \X SemsOf(SlotAt(q))
    BY <2>2 DEF IInv, ProcInv, SleepInv, WaitsInSet
  <2> SUFFICES ASSUME semid[q] = semid[p] PROVE FALSE
    OBVIOUS
  <2>4. SlotAt(q) = s
    BY DEF SlotAt
  <2> QED
    BY <2>2, <2>3, <2>4 DEF Queue
<1>8. un_ent' \in [Proc -> Seq(GoodEntry)]
  BY <1>1, RemovedEntries DEF IInv, EntryInv
<1>9. Types'
  <2> HIDE DEF Op, s, queues
  <2> QED
    BY <1>1, <1>4, <1>5 DEF Types, SetsStay
<1>10. Quiet(p)
  <2> HIDE DEF s, queues
  <2> QED
    BY <1>1, <1>4, <1>5, <1>7 DEF Quiet, Calm, SetsStay, Rm
<1>11. RmInv(p)'
  <2>1. SlotAt(p)' = s /\ (SemsOf(s))' = SemsOf(s)
    BY <1>1 DEF SlotAt, SlotOf, SemsOf, SetsStay
  <2>2. SemsOf(SlotAt(p))' = SemsOf(s)
    BY <1>1, <2>1 DEF SemsOf, SetsStay
  <2>3. /\ s \in Removable /\ ~live[s] /\ seq[s] > 0
        /\ semid_lock[s] = p \/ s \in Waiting
    BY <1>2 DEF RmInv
  <2> HIDE DEF s, queues
  <2> QED
    BY <2>1, <2>2, <2>3, <1>1, <1>6 DEF RmInv, SetsStay
<1>12. WorkInv(p)' /\ SleepInv(p)' /\ SetInv(p)'
  BY <1>4 DEF WorkInv, SleepInv, SetInv, Working
<1> QED
  BY <1>8, <1>9, <1>10, <1>11, <1>12, QuietStep

LEMMA semexitStep ==
  ASSUME IInv, NEW p \in Proc, semexit(p)
  PROVE  IInv'
<1>1. /\ pc[p] = "idle" /\ Types /\ Goto(p, "exit") /\ SetsStay
      /\ semid_flag' = semid_flag /\ semid_lock' = semid_lock
      /\ semval' = semval /\ un_ent' = un_ent
      /\ semid' = semid /\ ops' = ops /\ i' = i /\ wait' = wait
  BY DEF semexit, setVars, callVars, SetsStay, IInv
<1>2. /\ pc' \in [Proc -> Place] /\ pc'[p] = "exit"
      /\ \A q \in Proc \ {p} : pc'[q] = pc[q]
  BY <1>1, Gone DEF Place
<1>3. Types'
  <2> HIDE DEF Op
  <2> QED
    BY <1>1, <1>2 DEF Types, SetsStay
<1>4. Quiet(p)
  BY <1>1, <1>2 DEF Quiet, Calm, SetsStay, Rm
<1>5. un_ent' \in [Proc -> Seq(GoodEntry)]
  BY <1>1 DEF IInv, EntryInv
<1> QED
  BY <1>2, <1>3, <1>4, <1>5, AtRest, QuietStep

LEMMA ExitedStep ==
  ASSUME IInv, NEW p \in Proc, Exited(p)
  PROVE  IInv'
<1>1. /\ pc[p] = "exit" /\ Types /\ Goto(p, "idle") /\ SetsStay
      /\ semid_flag' = semid_flag /\ semid_lock' = semid_lock
      /\ semval' = semval /\ un_ent' = un_ent
      /\ semid' = semid /\ ops' = ops /\ i' = i /\ wait' = wait
  BY DEF Exited, setVars, callVars, SetsStay, IInv
<1>2. /\ pc' \in [Proc -> Place] /\ pc'[p] = "idle"
      /\ \A q \in Proc \ {p} : pc'[q] = pc[q]
  BY <1>1, Gone DEF Place
<1>3. Types'
  <2> HIDE DEF Op
  <2> QED
    BY <1>1, <1>2 DEF Types, SetsStay
<1>4. Quiet(p)
  BY <1>1, <1>2 DEF Quiet, Calm, SetsStay, Rm
<1>5. un_ent' \in [Proc -> Seq(GoodEntry)]
  BY <1>1 DEF IInv, EntryInv
<1> QED
  BY <1>2, <1>3, <1>4, <1>5, AtRest, QuietStep

(* An adjustment is made to a semaphore of a set that exists. *)
LEMMA AdjustStep ==
  ASSUME IInv, NEW p \in Proc, Adjust(p)
  PROVE  IInv'
<1> DEFINE e == Last(un_ent[p])
           n == SemOf(e.id, e.num)
           v == semval[n] + e.aoe
           queues == (IF v = 0 THEN {<<"semzcnt_wait", n>>} ELSE {}) \cup
                     (IF e.aoe > 0 THEN {<<"semncnt_wait", n>>} ELSE {})
<1>1. /\ pc[p] = "exit" /\ un_ent[p] # <<>> /\ Types
      /\ \/ UNCHANGED <<semval, pc>>
         \/ Exists(e.id) /\ semval' = [semval EXCEPT ![n] = v] /\ GotoWaking(p, "exit", queues)
      /\ un_ent' = [un_ent EXCEPT ![p] = Front(@)]
      /\ SetsStay /\ semid_flag' = semid_flag /\ semid_lock' = semid_lock
      /\ semid' = semid /\ ops' = ops /\ i' = i /\ wait' = wait
  BY DEF Adjust, setVars, callVars, SetsStay, IInv, semconv
<1>2. un_ent \in [Proc -> Seq(GoodEntry)]
  BY DEF IInv, EntryInv
<1>3. /\ Len(un_ent[p]) \in Nat \ {0}
      /\ Front(un_ent[p]) \in Seq(GoodEntry) /\ e \in GoodEntry
  <2> PICK q \in Seq(GoodEntry) : q = un_ent[p]
    BY <1>2
  <2> HIDE DEF GoodEntry
  <2>1. Len(q) \in Nat \ {0}
    BY <1>1, EmptySeq, LenProperties
  <2>2. \A k \in 1 .. Len(q) : q[k] \in GoodEntry
    BY ElementOfSeq
  <2>3. e \in GoodEntry
    BY <2>1, <2>2 DEF Last
  <2>4. SubSeq(q, 1, Len(q) - 1) \in Seq(GoodEntry)
    <3>1. 1 \in Int /\ Len(q) - 1 \in Int /\ \A k \in 1 .. Len(q) - 1 : q[k] \in GoodEntry
      BY <2>1, <2>2
    <3> QED
      BY <3>1, SubSeqProperties
  <2> QED
    BY <2>1, <2>3, <2>4 DEF Front
<1>4. un_ent' \in [Proc -> Seq(GoodEntry)]
  BY <1>1, <1>2, <1>3
<1>5. e.id \in Nat /\ e.num \in Nat /\ e.aoe \in Int /\ SlotOf(e.id) \in Slot
      /\ (Exists(e.id) => e.num < sem_nsems[SlotOf(e.id)])
  BY <1>3 DEF GoodEntry, Entries, Known
<1>6. ASSUME Exists(e.id)
      PROVE  live[SlotOf(e.id)] /\ n \in SemsOf(SlotOf(e.id)) /\ n \in Sem
  <2>1. live[SlotOf(e.id)] /\ e.num < sem_nsems[SlotOf(e.id)]
    BY <1>5, <1>6 DEF Exists
  <2>2. sem_base[SlotOf(e.id)] \in Nat /\ sem_nsems[SlotOf(e.id)] \in Nat
    BY <1>1, <1>5 DEF Types
  <2>3. n \in SemsOf(SlotOf(e.id))
    BY <2>1, <2>2, <1>5 DEF SemsOf, SemOf
  <2> QED
    BY <2>1, <2>3, <1>5 DEF IInv, SetsInv, Occupied
<1> HIDE DEF e, n
<1>7. /\ pc' \in [Proc -> Place] /\ pc'[p] = "exit"
      /\ \A q \in Proc \ {p} : pc'[q] = pc[q] \/ (pc[q] = "asleep" /\ pc'[q] = "again")
      /\ semval' \in [Sem -> Int]
      /\ \A m \in Sem : semval'[m] = semval[m] \/ \E s \in Slot : live[s] /\ m \in SemsOf(s)
  <2>1. CASE UNCHANGED <<semval, pc>>
    BY <2>1, <1>1 DEF Types
  <2>2. CASE Exists(e.id) /\ semval' = [semval EXCEPT ![n] = v] /\ GotoWaking(p, "exit", queues)
    <3>1. /\ pc' \in [Proc -> Place] /\ pc'[p] = "exit"
          /\ \A q \in Proc \ {p} : pc'[q] = pc[q] \/ (pc[q] = "asleep" /\ pc'[q] = "again")
      <4> HIDE DEF queues
      <4> QED
        BY <2>2, <1>1, Woken DEF Place
    <3>2. semval' \in [Sem -> Int]
      <4>1. n \in Sem /\ semval[n] \in Int
        BY <2>2, <1>1, <1>6 DEF Types
      <4>2. v \in Int
        BY <4>1, <1>5
      <4> HIDE DEF v
      <4> QED
        BY <2>2, <4>2, <1>1 DEF Types
    <3>3. \A m \in Sem : m # n => semval'[m] = semval[m]
      BY <2>2, <1>1 DEF Types
    <3> QED
      BY <3>1, <3>2, <3>3, <2>2, <1>5, <1>6
  <2> QED
    BY <2>1, <2>2, <1>1
<1>8. Types'
  <2> HIDE DEF Op
  <2> QED
    BY <1>1, <1>7 DEF Types, SetsStay
<1>9. Quiet(p)
  BY <1>1, <1>7 DEF Quiet, Calm, SetsStay, Rm
<1> QED
  BY <1>4, <1>7, <1>8, <1>9, AtRest, QuietStep
-----------------------------------------------------------------------------
(* The steps that make, remove and free a set. *)

LEMMA FreeSemsStep ==
  ASSUME IInv, NEW p \in Proc, FreeSems(p)
  PROVE  IInv'
<1> DEFINE s == SlotAt(p)
           size == sem_nsems[s]
           addr == sem_base[s]
           map == rmfree(freemap, size, addr, semmap)
<1>1. /\ pc[p] = "rmfree" /\ Types /\ Goto(p, "idle") /\ Forget(p)
      /\ freemap' = map
      /\ lost' = lost \cup ((Units(freemap) \cup SemsOf(s)) \ Units(freemap'))
      /\ semid_lock' = [semid_lock EXCEPT ![s] = None]
      /\ UNCHANGED <<live, seq, sem_base, sem_nsems>>
      /\ semid_flag' = semid_flag /\ semval' = semval /\ un_ent' = un_ent
  BY DEF FreeSems, Unlock, SlotAt, undoVars, IInv
<1>2. RmInv(p) /\ pc[p] \in Rm
  BY <1>1 DEF IInv, ProcInv, Rm
<1>3. /\ s \in Slot /\ Occupied(s) /\ ~live[s]
      /\ semid_lock[s] = p \/ s \in Waiting
      /\ \A n \in SemsOf(s) : semval[n] = 0
  <2>1. s \in Slot
    BY <1>2, CallAssumption DEF RmInv
  <2>2. Occupied(s)
    BY <1>1 DEF Occupied, Removing, SlotAt
  <2> QED
    BY <2>1, <2>2, <1>1, <1>2 DEF RmInv
<1>4. /\ SemsOf(s) \subseteq Sem /\ size \in Nat \ {0} /\ addr \in Nat \ {0}
      /\ SemsOf(s) \cap (Units(freemap) \cup lost) = {}
      /\ SemsOf(s) = addr .. addr + size - 1
  BY <1>1, <1>3 DEF IInv, SetsInv, Types, SemsOf
<1>5. IsMap(freemap) /\ Len(freemap) <= semmap - 2 /\ Units(freemap) \subseteq Sem
  BY DEF IInv, MapInv
<1>6. /\ IsMap(map) /\ Len(map) <= semmap - 2
      /\ Units(map) \subseteq Units(freemap) \cup SemsOf(s)
  <2>1. (addr .. addr + size - 1) \cap Units(freemap) = {}
    BY <1>4
  <2>2. semmap \in Nat /\ semmap >= 3
    BY InfoAssumption
  <2>3. /\ IsMap(map) /\ Len(map) <= semmap - 2
        /\ Units(map) \subseteq Units(freemap) \cup (addr .. addr + size - 1)
    <3> HIDE DEF size, addr
    <3> QED
      BY <1>4, <1>5, <2>1, <2>2, RmfreeMap
  <2> QED
    BY <2>3, <1>4
<1> HIDE DEF s, size, addr, map
<1>7. /\ pc' \in [Proc -> Place] /\ pc'[p] = "idle"
      /\ \A q \in Proc \ {p} : pc'[q] = pc[q]
  BY <1>1, Gone DEF Place
<1>8. /\ semid' \in [Proc -> Nat] /\ i' \in [Proc -> Nat]
      /\ ops' \in [Proc -> Seq(Op)]
      /\ wait' \in [Proc -> {None} \cup (Queue \X Nat)]
      /\ \A q \in Proc \ {p} : semid'[q] = semid[q] /\ ops'[q] = ops[q] /\ wait'[q] = wait[q]
  BY <1>1, Forgotten
<1>9. \A t \in Slot : t # s => semid_lock'[t] = semid_lock[t]
  BY <1>1 DEF Types
<1>10. Types'
  <2>1. lost' \subseteq Sem
    BY <1>1, <1>4, <1>5 DEF Types
  <2>2. semid_lock' \in [Slot -> Proc \cup {None}]
    BY <1>1 DEF Types
  <2> HIDE DEF Op
  <2> QED
    BY <2>1, <2>2, <1>1, <1>7, <1>8 DEF Types
<1>11. Calm(p)
  BY <1>1, <1>3, <1>7, <1>8, <1>9 DEF Calm, Rm
<1>12. EntryInv'
  BY <1>1, <1>11, CalmEntries DEF IInv, EntryInv
<1>13. ProcInv'
  <2>1. \A q \in Proc \ {p} : WorkInv(q)' /\ SleepInv(q)' /\ RmInv(q)' /\ SetInv(q)'
    BY <1>11, CalmOther DEF IInv
  <2>2. WorkInv(p)' /\ SleepInv(p)' /\ RmInv(p)' /\ SetInv(p)'
    BY <1>7, AtRest
  <2> QED
    BY <2>1, <2>2 DEF ProcInv
<1>14. OneInv'
  BY <1>11, <1>13, CalmOne DEF IInv
<1>15. SeqInv'
  BY <1>1 DEF IInv, SeqInv
<1>16. MapInv'
  BY <1>1, <1>4, <1>5, <1>6 DEF MapInv
<1>17. ASSUME NEW t \in Slot
       PROVE  /\ Occupied(t)' <=> Occupied(t) /\ t # s
              /\ SemsOf(t)' = SemsOf(t)
  <2>1. Removing(t)' => Removing(t) /\ t # s
    <3>1. SUFFICES ASSUME NEW q \in Proc, pc'[q] \in Rm, SlotOf(semid'[q]) = t
                   PROVE  Removing(t) /\ t # s
      BY DEF Removing, Rm, SlotOf
    <3>2. q # p /\ pc[q] \in Rm /\ SlotAt(q) = t
      BY <3>1, <1>7, <1>8 DEF Rm, SlotAt
    <3>3. t # s
      BY <3>2, <1>2 DEF IInv, OneInv, s
    <3> QED
      BY <3>2, <3>3 DEF Removing, Rm, SlotAt
  <2>2. Removing(t) /\ t # s => Removing(t)'
    <3>1. SUFFICES ASSUME NEW q \in Proc, pc[q] \in Rm, SlotOf(semid[q]) = t, t # s
                   PROVE  Removing(t)'
      BY DEF Removing, Rm
    <3>2. q # p
      BY <3>1 DEF s, SlotAt
    <3>3. pc'[q] \in Rm /\ SlotOf(semid'[q]) = t
      BY <3>1, <3>2, <1>7, <1>8
    <3> QED
      BY <3>3 DEF Removing, Rm, SlotOf
  <2>3. SemsOf(t)' = SemsOf(t)
    BY <1>1 DEF SemsOf
  <2> QED
    BY <2>1, <2>2, <2>3, <1>1, <1>3 DEF Occupied
<1>18. SetsInv'
  <2>1. ASSUME NEW t \in Slot, Occupied(t)'
        PROVE  /\ SemsOf(t) \subseteq Sem /\ sem_base[t] > 0 /\ sem_nsems[t] > 0
               /\ SemsOf(t) \cap (Units(freemap') \cup lost') = {}
    <3>1. Occupied(t) /\ t # s
      BY <2>1, <1>17
    <3>2. SemsOf(t) \cap SemsOf(s) = {}
      BY <3>1, <1>3 DEF IInv, SetsInv
    <3>3. /\ SemsOf(t) \subseteq Sem /\ sem_base[t] > 0 /\ sem_nsems[t] > 0
          /\ SemsOf(t) \cap (Units(freemap) \cup lost) = {}
      BY <3>1 DEF IInv, SetsInv
    <3> QED
      BY <3>2, <3>3, <1>1, <1>6
  <2>2. \A t, u \in Slot : Occupied(t)' /\ Occupied(u)' /\ t # u => SemsOf(t) \cap SemsOf(u) = {}
    BY <1>17 DEF IInv, SetsInv
  <2>3. Units(freemap)' = Units(freemap')
    BY DEF Units, Unit
  <2> QED
    BY <2>1, <2>2, <2>3, <1>1, <1>17 DEF SetsInv
<1>19. CoverInv'
  <2>1. Units(freemap)' = Units(freemap')
    BY DEF Units, Unit
  <2>2. Units(freemap) \cap lost = {}
    BY DEF IInv, CoverInv
  <2>3. Units(freemap') \cap lost' = {}
    BY <2>2, <1>1, <1>4, <1>6
  <2>4. ASSUME NEW n \in Sem
        PROVE  n \in Units(freemap') \cup lost' \/ \E t \in Slot : Occupied(t)' /\ n \in SemsOf(t)'
    <3>1. CASE n \in Units(freemap) \cup SemsOf(s)
      BY <3>1, <1>1
    <3>2. CASE n \in lost
      BY <3>2, <1>1
    <3>3. ASSUME NEW t \in Slot, Occupied(t), n \in SemsOf(t), t # s
          PROVE  Occupied(t)' /\ n \in SemsOf(t)'
      BY <3>3, <1>17
    <3>4. n \in Units(freemap) \cup lost \/ \E t \in Slot : Occupied(t) /\ n \in SemsOf(t)
      BY DEF IInv, CoverInv
    <3> QED
      BY <3>1, <3>2, <3>3, <3>4
  <2> QED
    BY <2>1, <2>3, <2>4 DEF CoverInv
<1>20. ZeroInv'
  <2>1. \A n \in Units(freemap') : semval'[n] = 0
    BY <1>1, <1>3, <1>6 DEF IInv, ZeroInv
  <2> QED
    BY <2>1 DEF ZeroInv, Units, Unit
<1> QED
  BY <1>10, <1>12, <1>13, <1>14, <1>15, <1>16, <1>18, <1>19, <1>20 DEF IInv

LEMMA semgetStep ==
  ASSUME Waiting \cap Removable \cap Reused = {}, IInv, NEW p \in Proc, semget(p)
  PROVE  IInv'
<1>1. PICK s \in Slot, n \in Sizes :
        LET got == rmalloc(freemap, n) IN
        /\ ~live[s]
        /\ seq[s] > 0 => s \in Reused
        /\ got.addr # 0
        /\ semid_lock[s] = None
        /\ live' = [live EXCEPT ![s] = TRUE]
        /\ sem_base' = [sem_base EXCEPT ![s] = got.addr]
        /\ sem_nsems' = [sem_nsems EXCEPT ![s] = n]
        /\ freemap' = got.map
  BY DEF semget
<1> DEFINE addr == rmalloc(freemap, n).addr
           map == rmalloc(freemap, n).map
           units == addr .. addr + n - 1
<1>2. /\ Types
      /\ seq' = seq /\ semid_flag' = semid_flag /\ semid_lock' = semid_lock
      /\ lost' = lost /\ semval' = semval /\ un_ent' = un_ent /\ pc' = pc
      /\ semid' = semid /\ ops' = ops /\ i' = i /\ wait' = wait
  BY DEF semget, undoVars, callVars, IInv
<1>3. n \in Nat \ {0}
  BY CallAssumption, InfoAssumption
<1>4. IsMap(freemap) /\ Len(freemap) <= semmap - 2 /\ Units(freemap) \subseteq Sem
  BY DEF IInv, MapInv
<1>5. /\ addr \in Nat \ {0} /\ IsMap(map) /\ Len(map) <= Len(freemap)
      /\ units \subseteq Units(freemap)
      /\ Units(map) = Units(freemap) \ units
  BY <1>1, <1>3, <1>4, RmallocMap
<1>6. freemap' = map
  BY <1>1
<1>7. /\ live' \in [Slot -> BOOLEAN] /\ live'[s]
      /\ sem_base' \in [Slot -> Nat] /\ sem_base'[s] = addr
      /\ sem_nsems' \in [Slot -> Nat] /\ sem_nsems'[s] = n
      /\ \A t \in Slot : t # s => /\ live'[t] = live[t]
                                  /\ sem_base'[t] = sem_base[t]
                                  /\ sem_nsems'[t] = sem_nsems[t]
  <2> HIDE DEF map
  <2> QED
    BY <1>1, <1>2, <1>3, <1>5 DEF Types
<1>8. ~live[s] /\ semid_lock[s] = None /\ (seq[s] > 0 => s \in Reused)
  BY <1>1
<1> HIDE DEF addr, map, units
<1>9. ~Removing(s)
  <2>1. SUFFICES ASSUME NEW q \in Proc, pc[q] \in Rm, SlotAt(q) = s PROVE FALSE
    BY DEF Removing, Rm, SlotAt
  <2>2. /\ s \in Removable /\ seq[s] > 0
        /\ semid_lock[s] = q \/ s \in Waiting
    BY <2>1 DEF IInv, ProcInv, RmInv
  <2>3. q # None
    BY ProcAssumption
  <2> QED
    BY <2>2, <2>3, <1>8
<1>10. Types'
  <2> HIDE DEF Op
  <2> QED
    BY <1>2, <1>7 DEF Types
<1>11. ASSUME NEW id, Known(id)
       PROVE  /\ Known(id)' /\ Exists(id)' = Exists(id)
              /\ SlotOf(id) = s => ~Exists(id)
  <2>1. SlotOf(id)' = SlotOf(id) /\ IdOf(SlotOf(id))' = IdOf(SlotOf(id))
    BY <1>2 DEF SlotOf, IdOf
  <2>2. /\ id \in Nat /\ SlotOf(id) \in Slot
        /\ id <= IdOf(SlotOf(id))
        /\ id = IdOf(SlotOf(id)) => live[SlotOf(id)]
    BY <1>11 DEF Known
  <2>3. CASE SlotOf(id) = s
    BY <2>1, <2>2, <2>3, <1>7, <1>8 DEF Known, Exists
  <2>4. CASE SlotOf(id) # s
    BY <2>1, <2>2, <2>4, <1>7 DEF Known, Exists
  <2> QED
    BY <2>3, <2>4
<1>12. EntryInv'
  <2>1. ASSUME NEW e \in GoodEntry PROVE e \in GoodEntry'
    <3>1. e \in Entries /\ Known(e.id) /\ (Exists(e.id) => e.num < sem_nsems[SlotOf(e.id)])
      BY DEF GoodEntry
    <3>2. Known(e.id)' /\ Exists(e.id)' = Exists(e.id) /\ (SlotOf(e.id) = s => ~Exists(e.id))
      BY <3>1, <1>11
    <3>3. SlotOf(e.id) \in Slot /\ SlotOf(e.id)' = SlotOf(e.id)
      BY <3>1 DEF Known, SlotOf
    <3>4. Exists(e.id)' => e.num < sem_nsems'[SlotOf(e.id)]
      BY <3>1, <3>2, <3>3, <1>7
    <3> QED
      BY <3>1, <3>2, <3>3, <3>4 DEF GoodEntry
  <2>2. \A q \in Proc : un_ent[q] \in Seq(GoodEntry')
    <3> PICK G : G = GoodEntry'
      OBVIOUS
    <3>1. GoodEntry \subseteq G
      BY <2>1
    <3>2. \A q \in Proc : un_ent[q] \in Seq(GoodEntry)
      BY DEF IInv, EntryInv
    <3> HIDE DEF GoodEntry
    <3>3. \A q \in Proc : un_ent[q] \in Seq(G)
      BY <3>1, <3>2, SeqMonotonic
    <3> QED
      BY <3>3
  <2>3. un_ent' \in [Proc -> Seq(GoodEntry')]
    <3>1. un_ent \in [Proc -> Seq(GoodEntry)]
      BY DEF IInv, EntryInv
    <3> HIDE DEF GoodEntry
    <3> QED
      BY <3>1, <2>2, <1>2
  <2> QED
    BY <2>3 DEF EntryInv
<1>13. ASSUME NEW q \in Proc
       PROVE  WorkInv(q)' /\ SleepInv(q)' /\ RmInv(q)' /\ SetInv(q)'
  <2> PICK id : id = semid[q]
    OBVIOUS
  <2>1. /\ semid[q] = id /\ semid'[q] = id /\ SlotAt(q) = SlotOf(id) /\ SlotAt(q)' = SlotOf(id)
        /\ pc'[q] = pc[q]
    BY <1>2 DEF SlotAt, SlotOf
  <2>2. WorkInv(q) /\ SleepInv(q) /\ RmInv(q) /\ SetInv(q)
    BY DEF IInv, ProcInv
  <2>3. ASSUME SlotOf(id) # s, SlotOf(id) \in Slot
        PROVE  /\ Fits(q)' = Fits(q) /\ MayWait(q)' = MayWait(q)
               /\ WaitsInSet(q)' = WaitsInSet(q)
               /\ live'[SlotOf(id)] = live[SlotOf(id)]
               /\ SemsOf(SlotOf(id))' = SemsOf(SlotOf(id))
               /\ Exists(id)' = Exists(id)
    BY <2>1, <2>3, <1>2, <1>7 DEF Fits, MayWait, WaitsInSet, SemsOf, Exists, IdOf, SlotOf
  <2>4. ASSUME SlotOf(id) \in Slot, live[SlotOf(id)] \/ Removing(SlotOf(id)) PROVE SlotOf(id) # s
    BY <2>4, <1>8, <1>9
  <2>5. WorkInv(q)'
    <3>1. SUFFICES ASSUME pc[q] \in Working PROVE WorkInv(q)'
      BY <2>1 DEF WorkInv
    <3>2. SlotOf(id) \in Slot /\ Exists(id) /\ live[SlotOf(id)]
      BY <3>1, <2>1, <2>2 DEF WorkInv, Exists
    <3>3. SlotOf(id) # s
      BY <3>2, <2>4
    <3> QED
      BY <3>1, <3>2, <3>3, <2>1, <2>2, <2>3, <1>2 DEF WorkInv
  <2>6. SleepInv(q)'
    <3>1. SUFFICES ASSUME pc[q] \in {"asleep", "again"} PROVE SleepInv(q)'
      BY <2>1 DEF SleepInv
    <3>2. /\ Known(id) /\ SlotOf(id) \in Waiting
          /\ Exists(id) => Fits(q)
          /\ pc[q] = "asleep" => /\ WaitsInSet(q)
                                 /\ Exists(id) \/ BeingRemoved(id)
      BY <3>1, <2>1, <2>2 DEF SleepInv
    <3>3. SlotOf(id) \in Slot
      BY <3>2 DEF Known
    <3>4. /\ Known(id)' /\ Exists(id)' = Exists(id)
          /\ SlotOf(id) = s => ~Exists(id)
      BY <3>2, <1>11
    <3>5. Exists(id)' => Fits(q)'
      BY <3>2, <3>3, <3>4, <2>3
    <3>6. BeingRemoved(id)' = BeingRemoved(id)
      BY <1>2 DEF BeingRemoved
    <3>7. BeingRemoved(id) => Removing(SlotOf(id))
      BY DEF BeingRemoved, Removing
    <3>8. pc[q] = "asleep" => WaitsInSet(q)'
      BY <3>2, <3>3, <3>4, <3>7, <2>3, <1>9
    <3> QED
      BY <3>2, <3>4, <3>5, <3>6, <3>8, <2>1 DEF SleepInv
  <2>7. RmInv(q)'
    <3>1. SUFFICES ASSUME pc[q] \in Rm PROVE RmInv(q)'
      BY <2>1 DEF RmInv
    <3>2. SlotOf(id) \in Slot /\ Removing(SlotOf(id))
      BY <3>1, <2>1, <2>2, CallAssumption DEF RmInv, Removing, Rm
    <3>3. SlotOf(id) # s
      BY <3>2, <2>4
    <3>4. SemsOf(SlotAt(q))' = SemsOf(SlotAt(q))
      BY <3>2, <3>3, <2>1, <1>7 DEF SemsOf
    <3> QED
      BY <3>1, <3>2, <3>3, <3>4, <2>1, <2>2, <2>3, <1>2 DEF RmInv
  <2>8. SetInv(q)'
    <3>1. SUFFICES ASSUME pc[q] = "setall" PROVE SetInv(q)'
      BY <2>1 DEF SetInv
    <3>2. SlotOf(id) \in Slot /\ Exists(id) /\ live[SlotOf(id)]
      BY <3>1, <2>1, <2>2 DEF SetInv, Exists
    <3>3. SlotOf(id) # s
      BY <3>2, <2>4
    <3> QED
      BY <3>1, <3>2, <3>3, <2>1, <2>2, <2>3, <1>2 DEF SetInv
  <2> QED
    BY <2>5, <2>6, <2>7, <2>8
<1>14. OneInv'
  <2>1. \A q \in Proc : SlotAt(q)' = SlotAt(q)
    BY <1>2 DEF SlotAt, SlotOf
  <2> QED
    BY <2>1, <1>2 DEF IInv, OneInv
<1>15. SeqInv'
  <2>1. \A t \in Slot : seq[t] > 0 => t \in Removable /\ (live'[t] => t \in Reused)
    BY <1>7, <1>8 DEF IInv, SeqInv
  <2> QED
    BY <2>1, <1>2 DEF SeqInv
<1>16. /\ Len(freemap) \in Nat /\ Len(map) \in Nat /\ semmap \in Nat
       /\ Units(freemap)' = Units(map)
  BY <1>4, <1>5, <1>6, LenProperties, InfoAssumption DEF IsMap, Units, Unit
<1>17. MapInv'
  BY <1>4, <1>5, <1>6, <1>16 DEF MapInv
<1>18. /\ Occupied(s)' /\ SemsOf(s)' = units
       /\ \A t \in Slot : t # s => (Occupied(t)' <=> Occupied(t)) /\ SemsOf(t)' = SemsOf(t)
  <2>1. \A t : Removing(t)' = Removing(t)
    BY <1>2 DEF Removing, SlotOf
  <2> QED
    BY <2>1, <1>7 DEF Occupied, SemsOf, units
<1>19. SetsInv'
  <2>1. ASSUME NEW t \in Slot, Occupied(t)'
        PROVE  /\ SemsOf(t)' \subseteq Sem /\ sem_base'[t] > 0 /\ sem_nsems'[t] > 0
               /\ SemsOf(t)' \cap (Units(map) \cup lost) = {}
    <3>1. CASE t = s
      <4>1. units \cap lost = {}
        BY <1>5 DEF IInv, CoverInv
      <4> QED
        BY <3>1, <4>1, <1>3, <1>4, <1>5, <1>7, <1>18
    <3>2. CASE t # s
      BY <3>2, <2>1, <1>5, <1>7, <1>18 DEF IInv, SetsInv
    <3> QED
      BY <3>1, <3>2
  <2>2. ASSUME NEW t \in Slot, NEW u \in Slot, Occupied(t)', Occupied(u)', t # u
        PROVE  SemsOf(t)' \cap SemsOf(u)' = {}
    <3>1. ASSUME NEW v \in Slot, Occupied(v)', v # s PROVE SemsOf(v)' \cap units = {}
      BY <3>1, <1>5, <1>18 DEF IInv, SetsInv
    <3>2. CASE t # s /\ u # s
      BY <3>2, <2>2, <1>18 DEF IInv, SetsInv
    <3> QED
      BY <3>1, <3>2, <2>2, <1>18
  <2> QED
    BY <2>1, <2>2, <1>2, <1>16 DEF SetsInv
<1>20. CoverInv'
  <2>1. ASSUME NEW m \in Sem
        PROVE  m \in Units(map) \cup lost \/ \E t \in Slot : Occupied(t)' /\ m \in SemsOf(t)'
    <3>1. m \in Units(freemap) \cup lost \/ \E t \in Slot : Occupied(t) /\ m \in SemsOf(t)
      BY DEF IInv, CoverInv
    <3>2. ~Occupied(s)
      BY <1>8, <1>9 DEF Occupied
    <3> QED
      BY <3>1, <3>2, <1>5, <1>18
  <2>2. Units(map) \cap lost = {}
    BY <1>5 DEF IInv, CoverInv
  <2> QED
    BY <2>1, <2>2, <1>2, <1>16 DEF CoverInv
<1>21. ZeroInv'
  BY <1>2, <1>5, <1>16 DEF IInv, ZeroInv
<1> QED
  BY <1>10, <1>12, <1>13, <1>14, <1>15, <1>17, <1>19, <1>20, <1>21 DEF IInv, ProcInv

LEMMA IPC_RMIDStep ==
  ASSUME IInv, NEW p \in Proc, IPC_RMID(p)
  PROVE  IInv'
<1>1. PICK s \in Removable :
        /\ live[s] /\ semconv(IdOf(s))
        /\ Lock(s, p)
        /\ semid' = [semid EXCEPT ![p] = IdOf(s)]
        /\ live' = [live EXCEPT ![s] = FALSE]
        /\ seq' = [seq EXCEPT ![s] = @ + 1]
  BY DEF IPC_RMID
<1>2. /\ pc[p] = "idle" /\ Goto(p, "rmid") /\ Types
      /\ sem_base' = sem_base /\ sem_nsems' = sem_nsems /\ semid_flag' = semid_flag
      /\ freemap' = freemap /\ lost' = lost /\ semval' = semval /\ un_ent' = un_ent
      /\ ops' = ops /\ i' = i /\ wait' = wait
  BY DEF IPC_RMID, undoVars, IInv
<1> PICK old : old = IdOf(s)
  OBVIOUS
<1>3. /\ s \in Slot /\ old \in Nat /\ SlotOf(old) = s /\ seq[s] \in Nat
      /\ semid_lock[s] = None /\ ~semid_flag[s] /\ live[s]
  <2>1. s \in Slot
    BY CallAssumption
  <2> QED
    BY <1>1, <1>2, <2>1, IdOfSlot DEF semconv, Types
<1>4. /\ pc' \in [Proc -> Place] /\ pc'[p] = "rmid"
      /\ \A q \in Proc \ {p} : pc'[q] = pc[q]
  BY <1>2, Gone DEF Place, Rm
<1>5. /\ live' \in [Slot -> BOOLEAN] /\ ~live'[s]
      /\ seq' \in [Slot -> Nat] /\ seq'[s] = seq[s] + 1
      /\ \A t \in Slot : t # s => live'[t] = live[t] /\ seq'[t] = seq[t]
      /\ semid' \in [Proc -> Nat] /\ semid'[p] = old
      /\ \A q \in Proc \ {p} : semid'[q] = semid[q]
      /\ semid_lock' \in [Slot -> Proc \cup {None}] /\ semid_lock'[s] = p
      /\ \A t \in Slot : t # s => semid_lock'[t] = semid_lock[t]
  BY <1>1, <1>2, <1>3 DEF Types, Lock
<1>6. Types'
  <2> HIDE DEF Op
  <2> QED
    BY <1>2, <1>4, <1>5 DEF Types
<1>7. /\ IdOf(s) \in Nat /\ IdOf(s)' \in Nat /\ IdOf(s) < IdOf(s)'
  <2>1. semmni \in Nat /\ s \in Nat /\ s < semmni
    BY <1>3, InfoAssumption DEF Slot
  <2>2. PICK k \in Nat : k = seq[s]
    BY <1>3
  <2>3. seq'[s] = k + 1
    BY <1>5, <2>2
  <2>4. k * semmni + s \in Nat /\ (k + 1) * semmni + s \in Nat /\ k * semmni + s < (k + 1) * semmni + s
    BY <2>1
  <2> QED
    BY <2>2, <2>3, <2>4 DEF IdOf
<1>8. ASSUME NEW id, Known(id)
      PROVE  /\ Known(id)'
             /\ SlotOf(id) # s => Exists(id)' = Exists(id)
             /\ SlotOf(id) = s => ~Exists(id)' /\ (Exists(id) => id = old)
  <2>1. SlotOf(id)' = SlotOf(id)
    BY DEF SlotOf
  <2>2. /\ id \in Nat /\ SlotOf(id) \in Slot
        /\ id <= IdOf(SlotOf(id))
        /\ id = IdOf(SlotOf(id)) => live[SlotOf(id)]
    BY <1>8 DEF Known
  <2>3. CASE SlotOf(id) = s
    <3>1. id <= IdOf(s) /\ id < IdOf(s)'
      BY <2>2, <2>3, <1>7
    <3>2. Known(id)'
      BY <2>1, <2>2, <2>3, <3>1, <1>7 DEF Known
    <3>3. ~Exists(id)'
      BY <2>1, <2>3, <1>5 DEF Exists
    <3>4. Exists(id) => id = old
      BY <2>3 DEF Exists
    <3> QED
      BY <2>3, <3>2, <3>3, <3>4
  <2>4. CASE SlotOf(id) # s
    <3>1. IdOf(SlotOf(id))' = IdOf(SlotOf(id)) /\ live'[SlotOf(id)] = live[SlotOf(id)]
      BY <2>1, <2>2, <2>4, <1>5 DEF IdOf
    <3> QED
      BY <2>1, <2>2, <2>4, <3>1 DEF Known, Exists
  <2> QED
    BY <2>3, <2>4
<1>9. EntryInv'
  <2>1. ASSUME NEW e \in GoodEntry PROVE e \in GoodEntry'
    <3>1. e \in Entries /\ Known(e.id) /\ (Exists(e.id) => e.num < sem_nsems[SlotOf(e.id)])
      BY DEF GoodEntry
    <3>2. Known(e.id)' /\ (Exists(e.id)' => Exists(e.id))
      BY <3>1, <1>8
    <3>3. SlotOf(e.id)' = SlotOf(e.id)
      BY DEF SlotOf
    <3> QED
      BY <3>1, <3>2, <3>3, <1>2 DEF GoodEntry
  <2>2. \A q \in Proc : un_ent[q] \in Seq(GoodEntry')
    <3> PICK G : G = GoodEntry'
      OBVIOUS
    <3>1. GoodEntry \subseteq G
      BY <2>1
    <3>2. \A q \in Proc : un_ent[q] \in Seq(GoodEntry)
      BY DEF IInv, EntryInv
    <3> HIDE DEF GoodEntry
    <3>3. \A q \in Proc : un_ent[q] \in Seq(G)
      BY <3>1, <3>2, SeqMonotonic
    <3> QED
      BY <3>3
  <2>3. un_ent' \in [Proc -> Seq(GoodEntry')]
    <3>1. un_ent \in [Proc -> Seq(GoodEntry)]
      BY DEF IInv, EntryInv
    <3> HIDE DEF GoodEntry
    <3> QED
      BY <3>1, <2>2, <1>2
  <2> QED
    BY <2>3 DEF EntryInv
<1>10. SlotAt(p)' = s /\ semid'[p] = old
  BY <1>3, <1>5 DEF SlotAt, SlotOf
<1>11. BeingRemoved(old)'
  BY <1>4, <1>10 DEF BeingRemoved
<1>12. ASSUME NEW q \in Proc \ {p}
       PROVE  WorkInv(q)' /\ SleepInv(q)' /\ RmInv(q)' /\ SetInv(q)'
  <2> PICK id : id = semid[q]
    OBVIOUS
  <2>1. /\ semid[q] = id /\ semid'[q] = id /\ SlotAt(q) = SlotOf(id) /\ SlotAt(q)' = SlotOf(id)
        /\ pc'[q] = pc[q] /\ id \in Nat
    BY <1>2, <1>4, <1>5 DEF SlotAt, SlotOf, Types
  <2>2. WorkInv(q) /\ SleepInv(q) /\ RmInv(q) /\ SetInv(q)
    BY DEF IInv, ProcInv
  <2>3. /\ Fits(q)' = Fits(q) /\ MayWait(q)' = MayWait(q)
        /\ WaitsInSet(q)' = WaitsInSet(q)
        /\ SemsOf(SlotAt(q))' = SemsOf(SlotAt(q))
    BY <2>1, <1>2 DEF Fits, MayWait, WaitsInSet, SemsOf
  <2>4. SlotOf(id) # s /\ SlotOf(id) \in Slot => Exists(id)' = Exists(id)
    BY <1>5 DEF Exists, IdOf, SlotOf
  <2>5. q # None
    BY ProcAssumption
  <2>6. WorkInv(q)'
    <3>1. SUFFICES ASSUME pc[q] \in Working PROVE WorkInv(q)'
      BY <2>1 DEF WorkInv
    <3>2. SlotOf(id) \in Slot /\ Exists(id) /\ semid_lock[SlotOf(id)] = q
      BY <3>1, <2>1, <2>2 DEF WorkInv
    <3>3. SlotOf(id) # s
      BY <3>2, <2>5, <1>3
    <3> QED
      BY <3>1, <3>2, <3>3, <2>1, <2>2, <2>3, <2>4, <1>2, <1>5 DEF WorkInv
  <2>7. SleepInv(q)'
    <3>1. SUFFICES ASSUME pc[q] \in {"asleep", "again"} PROVE SleepInv(q)'
      BY <2>1 DEF SleepInv
    <3>2. /\ Known(id) /\ SlotOf(id) \in Waiting
          /\ Exists(id) => Fits(q)
          /\ pc[q] = "asleep" => /\ WaitsInSet(q)
                                 /\ Exists(id) \/ BeingRemoved(id)
      BY <3>1, <2>1, <2>2 DEF SleepInv
    <3>3. Known(id)' /\ (Exists(id)' => Exists(id))
      BY <3>2, <1>8
    <3>4. BeingRemoved(id) => BeingRemoved(id)'
      <4>1. SUFFICES ASSUME NEW r \in Proc, pc[r] = "rmid", semid[r] = id PROVE BeingRemoved(id)'
        BY DEF BeingRemoved
      <4>2. r # p
        BY <4>1, <1>2
      <4>3. pc'[r] = "rmid" /\ semid'[r] = id
        BY <4>1, <4>2, <1>4, <1>5
      <4> QED
        BY <4>3 DEF BeingRemoved
    <3>5. Exists(id) => Exists(id)' \/ BeingRemoved(id)'
      BY <3>2, <1>8, <1>11
    <3> QED
      BY <3>2, <3>3, <3>4, <3>5, <2>1, <2>3 DEF SleepInv
  <2>8. RmInv(q)'
    <3>1. SUFFICES ASSUME pc[q] \in Rm PROVE RmInv(q)'
      BY <2>1 DEF RmInv
    <3>2. SlotOf(id) \in Slot /\ ~live[SlotOf(id)]
      BY <3>1, <2>1, <2>2, CallAssumption DEF RmInv
    <3>3. SlotOf(id) # s
      BY <3>2, <1>3
    <3> QED
      BY <3>1, <3>2, <3>3, <2>1, <2>2, <2>3, <1>2, <1>5 DEF RmInv
  <2>9. SetInv(q)'
    <3>1. SUFFICES ASSUME pc[q] = "setall" PROVE SetInv(q)'
      BY <2>1 DEF SetInv
    <3>2. SlotOf(id) \in Slot /\ Exists(id) /\ semid_flag[SlotOf(id)]
      BY <3>1, <2>1, <2>2 DEF SetInv
    <3>3. SlotOf(id) # s
      BY <3>2, <1>3
    <3> QED
      BY <3>1, <3>2, <3>3, <2>1, <2>4, <1>2 DEF SetInv
  <2> QED
    BY <2>6, <2>7, <2>8, <2>9
<1>13. WorkInv(p)' /\ SleepInv(p)' /\ SetInv(p)'
  BY <1>4 DEF WorkInv, SleepInv, SetInv, Working
<1>14. RmInv(p)'
  BY <1>3, <1>4, <1>5, <1>10 DEF RmInv
<1>15. OneInv'
  <2>1. ASSUME NEW q \in Proc \ {p}
        PROVE  /\ SlotAt(q)' = SlotAt(q) /\ pc'[q] = pc[q]
               /\ pc[q] \in Rm => SlotAt(q) # s
    <3>1. SlotAt(q)' = SlotAt(q) /\ pc'[q] = pc[q]
      BY <1>4, <1>5 DEF SlotAt, SlotOf
    <3>2. pc[q] \in Rm => SlotAt(q) # s
      BY <1>3 DEF IInv, ProcInv, RmInv
    <3> QED
      BY <3>1, <3>2
  <2>2. SUFFICES ASSUME NEW q \in Proc, NEW r \in Proc, SlotAt(q)' = SlotAt(r)',
                        \/ pc'[q] \in Rm /\ pc'[r] \in Rm
                        \/ pc'[q] = "setall" /\ pc'[r] = "setall"
                 PROVE  q = r
    BY DEF OneInv
  <2>3. CASE q # p /\ r # p
    BY <2>1, <2>2, <2>3 DEF IInv, OneInv
  <2>4. CASE q = p \/ r = p
    BY <2>1, <2>2, <2>4, <1>4, <1>10 DEF Rm
  <2> QED
    BY <2>3, <2>4
<1>16. SeqInv'
  <2>1. \A t \in Slot : seq'[t] > 0 => t \in Removable /\ (live'[t] => t \in Reused)
    BY <1>3, <1>5 DEF IInv, SeqInv
  <2> QED
    BY <2>1 DEF SeqInv
<1>17. ASSUME NEW t \in Slot
       PROVE  (Occupied(t)' <=> Occupied(t)) /\ SemsOf(t)' = SemsOf(t)
  <2>1. ASSUME NEW q \in Proc \ {p}
        PROVE  (pc'[q] \in Rm /\ SlotAt(q)' = t) <=> (pc[q] \in Rm /\ SlotAt(q) = t)
    BY <1>4, <1>5 DEF SlotAt, SlotOf
  <2>2. Removing(t)' <=> Removing(t) \/ t = s
    <3>1. Removing(t)' <=> \E q \in Proc : pc'[q] \in Rm /\ SlotAt(q)' = t
      BY DEF Removing, SlotAt, SlotOf, Rm
    <3>2. Removing(t) <=> \E q \in Proc : pc[q] \in Rm /\ SlotAt(q) = t
      BY DEF Removing, SlotAt, SlotOf, Rm
    <3>3. pc'[p] \in Rm /\ pc[p] \notin Rm
      BY <1>2, <1>4 DEF Rm
    <3> QED
      BY <3>1, <3>2, <3>3, <2>1, <1>10
  <2>3. SemsOf(t)' = SemsOf(t)
    BY <1>2 DEF SemsOf
  <2> QED
    BY <2>2, <2>3, <1>3, <1>5 DEF Occupied
<1>18. MapInv' /\ ZeroInv'
  BY <1>2 DEF IInv, MapInv, ZeroInv
<1>19. SetsInv'
  <2>1. SetsInv
    BY DEF IInv
  <2> QED
    BY <2>1, <1>2, <1>17, Zenon DEF SetsInv
<1>20. CoverInv'
  <2>1. CoverInv
    BY DEF IInv
  <2> QED
    BY <2>1, <1>2, <1>17, Zenon DEF CoverInv
<1>21. ProcInv'
  BY <1>12, <1>13, <1>14 DEF ProcInv
<1> QED
  BY <1>6, <1>9, <1>15, <1>16, <1>18, <1>19, <1>20, <1>21 DEF IInv
-----------------------------------------------------------------------------

LEMMA InitIInv == Init => IInv
<1> SUFFICES ASSUME Init PROVE IInv
  OBVIOUS
<1>1. Types
  <2>1. <<>> \in Seq(Op)
    OBVIOUS
  <2> HIDE DEF Op
  <2> QED
    BY <2>1 DEF Init, Types, Place
<1>2. EntryInv
  <2>1. <<>> \in Seq(GoodEntry)
    OBVIOUS
  <2> HIDE DEF GoodEntry
  <2> QED
    BY <2>1 DEF Init, EntryInv
<1>3. ProcInv /\ OneInv
  BY DEF Init, ProcInv, OneInv, WorkInv, SleepInv, RmInv, SetInv, Working, Rm
<1>4. SeqInv
  BY DEF Init, SeqInv
<1>5. \A s \in Slot : ~Occupied(s)
  BY DEF Init, Occupied, Removing
<1>6. semmns \in Nat \ {0} /\ semmap \in Nat /\ semmap >= 3
  BY InfoAssumption
<1>7. IsMap(freemap) /\ Len(freemap) = 1
  <2> PICK seg : seg = [addr |-> 1, size |-> semmns]
    OBVIOUS
  <2>0. seg \in Segment
    BY <1>6 DEF Segment
  <2>1. freemap = <<seg>>
    BY DEF Init, rminit
  <2>2. <<seg>> \in Seq(Segment) /\ Len(<<seg>>) = 1
    BY <2>0
  <2>3. \A j, k \in 1 .. 1 : ~(j < k)
    OBVIOUS
  <2> QED
    BY <2>1, <2>2, <2>3 DEF IsMap
<1>8. Units(freemap) = Sem
  <2>1. DOMAIN freemap = {1} /\ freemap[1] = [addr |-> 1, size |-> semmns]
    <3>1. freemap = <<[addr |-> 1, size |-> semmns]>>
      BY DEF Init, rminit
    <3> QED
      BY <3>1
  <2>2. Units(freemap) = Unit(freemap[1])
    BY <2>1 DEF Units
  <2> QED
    BY <2>1, <2>2, <1>6 DEF Unit, Sem
<1>9. MapInv /\ SetsInv /\ CoverInv /\ ZeroInv
  <2>1. lost = {} /\ semval = [n \in Sem |-> 0]
    BY DEF Init
  <2> QED
    BY <2>1, <1>5, <1>6, <1>7, <1>8 DEF MapInv, SetsInv, CoverInv, ZeroInv
<1> QED
  BY <1>1, <1>2, <1>3, <1>4, <1>9 DEF IInv

LEMMA NextIInv ==
  ASSUME Waiting \cap Removable \cap Reused = {}, IInv, [Next]_vars
  PROVE  IInv'
<1>1. CASE UNCHANGED vars
  <2>1. /\ live' = live /\ seq' = seq /\ sem_base' = sem_base /\ sem_nsems' = sem_nsems
        /\ semid_flag' = semid_flag /\ semid_lock' = semid_lock /\ freemap' = freemap
        /\ lost' = lost /\ semval' = semval /\ un_ent' = un_ent /\ pc' = pc
        /\ semid' = semid /\ ops' = ops /\ i' = i /\ wait' = wait
    BY <1>1 DEF vars, setVars, undoVars, callVars
  <2>2. Types' /\ MapInv' /\ ZeroInv' /\ SeqInv'
    BY <2>1 DEF IInv, Types, MapInv, ZeroInv, SeqInv
  <2>3. GoodEntry' = GoodEntry
    BY <2>1 DEF GoodEntry, Known, Exists, IdOf, SlotOf
  <2>4. EntryInv'
    BY <2>1, <2>3 DEF IInv, EntryInv
  <2>5. ProcInv' /\ OneInv'
    <3>1. \A p \in Proc : WorkInv(p)' = WorkInv(p)
      BY <2>1 DEF WorkInv, SlotAt, SlotOf, Exists, IdOf, Fits, MayWait, WaitsInSet, SemsOf
    <3>2. \A p \in Proc : SleepInv(p)' = SleepInv(p)
      BY <2>1 DEF SleepInv, SlotAt, SlotOf, Known, Exists, IdOf, Fits, WaitsInSet, SemsOf, BeingRemoved
    <3>3. \A p \in Proc : RmInv(p)' = RmInv(p) /\ SetInv(p)' = SetInv(p)
      BY <2>1 DEF RmInv, SetInv, SlotAt, SlotOf, Exists, IdOf, SemsOf
    <3>4. OneInv'
      BY <2>1 DEF IInv, OneInv, SlotAt, SlotOf
    <3> QED
      BY <3>1, <3>2, <3>3, <3>4 DEF IInv, ProcInv
  <2>6. SetsInv' /\ CoverInv'
    <3>1. \A s : Occupied(s)' = Occupied(s) /\ SemsOf(s)' = SemsOf(s)
      BY <2>1 DEF Occupied, Removing, SemsOf, SlotOf
    <3>2. SetsInv /\ CoverInv
      BY DEF IInv
    <3>3. SetsInv'
      BY <2>1, <3>1, <3>2, Zenon DEF SetsInv
    <3>4. CoverInv'
      BY <2>1, <3>1, <3>2, Zenon DEF CoverInv
    <3> QED
      BY <3>3, <3>4
  <2> QED
    BY <2>2, <2>4, <2>5, <2>6 DEF IInv
<1>2. ASSUME NEW p \in Proc,
             \/ semget(p) \/ semop(p) \/ Again(p) \/ Interrupt(p) \/ PushFirst(p) \/ Do(p)
             \/ Refuse(p) \/ semundo(p) \/ Undone(p) \/ Succeed(p)
             \/ SETVAL(p) \/ SETALL(p) \/ Copied(p)
             \/ IPC_RMID(p) \/ CleanUp(p) \/ FreeSems(p)
             \/ semexit(p) \/ Adjust(p) \/ Exited(p)
      PROVE  IInv'
  BY <1>2, semgetStep, semopStep, AgainStep, InterruptStep, PushFirstStep, DoStep,
     RefuseStep, semundoStep, UndoneStep, SucceedStep, SETVALStep, SETALLStep, CopiedStep,
     IPC_RMIDStep, CleanUpStep, FreeSemsStep, semexitStep, AdjustStep, ExitedStep
<1> QED
  BY <1>1, <1>2 DEF Next

LEMMA Invariance ==
  ASSUME Waiting \cap Removable \cap Reused = {}
  PROVE  Spec => []IInv
<1>1. IInv /\ [Next]_vars => IInv'
  BY NextIInv
<1> QED
  BY <1>1, InitIInv, PTL DEF Spec

(* The invariant says what SemsDisjoint counts. *)
LEMMA OneOwner ==
  ASSUME IInv, NEW n \in Sem
  PROVE  Cardinality({s \in Slot : (live[s] \/ Removing(s)) /\ n \in SemsOf(s)})
           + Cardinality({k \in DOMAIN freemap : n \in Unit(freemap[k])})
           + Cardinality(lost \cap {n}) = 1
<1> DEFINE owners == {s \in Slot : (live[s] \/ Removing(s)) /\ n \in SemsOf(s)}
           segments == {k \in DOMAIN freemap : n \in Unit(freemap[k])}
           dropped == lost \cap {n}
<1>1. \A x : Cardinality({x}) = 1
  BY FS_Singleton
<1>2. Cardinality({}) = 0
  BY FS_EmptySet
<1>3. /\ IsMap(freemap) /\ Units(freemap) \subseteq Sem /\ Units(freemap) \cap lost = {}
      /\ n \in Int
  BY DEF IInv, MapInv, CoverInv, Sem
<1>4. owners = {s \in Slot : Occupied(s) /\ n \in SemsOf(s)}
  BY DEF Occupied
<1>5. segments = {k \in 1 .. Len(freemap) : In(n, freemap[k])}
  <2>1. DOMAIN freemap = 1 .. Len(freemap)
    BY <1>3, UnitsOfMap
  <2>2. \A k \in 1 .. Len(freemap) : n \in Unit(freemap[k]) <=> In(n, freemap[k])
    BY <1>3, UnitsOfMap DEF Unit, In
  <2> QED
    BY <2>1, <2>2
<1> SUFFICES Cardinality(owners) + Cardinality(segments) + Cardinality(dropped) = 1
  BY DEF owners, segments, dropped
<1> HIDE DEF owners, segments
<1>6. CASE n \in Units(freemap)
  <2>1. owners = {}
    BY <1>4, <1>6 DEF IInv, SetsInv
  <2>2. dropped = {}
    BY <1>3, <1>6
  <2>3. PICK k \in 1 .. Len(freemap) : In(n, freemap[k])
    BY <1>3, <1>6, UnitsOfMap
  <2>4. \A j \in 1 .. Len(freemap) : In(n, freemap[j]) => j = k
    BY <1>3, <2>3, SegmentsApart
  <2>5. segments = {k}
    BY <1>5, <2>3, <2>4
  <2>6. Cardinality(owners) = 0 /\ Cardinality(segments) = 1 /\ Cardinality(dropped) = 0
    BY <1>1, <1>2, <2>1, <2>2, <2>5
  <2> HIDE DEF dropped
  <2> QED
    BY <2>6
<1>7. CASE n \in lost
  <2>1. owners = {}
    BY <1>4, <1>7 DEF IInv, SetsInv
  <2>2. dropped = {n}
    BY <1>7
  <2>3. segments = {}
    BY <1>3, <1>5, <1>7, UnitsOfMap
  <2>4. Cardinality(owners) = 0 /\ Cardinality(segments) = 0 /\ Cardinality(dropped) = 1
    BY <1>1, <1>2, <2>1, <2>2, <2>3
  <2> HIDE DEF dropped
  <2> QED
    BY <2>4
<1>8. CASE n \notin Units(freemap) \cup lost
  <2>1. PICK s \in Slot : Occupied(s) /\ n \in SemsOf(s)
    BY <1>8 DEF IInv, CoverInv
  <2>2. owners = {s}
    BY <1>4, <2>1 DEF IInv, SetsInv
  <2>3. dropped = {}
    BY <1>8
  <2>4. segments = {}
    BY <1>3, <1>5, <1>8, UnitsOfMap
  <2>5. Cardinality(owners) = 1 /\ Cardinality(segments) = 0 /\ Cardinality(dropped) = 0
    BY <1>1, <1>2, <2>2, <2>3, <2>4
  <2> HIDE DEF dropped
  <2> QED
    BY <2>5
<1> QED
  BY <1>6, <1>7, <1>8

(* Every semaphore is in one set, in one that is being removed, in the     *)
(* map, or was dropped by the map (semget(), IPC_RMID, rmalloc() and       *)
(* rmfree()); in the map it is zero and nobody sleeps on it.  A slot may   *)
(* be used again only if nobody has waited on its sets: the lock a sleeper *)
(* gives up that finds its set removed is otherwise that of another call.  *)
THEOREM SemsStayDisjoint ==
  ASSUME Waiting \cap Removable \cap Reused = {}
  PROVE  Spec => []SemsDisjoint
<1>1. IInv => SemsDisjoint
  <2> SUFFICES ASSUME IInv PROVE SemsDisjoint
    OBVIOUS
  <2>1. \A n \in Units(freemap) : semval[n] = 0
    BY DEF IInv, ZeroInv
  <2>2. ASSUME NEW n \in Units(freemap), NEW p \in Proc, pc[p] = "asleep" PROVE wait[p][2] # n
    <3>1. WaitsInSet(p) /\ SlotAt(p) \in Slot /\ (Exists(semid[p]) \/ BeingRemoved(semid[p]))
      BY <2>2 DEF IInv, ProcInv, SleepInv, Known, SlotAt
    <3>2. Occupied(SlotAt(p))
      BY <3>1 DEF Exists, BeingRemoved, Occupied, Removing, SlotAt
    <3>3. wait[p][2] \in SemsOf(SlotAt(p))
      BY <3>1 DEF WaitsInSet
    <3> QED
      BY <3>1, <3>2, <3>3 DEF IInv, SetsInv
  <2> QED
    BY <2>1, <2>2, OneOwner DEF SemsDisjoint
<1> QED
  BY <1>1, Invariance, PTL
-----------------------------------------------------------------------------
(* The inductive invariant of the calls, in parts. *)

(* How much of its list p has done, and not taken back. *)
Done(p) == IF pc[p] = "ops" THEN i[p] - 1 ELSE i[p]

(* A semaphore of its set, and p's adjustment for it, when k operations    *)
(* were done. *)
Own(p) == 0 .. sem_nsems[SlotAt(p)] - 1
ValAt(p, num, k) == start[p].vals[num] + Effects(ops[p], num, BOOLEAN)[k]
AdjAt(p, num, k) == start[p].adj[num] - Effects(ops[p], num, {TRUE})[k]
Adjusted(p, k) == {num \in Own(p) : AdjAt(p, num, k) # 0}

(* An operation whose undoing needs the undo block. *)
Undoable(op) == op.undo /\ op.op # 0

(* One entry for a semaphore. *)
Single(entries) ==
  \A j, k \in 1 .. Len(entries) :
    entries[j].id = entries[k].id /\ entries[j].num = entries[k].num => j = k
Bounded(entries) ==
  /\ Len(entries) <= semume
  /\ \A k \in 1 .. Len(entries) : entries[k].aoe \in Aoe \ {0}

(* p has done d operations.  Its set is where they have brought it, and p  *)
(* can go back the way it came: the values were in range, the adjustments  *)
(* were too, and its block has room for the entries there were.            *)
Ran(p, d) ==
  /\ d \in 0 .. Len(ops[p])
  /\ start[p] \in [vals : [Own(p) -> Int], adj : [Own(p) -> Int]]
  /\ \A num \in Own(p) :
       /\ semval[SemOf(semid[p], num)] = ValAt(p, num, d)
       /\ Adjustment(un_ent[p], semid[p], num) = AdjAt(p, num, d)
       /\ \A k \in 0 .. d : ValAt(p, num, k) \in 0 .. semvmx /\ AdjAt(p, num, k) \in Aoe
  /\ \A k \in 0 .. d :
       Len(un_ent[p]) - Cardinality(Adjusted(p, d)) + Cardinality(Adjusted(p, k)) <= semume
  /\ \A k \in 1 .. d : Undoable(ops[p][k]) => p \in block /\ ops[p][k].op \in Aoe
RunInv(p) == pc[p] \in Working => \E d \in 0 .. Len(ops[p]) : Done(p) = d /\ Ran(p, d)

(* It can adjust its entry for a semaphore of its set. *)
CanAdjust(p, val, num) ==
  /\ val \in Aoe
  /\ Adjustment(un_ent[p], semid[p], num) = 0 => Len(un_ent[p]) < semume
  /\ Adjustment(un_ent[p], semid[p], num) - val \in Aoe

(* Who has entries has a block; who has put an empty one on the chain is   *)
(* about to fill it. *)
PushInv(p) ==
  /\ un_ent[p] # <<>> => p \in block
  /\ pushed[p] => /\ p \in block /\ pc[p] \in Working
                  /\ i[p] \in DOMAIN ops[p] /\ Undoable(Current(p))
                  /\ pc[p] = "ops" => /\ CanDo(Current(p), semval[CurrentSem(p)])
                                      /\ CanAdjust(p, Current(p).op, Current(p).num)

LockInv == \A s \in Slot : live[s] /\ semid_lock[s] # None =>
  pc[semid_lock[s]] \in Working /\ SlotAt(semid_lock[s]) = s

Ranges ==
  /\ semval \in [Sem -> 0 .. semvmx] /\ net \in [Sem -> Int]
  /\ seq \in [Slot -> 0 .. MaxSeq]
  /\ block \subseteq Proc /\ Cardinality(block) <= semmnu /\ chain \subseteq Proc
  /\ pushed \in [Proc -> BOOLEAN] /\ DOMAIN start = Proc
BoundInv ==
  /\ \A p \in Proc : Bounded(un_ent[p]) /\ Single(un_ent[p]) /\ RunInv(p) /\ PushInv(p)
  /\ LockInv /\ Ranges

(* A value and its adjustments come to net, and what the holder of the    *)
(* lock has done for good is yet to be added to that.                      *)
ForGood(s, num) ==
  IF semid_lock[s] = None THEN 0
  ELSE Effects(ops[semid_lock[s]], num, {FALSE})[Done(semid_lock[s])]
BalanceAt(s, num) ==
  semval[sem_base[s] + num] + Adjustments(un_ent, IdOf(s), num)
    = net[sem_base[s] + num] + ForGood(s, num)
BalanceInv ==
  \A s \in Slot : live[s] => \A num \in 0 .. sem_nsems[s] - 1 : BalanceAt(s, num)

(* A sleeper's operation k must wait with every value its semaphore has    *)
(* had since the set was locked. *)
WaitsFor(p, k) ==
  /\ k \in DOMAIN ops[p] /\ ops[p][k].op <= 0 /\ ~ops[p][k].nowait
  /\ wait[p] = <<IF ops[p][k].op = 0 THEN "semzcnt_wait" ELSE "semncnt_wait",
                 SemOf(semid[p], ops[p][k].num)>>
Before(p, k) == Effects(ops[p], ops[p][k].num, BOOLEAN)[k - 1]
Seen(s, num, v) ==
  \/ semid_lock[s] = None /\ v = semval[sem_base[s] + num]
  \/ \E q \in Proc : semid_lock[s] = q /\ \E k \in 0 .. Done(q) : v = ValAt(q, num, k)
Sleeps(p, s) ==
  \E k \in DOMAIN ops[p] : WaitsFor(p, k) /\
    \A v \in 0 .. semvmx : Seen(s, ops[p][k].num, v) => MustWait(ops[p][k], v + Before(p, k))
WaitInv(p) ==
  /\ pc[p] = "undo" /\ wait[p] # None =>
       \E k \in DOMAIN ops[p] : WaitsFor(p, k) /\
         MustWait(ops[p][k], ValAt(p, ops[p][k].num, 0) + Before(p, k))
  /\ pc[p] = "asleep" => \A s \in Slot : s = SlotAt(p) /\ Exists(semid[p]) => Sleeps(p, s)
(* To wait for zero comes before the other operations on a semaphore.      *)
ZeroFirst(list) ==
  \A j, k \in DOMAIN list : j < k /\ list[j].num = list[k].num /\ list[k].op = 0
                              => list[k].nowait \/ list[j].op = 0
ListInv == \A p \in Proc : pc[p] \in Working \cup {"asleep", "again"} => ops[p] \in OpLists
WakeInv == ListInv /\ \A p \in Proc : WaitInv(p)

-----------------------------------------------------------------------------
(* Sums. *)

Sums(f, N, g) ==
  /\ f[0] = 0
  /\ \A k \in 1 .. N : f[k] = f[k - 1] + g[k]
  /\ \A k \in 0 .. N : f[k] \in Int
Summing(f, N, g) == f = [k \in 0 .. N |-> IF k = 0 THEN 0 ELSE f[k - 1] + g[k]]

LEMMA SumExists ==
  ASSUME NEW N \in Nat, NEW g, \A k \in 1 .. N : g[k] \in Int
  PROVE  \E f : Summing(f, N, g)
<1> DEFINE S == [k \in 0 .. N |-> Int]
           F == [x \in Int \X (1 .. N) |-> x[1] + g[x[2]]]
<1>1. \A x \in Int, k \in 1 .. N : F[<<x, k>>] = x + g[k] /\ F[<<x, k>>] \in Int
  OBVIOUS
<1>2. \A k \in 0 .. N : S[k] = Int
  OBVIOUS
<1> HIDE DEF S, F
<1>3. PICK f : Computes(f, S, N, 0, F)
  <2>1. 0 \in S[0] /\ \A k \in 1 .. N : \A x \in S[k - 1] : F[<<x, k>>] \in S[k]
    BY <1>1, <1>2
  <2> QED
    BY <2>1, Recursion
<1>4. ASSUME NEW k \in 0 .. N PROVE f[k] = IF k = 0 THEN 0 ELSE f[k - 1] + g[k]
  <2>1. CASE k = 0
    BY <2>1, <1>3 DEF Computes
  <2>2. CASE k # 0
    <3>1. k \in 1 .. N /\ k - 1 \in 0 .. N
      BY <2>2
    <3>2. f[k - 1] \in Int /\ f[k] = F[<<f[k - 1], k>>]
      BY <3>1, <1>2, <1>3 DEF Computes
    <3> QED
      BY <2>2, <3>1, <3>2, <1>1
  <2> QED
    BY <2>1, <2>2
<1>5. Summing(f, N, g)
  BY <1>3, <1>4 DEF Computes, Summing
<1> QED
  BY <1>5

LEMMA SummingSums ==
  ASSUME NEW N \in Nat, NEW g, \A k \in 1 .. N : g[k] \in Int, NEW f, Summing(f, N, g)
  PROVE  Sums(f, N, g)
<1>1. \A k \in 0 .. N : f[k] = IF k = 0 THEN 0 ELSE f[k - 1] + g[k]
  BY DEF Summing
<1>2. f[0] = 0
  BY <1>1
<1>3. ASSUME NEW k \in 1 .. N PROVE f[k] = f[k - 1] + g[k]
  <2>1. k \in 0 .. N /\ k # 0
    OBVIOUS
  <2> QED
    BY <2>1, <1>1
<1> DEFINE S == [k \in 0 .. N |-> Int]
<1>4. \A k \in 0 .. N : S[k] = Int
  OBVIOUS
<1> HIDE DEF S
<1>5. ASSUME NEW k \in 1 .. N, f[k - 1] \in S[k - 1] PROVE f[k] \in S[k]
  BY <1>3, <1>4, <1>5
<1>6. \A k \in 0 .. N : f[k] \in S[k]
  BY <1>2, <1>4, <1>5, StaysIn
<1> QED
  BY <1>2, <1>3, <1>4, <1>6 DEF Sums

(* Two sums that differ in one place, from which on they are apart. *)
LEMMA SumsDiffer ==
  ASSUME NEW N \in Nat, NEW f, NEW g, Sums(f, N, g), NEW h, NEW d, Sums(h, N, d),
         NEW at \in 1 .. N, d[at] \in Int, \A k \in 1 .. N : g[k] \in Int,
         \A k \in 1 .. N : k # at => g[k] = d[k]
  PROVE  h[N] = f[N] + d[at] - g[at]
<1> DEFINE diff == [k \in 0 .. N |-> h[k] - f[k]]
           S == [k \in 0 .. N |-> {IF k < at THEN 0 ELSE d[at] - g[at]}]
<1>1. /\ f[0] = 0 /\ \A k \in 1 .. N : f[k] = f[k - 1] + g[k]
      /\ h[0] = 0 /\ \A k \in 1 .. N : h[k] = h[k - 1] + d[k]
      /\ \A k \in 0 .. N : f[k] \in Int /\ h[k] \in Int
  BY DEF Sums
<1>2. \A k \in 0 .. N : /\ S[k] = {IF k < at THEN 0 ELSE d[at] - g[at]}
                        /\ diff[k] = h[k] - f[k]
  OBVIOUS
<1> HIDE DEF diff, S
<1>3. diff[0] \in S[0]
  BY <1>1, <1>2
<1>4. ASSUME NEW k \in 1 .. N, diff[k - 1] \in S[k - 1] PROVE diff[k] \in S[k]
  <2>1. /\ k \in 0 .. N /\ k - 1 \in 0 .. N
        /\ f[k - 1] \in Int /\ h[k - 1] \in Int /\ f[k] \in Int /\ h[k] \in Int
    BY <1>1
  <2>2. /\ f[k] = f[k - 1] + g[k] /\ h[k] = h[k - 1] + d[k]
        /\ diff[k - 1] = h[k - 1] - f[k - 1] /\ diff[k] = h[k] - f[k]
        /\ diff[k - 1] = IF k - 1 < at THEN 0 ELSE d[at] - g[at]
    BY <2>1, <1>1, <1>2, <1>4
  <2>3. SUFFICES diff[k] = IF k < at THEN 0 ELSE d[at] - g[at]
    BY <2>1, <1>2
  <2>4. CASE k = at
    BY <2>1, <2>2, <2>4
  <2>5. CASE k # at
    <3>1. g[k] = d[k]
      BY <2>5
    <3>2. CASE k < at
      <4>1. h[k - 1] = f[k - 1]
        BY <3>2, <2>1, <2>2
      <4> QED
        BY <4>1, <3>1, <3>2, <2>1, <2>2
    <3>3. CASE k > at
      <4>1. h[k - 1] - f[k - 1] = d[at] - g[at] /\ ~(k < at)
        BY <3>3, <2>1, <2>2
      <4>2. g[k] \in Int
        OBVIOUS
      <4> QED
        BY <4>1, <4>2, <3>1, <2>1, <2>2
    <3> QED
      BY <3>2, <3>3, <2>5
  <2> QED
    BY <2>4, <2>5
<1>5. \A k \in 0 .. N : diff[k] \in S[k]
  BY <1>3, <1>4, StaysIn
<1>6. N \in 0 .. N /\ ~(N < at)
  OBVIOUS
<1>7. h[N] - f[N] = d[at] - g[at]
  BY <1>2, <1>5, <1>6
<1> QED
  BY <1>1, <1>6, <1>7

LEMMA SumsSame ==
  ASSUME NEW N \in Nat, NEW f, NEW g, Sums(f, N, g), NEW h, NEW d, Sums(h, N, d),
         \A k \in 1 .. N : g[k] = d[k]
  PROVE  h[N] = f[N]
<1>1. CASE N = 0
  BY <1>1 DEF Sums
<1>2. CASE N # 0
  <2>1. N \in 1 .. N /\ N - 1 \in 0 .. N
    BY <1>2
  <2>2. \A k \in 0 .. N : h[k] \in {f[k]}
    <3> DEFINE S == [k \in 0 .. N |-> {f[k]}]
    <3>1. \A k \in 0 .. N : S[k] = {f[k]}
      OBVIOUS
    <3> HIDE DEF S
    <3>2. h[0] \in S[0]
      BY <3>1 DEF Sums
    <3>3. ASSUME NEW k \in 1 .. N, h[k - 1] \in S[k - 1] PROVE h[k] \in S[k]
      BY <3>1, <3>3 DEF Sums
    <3>4. \A k \in 0 .. N : h[k] \in S[k]
      BY <3>2, <3>3, StaysIn
    <3> QED
      BY <3>1, <3>4
  <2> QED
    BY <2>2
<1> QED
  BY <1>1, <1>2

(* What the operations of a list, and entries, come to. *)
LEMMA EffectsSum ==
  ASSUME NEW list \in Seq(Op), NEW num, NEW undone
  PROVE  /\ Len(list) \in Nat
         /\ \E g : /\ Sums(Effects(list, num, undone), Len(list), g)
                   /\ \A k \in 1 .. Len(list) :
                        /\ g[k] \in Int
                        /\ g[k] = IF list[k].num = num /\ list[k].undo \in undone
                                  THEN list[k].op ELSE 0
<1> DEFINE N == Len(list)
           g == [k \in 1 .. N |-> IF list[k].num = num /\ list[k].undo \in undone
                                  THEN list[k].op ELSE 0]
           IsSum(f) == f = [k \in 0 .. N |->
             IF k = 0 THEN 0
             ELSE f[k - 1] + IF list[k].num = num /\ list[k].undo \in undone
                             THEN list[k].op ELSE 0]
<1>1. N \in Nat /\ \A k \in 1 .. N : list[k].op \in Int
  <2> DEFINE Q == Op
  <2>1. Len(list) \in Nat /\ \A k \in 1 .. Len(list) : list[k] \in Q
    <3> HIDE DEF Q
    <3>1. list \in Seq(Q)
      BY DEF Q
    <3> QED
      BY <3>1, LenProperties, ElementOfSeq
  <2> QED
    BY <2>1 DEF Op
<1>2. \A k \in 1 .. N : /\ g[k] \in Int
                        /\ g[k] = IF list[k].num = num /\ list[k].undo \in undone
                                  THEN list[k].op ELSE 0
  BY <1>1
<1> HIDE DEF g, N
<1>3. \A f : IsSum(f) <=> Summing(f, N, g)
  <2>1. TAKE f
  <2>2. \A k \in 0 .. N : k # 0 => k \in 1 .. N
    BY <1>1
  <2> DEFINE a == [k \in 0 .. N |->
             IF k = 0 THEN 0
             ELSE f[k - 1] + IF list[k].num = num /\ list[k].undo \in undone
                             THEN list[k].op ELSE 0]
             b == [k \in 0 .. N |-> IF k = 0 THEN 0 ELSE f[k - 1] + g[k]]
  <2>3. a = b
    BY <1>2, <2>2
  <2> QED
    BY <2>3 DEF Summing
<1>4. PICK f0 : Summing(f0, N, g)
  BY <1>1, <1>2, SumExists
<1>5. IsSum(f0)
  BY <1>3, <1>4
<1>6. IsSum(Effects(list, num, undone))
  BY <1>5 DEF Effects, N
<1>7. Sums(Effects(list, num, undone), N, g)
  BY <1>1, <1>2, <1>3, <1>6, SummingSums
<1> QED
  BY <1>1, <1>2, <1>7 DEF N

LEMMA EffectsAre ==
  ASSUME NEW list \in Seq(Op), NEW num, NEW undone
  PROVE  /\ Effects(list, num, undone)[0] = 0
         /\ \A k \in 0 .. Len(list) : Effects(list, num, undone)[k] \in Int
         /\ \A k \in 1 .. Len(list) :
              Effects(list, num, undone)[k] = Effects(list, num, undone)[k - 1] +
                IF list[k].num = num /\ list[k].undo \in undone THEN list[k].op ELSE 0
<1>1. PICK g : /\ Sums(Effects(list, num, undone), Len(list), g)
               /\ \A k \in 1 .. Len(list) :
                        /\ g[k] \in Int
                        /\ g[k] = IF list[k].num = num /\ list[k].undo \in undone
                                  THEN list[k].op ELSE 0
  BY EffectsSum
<1> HIDE DEF Op
<1> QED
  BY <1>1 DEF Sums

Matches(e, id, num) == e.id = id /\ e.num = num
LEMMA AdjustmentSum ==
  ASSUME NEW q \in Seq(Entries), NEW id, NEW num
  PROVE  /\ Len(q) \in Nat
         /\ \E f, g : /\ Sums(f, Len(q), g) /\ Adjustment(q, id, num) = f[Len(q)]
                      /\ \A k \in 1 .. Len(q) :
                           /\ g[k] \in Int
                           /\ g[k] = IF Matches(q[k], id, num) THEN q[k].aoe ELSE 0
<1> DEFINE N == Len(q)
           g == [k \in 1 .. N |-> IF q[k].id = id /\ q[k].num = num THEN q[k].aoe ELSE 0]
           IsSum(f) == f = [k \in 0 .. N |->
             IF k = 0 THEN 0
             ELSE f[k - 1] + IF q[k].id = id /\ q[k].num = num THEN q[k].aoe ELSE 0]
<1>1. N \in Nat /\ \A k \in 1 .. N : q[k].aoe \in Int
  <2> DEFINE Q == Entries
  <2>1. Len(q) \in Nat /\ \A k \in 1 .. Len(q) : q[k] \in Q
    <3> HIDE DEF Q
    <3>1. q \in Seq(Q)
      BY DEF Q
    <3> QED
      BY <3>1, LenProperties, ElementOfSeq
  <2> QED
    BY <2>1 DEF Entries
<1>2. \A k \in 1 .. N :
        g[k] \in Int /\ g[k] = IF q[k].id = id /\ q[k].num = num THEN q[k].aoe ELSE 0
  BY <1>1
<1> HIDE DEF g, N
<1>3. \A f : IsSum(f) <=> Summing(f, N, g)
  <2>1. TAKE f
  <2>2. \A k \in 0 .. N : k # 0 => k \in 1 .. N
    BY <1>1
  <2> DEFINE a == [k \in 0 .. N |->
             IF k = 0 THEN 0
             ELSE f[k - 1] + IF q[k].id = id /\ q[k].num = num THEN q[k].aoe ELSE 0]
             b == [k \in 0 .. N |-> IF k = 0 THEN 0 ELSE f[k - 1] + g[k]]
  <2>3. a = b
    BY <1>2, <2>2
  <2> QED
    BY <2>3 DEF Summing
<1>4. PICK f0 : Summing(f0, N, g)
  BY <1>1, <1>2, SumExists
<1>5. IsSum(f0)
  BY <1>3, <1>4
<1>6. PICK f : IsSum(f) /\ Adjustment(q, id, num) = f[N]
  BY <1>5 DEF Adjustment, N
<1>7. Sums(f, N, g)
  BY <1>1, <1>2, <1>3, <1>6, SummingSums
<1> QED
  BY <1>1, <1>2, <1>6, <1>7 DEF N, Matches

(* Without an entry there is no adjustment; with a single one it is that. *)
LEMMA ZeroSum ==
  ASSUME NEW N \in Nat, NEW f, NEW g, Sums(f, N, g), \A k \in 1 .. N : g[k] = 0
  PROVE  f[N] = 0
<1> DEFINE d == [k \in 1 .. N |-> 0]
           h == [k \in 0 .. N |-> 0]
<1>1. Sums(h, N, d) /\ h[N] = 0
  BY DEF Sums
<1>2. \A k \in 1 .. N : d[k] = g[k]
  OBVIOUS
<1> HIDE DEF d, h
<1>3. f[N] = h[N]
  BY <1>1, <1>2, SumsSame
<1> QED
  BY <1>1, <1>3
LEMMA NoAdjustment ==
  ASSUME NEW q \in Seq(Entries), NEW id, NEW num,
         \A k \in 1 .. Len(q) : ~Matches(q[k], id, num)
  PROVE  Adjustment(q, id, num) = 0
<1>1. Len(q) \in Nat
  BY AdjustmentSum
<1>2. PICK f, g : /\ Sums(f, Len(q), g) /\ Adjustment(q, id, num) = f[Len(q)]
                  /\ \A k \in 1 .. Len(q) :
                           /\ g[k] \in Int
                           /\ g[k] = IF Matches(q[k], id, num) THEN q[k].aoe ELSE 0
  BY AdjustmentSum
<1> HIDE DEF Entries
<1> QED
  BY <1>1, <1>2, ZeroSum
LEMMA OneAdjustment ==
  ASSUME NEW q \in Seq(Entries), NEW id, NEW num, Single(q),
         NEW at \in 1 .. Len(q), Matches(q[at], id, num)
  PROVE  Adjustment(q, id, num) = q[at].aoe
<1>1. Len(q) \in Nat
  BY AdjustmentSum
<1>2. PICK f, g : /\ Sums(f, Len(q), g) /\ Adjustment(q, id, num) = f[Len(q)]
                  /\ \A k \in 1 .. Len(q) :
                           /\ g[k] \in Int
                           /\ g[k] = IF Matches(q[k], id, num) THEN q[k].aoe ELSE 0
  BY AdjustmentSum
<1>3. \A k \in 1 .. Len(q) : k # at => g[k] = 0
  BY <1>2 DEF Single, Matches
<1> DEFINE N == Len(q)
           d == [k \in 1 .. N |-> 0]
           h == [k \in 0 .. N |-> 0]
<1>4. Sums(h, N, d) /\ h[N] = 0 /\ \A k \in 1 .. N : d[k] = 0
  BY <1>1 DEF Sums
<1>5. at \in 1 .. N /\ N \in Nat /\ Sums(f, N, g) /\ \A k \in 1 .. N : g[k] \in Int
  BY <1>1, <1>2
<1>6. d[at] = 0 /\ d[at] \in Int /\ \A k \in 1 .. N : k # at => g[k] = d[k]
  BY <1>3, <1>4
<1> HIDE DEF d, h, N, Entries
<1>7. h[N] = f[N] + d[at] - g[at]
  BY <1>4, <1>5, <1>6, SumsDiffer
<1>8. f[N] \in Int /\ g[at] \in Int
  BY <1>5 DEF Sums
<1>9. f[N] = g[at]
  BY <1>4, <1>6, <1>7, <1>8
<1>10. g[at] = q[at].aoe
  BY <1>2
<1> QED
  BY <1>2, <1>9, <1>10 DEF N
LEMMA AdjustmentInt ==
  ASSUME NEW q \in Seq(Entries), NEW id, NEW num
  PROVE  Adjustment(q, id, num) \in Int
<1>1. Len(q) \in Nat
  BY AdjustmentSum
<1>2. PICK f, g : Sums(f, Len(q), g) /\ Adjustment(q, id, num) = f[Len(q)]
  BY AdjustmentSum
<1> HIDE DEF Entries
<1>3. Len(q) \in 0 .. Len(q)
  BY <1>1
<1> QED
  BY <1>2, <1>3 DEF Sums

(* Which entry a process has for a semaphore decides, where there is one. *)
SameFor(q, r, id, num) ==
  /\ \A j \in 1 .. Len(q) : Matches(q[j], id, num) => \E k \in 1 .. Len(r) : r[k] = q[j]
  /\ \A k \in 1 .. Len(r) : Matches(r[k], id, num) => \E j \in 1 .. Len(q) : q[j] = r[k]
LEMMA SameAdjustment ==
  ASSUME NEW q \in Seq(Entries), NEW r \in Seq(Entries), Single(q), Single(r),
         NEW id, NEW num, SameFor(q, r, id, num)
  PROVE  Adjustment(r, id, num) = Adjustment(q, id, num)
<1> HIDE DEF Entries
<1>1. CASE \E j \in 1 .. Len(q) : Matches(q[j], id, num)
  <2>1. PICK j \in 1 .. Len(q) : Matches(q[j], id, num)
    BY <1>1
  <2>2. PICK k \in 1 .. Len(r) : r[k] = q[j]
    BY <2>1 DEF SameFor
  <2>3. Matches(r[k], id, num)
    BY <2>1, <2>2
  <2>4. Adjustment(q, id, num) = q[j].aoe
    BY <2>1, OneAdjustment
  <2>5. Adjustment(r, id, num) = r[k].aoe
    BY <2>3, OneAdjustment
  <2> QED
    BY <2>2, <2>4, <2>5
<1>2. CASE \A j \in 1 .. Len(q) : ~Matches(q[j], id, num)
  <2>1. \A k \in 1 .. Len(r) : ~Matches(r[k], id, num)
    BY <1>2 DEF SameFor
  <2>2. Adjustment(q, id, num) = 0
    BY <1>2, NoAdjustment
  <2>3. Adjustment(r, id, num) = 0
    BY <2>1, NoAdjustment
  <2> QED
    BY <2>2, <2>3
<1> QED
  BY <1>1, <1>2

LEMMA NoEntry ==
  ASSUME NEW p \in Proc, un_ent[p] \in Seq(Entries), NEW id, NEW num, Entry(p, id, num) = 0
  PROVE  \A k \in 1 .. Len(un_ent[p]) : ~Matches(un_ent[p][k], id, num)
<1> DEFINE I == {k \in 1 .. Len(un_ent[p]) : un_ent[p][k].id = id /\ un_ent[p][k].num = num}
<1>1. Len(un_ent[p]) \in Nat
  BY LenProperties
<1>2. Entry(p, id, num) = IF I # {} THEN Min(I) ELSE 0
  BY DEF Entry, SelectInSeq
<1>3. CASE I # {}
  <2>1. I \in SUBSET Nat /\ 0 \notin I
    BY <1>1
  <2>2. Min(I) \in I
    <3> HIDE DEF I
    <3> QED
      BY <2>1, <1>3, MinNat
  <2>3. Min(I) = 0
    BY <1>2, <1>3
  <2> QED
    BY <2>1, <2>2, <2>3
<1>4. CASE I = {}
  BY <1>4 DEF Matches
<1> QED
  BY <1>3, <1>4

(* semaoe() makes r of the entries q. *)
Becomes(q, r, id, num, val) ==
  /\ r \in Seq(Entries) /\ Single(r)
  /\ Adjustment(r, id, num) = Adjustment(q, id, num) - val
  /\ \A id2, num2 : ~(id2 = id /\ num2 = num) => Adjustment(r, id2, num2) = Adjustment(q, id2, num2)
  /\ Len(r) = Len(q) + (IF Adjustment(q, id, num) = 0 THEN 1
                        ELSE IF Adjustment(q, id, num) = val THEN -1 ELSE 0)
  /\ Len(r) <= semume /\ Adjustment(q, id, num) - val \in Aoe => Bounded(r)

Inserted(q, r, at, e, S) ==
  /\ r \in Seq(S) /\ Len(r) = Len(q) + 1 /\ r[at] = e
  /\ \A j \in 1 .. Len(q) + 1 : j < at => r[j] = q[j]
  /\ \A j \in 1 .. Len(q) + 1 : j > at => r[j] = q[j - 1]
LEMMA InsertedIs ==
  ASSUME NEW S, NEW q \in Seq(S), NEW at \in 1 .. Len(q) + 1, NEW e \in S
  PROVE  Inserted(q, InsertAt(q, at, e), at, e, S)
BY InsertAtProperties DEF Inserted
LEMMA EntryInserted ==
  ASSUME NEW q \in Seq(Entries), Single(q), Bounded(q), NEW id \in Nat, NEW num \in Nat,
         NEW val \in Int, val # 0, \A k \in 1 .. Len(q) : ~Matches(q[k], id, num),
         NEW at \in 1 .. Len(q) + 1
  PROVE  Becomes(q, InsertAt(q, at, [id |-> id, num |-> num, aoe |-> -val]), id, num, val)
<1> DEFINE e == [id |-> id, num |-> num, aoe |-> -val]
           r == InsertAt(q, at, e)
<1>1. e \in Entries /\ e.id = id /\ e.num = num /\ e.aoe = -val /\ -val \in Int
  BY DEF Entries
<1>2. Len(q) \in Nat
  BY LenProperties
<1> HIDE DEF e, Entries
<1>3. /\ r \in Seq(Entries) /\ Len(r) = Len(q) + 1 /\ r[at] = e
      /\ \A j \in 1 .. Len(q) + 1 : j < at => r[j] = q[j]
      /\ \A j \in 1 .. Len(q) + 1 : j > at => r[j] = q[j - 1]
  <2>1. e \in Entries
    BY <1>1
  <2>2. Inserted(q, r, at, e, Entries)
    BY <2>1, InsertedIs
  <2> QED
    BY <2>2 DEF Inserted
<1> HIDE DEF r
<1>4. ASSUME NEW j \in 1 .. Len(r)
      PROVE  \/ j = at /\ r[j] = e
             \/ \E k \in 1 .. Len(q) : r[j] = q[k] /\ ((k = j /\ j < at) \/ (k = j - 1 /\ j > at))
  <2>1. CASE j = at
    BY <2>1, <1>3
  <2>2. CASE j < at
    <3>1. j \in 1 .. Len(q) /\ j \in 1 .. Len(q) + 1
      BY <2>2, <1>2, <1>3
    <3> QED
      BY <3>1, <2>2, <1>3
  <2>3. CASE j > at
    <3>1. j - 1 \in 1 .. Len(q) /\ j \in 1 .. Len(q) + 1
      BY <2>3, <1>2, <1>3
    <3> QED
      BY <3>1, <2>3, <1>3
  <2>4. j = at \/ j < at \/ j > at
    BY <1>2, <1>3
  <2> QED
    BY <2>1, <2>2, <2>3, <2>4
<1>5. ASSUME NEW k \in 1 .. Len(q) PROVE \E j \in 1 .. Len(r) : r[j] = q[k]
  <2>1. CASE k < at
    <3>1. k \in 1 .. Len(q) + 1 /\ k \in 1 .. Len(r)
      BY <1>2, <1>3
    <3> QED
      BY <3>1, <2>1, <1>3
  <2>2. CASE k >= at
    <3>1. k + 1 \in 1 .. Len(q) + 1 /\ k + 1 \in 1 .. Len(r) /\ k + 1 > at /\ k + 1 - 1 = k
      BY <2>2, <1>2, <1>3
    <3>2. r[k + 1] = q[k]
      BY <3>1, <1>3
    <3> QED
      BY <3>1, <3>2
  <2>3. k < at \/ k >= at
    BY <1>2
  <2> QED
    BY <2>1, <2>2, <2>3
<1>6. Matches(e, id, num)
  BY <1>1 DEF Matches
<1>7. Single(r)
  <2>1. SUFFICES ASSUME NEW j \in 1 .. Len(r), NEW k \in 1 .. Len(r),
                        r[j].id = r[k].id, r[j].num = r[k].num
                 PROVE  j = k
    BY DEF Single
  <2>2. CASE j = at
    <3>1. CASE k = at
      BY <2>2, <3>1
    <3>2. CASE k # at
      <4>1. PICK kk \in 1 .. Len(q) : r[k] = q[kk]
        BY <3>2, <1>4
      <4> QED
        BY <2>1, <2>2, <4>1, <1>1, <1>3 DEF Matches
    <3> QED
      BY <3>1, <3>2
  <2>3. CASE k = at
    <3>1. CASE j # at
      <4>1. PICK jj \in 1 .. Len(q) : r[j] = q[jj]
        BY <3>1, <1>4
      <4> QED
        BY <2>1, <2>3, <4>1, <1>1, <1>3 DEF Matches
    <3> QED
      BY <2>2, <3>1
  <2>4. CASE j # at /\ k # at
    <3>1. PICK jj \in 1 .. Len(q) : r[j] = q[jj] /\ ((jj = j /\ j < at) \/ (jj = j - 1 /\ j > at))
      BY <2>4, <1>4
    <3>2. PICK kk \in 1 .. Len(q) : r[k] = q[kk] /\ ((kk = k /\ k < at) \/ (kk = k - 1 /\ k > at))
      BY <2>4, <1>4
    <3>3. jj = kk
      BY <2>1, <3>1, <3>2 DEF Single
    <3> QED
      BY <3>1, <3>2, <3>3, <1>2, <1>3
  <2> QED
    BY <2>2, <2>3, <2>4
<1>8. Adjustment(q, id, num) = 0
  BY NoAdjustment
<1>9. Adjustment(r, id, num) = -val
  <2>1. at \in 1 .. Len(r) /\ Matches(r[at], id, num)
    BY <1>2, <1>3, <1>6
  <2> QED
    BY <2>1, <1>1, <1>3, <1>7, OneAdjustment
<1>10. ASSUME NEW id2, NEW num2, ~(id2 = id /\ num2 = num)
       PROVE  Adjustment(r, id2, num2) = Adjustment(q, id2, num2)
  <2>1. ~Matches(e, id2, num2)
    BY <1>1, <1>10 DEF Matches
  <2>2. SameFor(q, r, id2, num2)
    BY <2>1, <1>4, <1>5 DEF SameFor
  <2> QED
    BY <2>2, <1>3, <1>7, SameAdjustment
<1>11. Len(r) <= semume /\ Adjustment(q, id, num) - val \in Aoe => Bounded(r)
  <2>1. SUFFICES ASSUME Len(r) <= semume, -val \in Aoe PROVE Bounded(r)
    BY <1>8
  <2>2. \A k \in 1 .. Len(q) : q[k].aoe \in Aoe \ {0}
    BY DEF Bounded
  <2>3. e.aoe \in Aoe \ {0}
    BY <2>1, <1>1
  <2>4. \A j \in 1 .. Len(r) : r[j].aoe \in Aoe \ {0}
    BY <2>2, <2>3, <1>4
  <2> QED
    BY <2>1, <2>4 DEF Bounded
<1>12. Adjustment(r, id, num) = Adjustment(q, id, num) - val
  BY <1>8, <1>9
<1> QED
  BY <1>3, <1>7, <1>8, <1>10, <1>11, <1>12 DEF Becomes, r, e

LEMMA EntryRemoved ==
  ASSUME NEW q \in Seq(Entries), Single(q), NEW at \in 1 .. Len(q)
  PROVE  /\ RemoveAt(q, at) \in Seq(Entries) /\ Single(RemoveAt(q, at))
         /\ Len(RemoveAt(q, at)) = Len(q) - 1
         /\ Adjustment(RemoveAt(q, at), q[at].id, q[at].num) = 0
         /\ \A id2, num2 : ~Matches(q[at], id2, num2) =>
              Adjustment(RemoveAt(q, at), id2, num2) = Adjustment(q, id2, num2)
         /\ Bounded(q) => Bounded(RemoveAt(q, at))
<1> DEFINE r == RemoveAt(q, at)
<1>1. Len(q) \in Nat
  BY LenProperties
<1> HIDE DEF Entries
<1>2. /\ r \in Seq(Entries) /\ Len(r) = Len(q) - 1
      /\ \A j \in 1 .. Len(q) - 1 : j < at => r[j] = q[j]
      /\ \A j \in 1 .. Len(q) - 1 : j >= at => r[j] = q[j + 1]
  BY RemoveAtProperties
<1> HIDE DEF r
<1>3. ASSUME NEW j \in 1 .. Len(r)
      PROVE  \E k \in 1 .. Len(q) : k # at /\ r[j] = q[k] /\ ((k = j /\ j < at) \/ (k = j + 1 /\ j >= at))
  <2>1. CASE j < at
    BY <2>1, <1>1, <1>2
  <2>2. CASE j >= at
    <3>1. j + 1 \in 1 .. Len(q) /\ j + 1 # at
      BY <2>2, <1>1, <1>2
    <3> QED
      BY <3>1, <2>2, <1>2
  <2>3. j < at \/ j >= at
    BY <1>1, <1>2
  <2> QED
    BY <2>1, <2>2, <2>3
<1>4. ASSUME NEW k \in 1 .. Len(q), k # at PROVE \E j \in 1 .. Len(r) : r[j] = q[k]
  <2>1. CASE k < at
    <3>1. k \in 1 .. Len(q) - 1 /\ k \in 1 .. Len(r)
      BY <2>1, <1>1, <1>2
    <3> QED
      BY <3>1, <2>1, <1>2
  <2>2. CASE k > at
    <3>1. k - 1 \in 1 .. Len(q) - 1 /\ k - 1 \in 1 .. Len(r) /\ k - 1 >= at /\ k - 1 + 1 = k
      BY <2>2, <1>1, <1>2
    <3>2. r[k - 1] = q[k]
      BY <3>1, <1>2
    <3> QED
      BY <3>1, <3>2
  <2>3. k < at \/ k > at
    BY <1>4, <1>1
  <2> QED
    BY <2>1, <2>2, <2>3
<1>5. Single(r)
  <2>1. SUFFICES ASSUME NEW j \in 1 .. Len(r), NEW k \in 1 .. Len(r),
                        r[j].id = r[k].id, r[j].num = r[k].num
                 PROVE  j = k
    BY DEF Single
  <2>2. PICK jj \in 1 .. Len(q) : r[j] = q[jj] /\ ((jj = j /\ j < at) \/ (jj = j + 1 /\ j >= at))
    BY <1>3
  <2>3. PICK kk \in 1 .. Len(q) : r[k] = q[kk] /\ ((kk = k /\ k < at) \/ (kk = k + 1 /\ k >= at))
    BY <1>3
  <2>4. jj = kk
    BY <2>1, <2>2, <2>3 DEF Single
  <2> QED
    BY <2>2, <2>3, <2>4, <1>1, <1>2
<1>6. Adjustment(r, q[at].id, q[at].num) = 0
  <2>1. \A j \in 1 .. Len(r) : ~Matches(r[j], q[at].id, q[at].num)
    BY <1>3 DEF Single, Matches
  <2> QED
    BY <2>1, <1>2, NoAdjustment
<1>7. ASSUME NEW id2, NEW num2, ~Matches(q[at], id2, num2)
      PROVE  Adjustment(r, id2, num2) = Adjustment(q, id2, num2)
  <2>1. SameFor(q, r, id2, num2)
    BY <1>3, <1>4, <1>7 DEF SameFor
  <2> QED
    BY <2>1, <1>2, <1>5, SameAdjustment
<1>8. Bounded(q) => Bounded(r)
  <2>1. SUFFICES ASSUME Bounded(q) PROVE Bounded(r)
    OBVIOUS
  <2>2. Len(r) <= semume
    <3>1. semume \in Nat /\ Len(q) <= semume
      BY <2>1, InfoAssumption DEF Bounded
    <3> QED
      BY <3>1, <1>1, <1>2
  <2>3. \A j \in 1 .. Len(r) : r[j].aoe \in Aoe \ {0}
    BY <2>1, <1>3 DEF Bounded
  <2> QED
    BY <2>2, <2>3 DEF Bounded
<1> QED
  BY <1>2, <1>5, <1>6, <1>7, <1>8 DEF r

LEMMA EntryChanged ==
  ASSUME NEW q \in Seq(Entries), Single(q), Bounded(q), NEW at \in 1 .. Len(q), NEW val \in Int,
         q[at].aoe # val
  PROVE  Becomes(q, [q EXCEPT ![at].aoe = @ - val], q[at].id, q[at].num, val)
         \/ val = 0
<1> SUFFICES ASSUME val # 0 PROVE Becomes(q, [q EXCEPT ![at].aoe = @ - val], q[at].id, q[at].num, val)
  OBVIOUS
<1> DEFINE r == [q EXCEPT ![at].aoe = @ - val]
           id == q[at].id
           num == q[at].num
<1>1. PICK e \in Entries : e = q[at]
  BY ElementOfSeq
<1>2. PICK d : d = [e EXCEPT !.aoe = @ - val]
  OBVIOUS
<1>3. d = [id |-> e.id, num |-> e.num, aoe |-> e.aoe - val]
  BY <1>2, EntryExcept
<1>4. /\ e.id = id /\ e.num = num /\ e.aoe \in Int /\ e.id \in Nat /\ e.num \in Nat
  BY <1>1 DEF Entries
<1>5. d \in Entries /\ d.id = id /\ d.num = num /\ d.aoe = e.aoe - val
  BY <1>3, <1>4 DEF Entries
<1>6. r = [q EXCEPT ![at] = d]
  BY <1>1, <1>2
<1> HIDE DEF Entries, r
<1>7. /\ r \in Seq(Entries) /\ Len(r) = Len(q) /\ r[at] = d
      /\ \A k \in 1 .. Len(q) : k # at => r[k] = q[k]
  BY <1>5, <1>6, ExceptSeq
<1>8. \A k \in 1 .. Len(q) : r[k].id = q[k].id /\ r[k].num = q[k].num
  BY <1>1, <1>4, <1>5, <1>7
<1>9. Single(r)
  BY <1>7, <1>8 DEF Single
<1>10. Adjustment(q, id, num) = e.aoe
  <2>1. Matches(q[at], id, num)
    BY DEF Matches
  <2> QED
    BY <2>1, <1>1, OneAdjustment
<1>11. Adjustment(r, id, num) = e.aoe - val
  <2>1. Matches(r[at], id, num)
    BY <1>5, <1>7 DEF Matches
  <2> QED
    BY <2>1, <1>5, <1>7, <1>9, OneAdjustment
<1>12. ASSUME NEW id2, NEW num2, ~(id2 = id /\ num2 = num)
       PROVE  Adjustment(r, id2, num2) = Adjustment(q, id2, num2)
  <2>1. ~Matches(q[at], id2, num2) /\ ~Matches(r[at], id2, num2)
    BY <1>5, <1>7, <1>12 DEF Matches
  <2>2. SameFor(q, r, id2, num2)
    BY <2>1, <1>7 DEF SameFor
  <2> QED
    BY <2>2, <1>7, <1>9, SameAdjustment
<1>13. e.aoe # 0 /\ e.aoe # val
  BY <1>1 DEF Bounded
<1>14. ASSUME e.aoe - val \in Aoe PROVE Bounded(r)
  <2>1. d.aoe \in Aoe \ {0}
    BY <1>4, <1>5, <1>13, <1>14
  <2>2. \A k \in 1 .. Len(q) : r[k].aoe \in Aoe \ {0}
    BY <2>1, <1>7 DEF Bounded
  <2> QED
    BY <2>2, <1>7 DEF Bounded
<1>15. Len(r) = Len(q) + (IF Adjustment(q, id, num) = 0 THEN 1
                        ELSE IF Adjustment(q, id, num) = val THEN -1 ELSE 0)
  <2>1. Len(q) \in Nat
    BY LenProperties
  <2> QED
    BY <2>1, <1>7, <1>10, <1>13
<1>16. Adjustment(r, id, num) = Adjustment(q, id, num) - val
  BY <1>10, <1>11
<1>17. Len(r) <= semume /\ Adjustment(q, id, num) - val \in Aoe => Bounded(r)
  BY <1>10, <1>14
<1> QED
  BY <1>7, <1>9, <1>12, <1>15, <1>16, <1>17 DEF Becomes, r

(* The entry of a semaphore, and its adjustment. *)
LEMMA EntryIs ==
  ASSUME NEW p \in Proc, un_ent[p] \in Seq(Entries), Single(un_ent[p]), Bounded(un_ent[p]),
         NEW id, NEW num
  PROVE  LET k == Entry(p, id, num)
             q == un_ent[p] IN
         \/ k = 0 /\ Adjustment(q, id, num) = 0 /\ \A j \in 1 .. Len(q) : ~Matches(q[j], id, num)
         \/ /\ k \in 1 .. Len(q) /\ q[k].id = id /\ q[k].num = num
            /\ Adjustment(q, id, num) = q[k].aoe /\ q[k].aoe \in Aoe \ {0}
<1> DEFINE k == Entry(p, id, num)
           q == un_ent[p]
<1>1. Len(q) \in Nat /\ k \in 0 .. Len(q) /\ (k # 0 => q[k].id = id /\ q[k].num = num)
  BY LenProperties, EntryFound
<1> HIDE DEF Entries
<1>2. CASE k = 0
  <2>1. \A j \in 1 .. Len(q) : ~Matches(q[j], id, num)
    BY <1>2, NoEntry
  <2>2. Adjustment(q, id, num) = 0
    BY <2>1, NoAdjustment
  <2> QED
    BY <1>2, <2>1, <2>2
<1>3. CASE k # 0
  <2>1. k \in 1 .. Len(q) /\ Matches(q[k], id, num)
    BY <1>1, <1>3 DEF Matches
  <2> HIDE DEF k
  <2>2. Adjustment(q, id, num) = q[k].aoe
    BY <2>1, OneAdjustment
  <2>3. q[k].aoe \in Aoe \ {0}
    BY <2>1 DEF Bounded
  <2> QED
    BY <2>1, <2>2, <2>3 DEF k, Matches
<1> QED
  BY <1>2, <1>3

(* semaoe() *)
LEMMA semaoeEntries ==
  ASSUME NEW p \in Proc, un_ent \in [Proc -> Seq(Entries)],
         Single(un_ent[p]), Bounded(un_ent[p]),
         NEW id \in Nat, NEW num \in Nat, NEW val \in Int, val # 0, semaoe(p, val, id, num)
  PROVE  /\ Becomes(un_ent[p], un_ent'[p], id, num, val)
         /\ \A q \in Proc \ {p} : un_ent'[q] = un_ent[q]
<1> DEFINE k == Entry(p, id, num)
           q == un_ent[p]
           I == {j \in 1 .. Len(q) : q[j].id > id \/ (q[j].id = id /\ q[j].num > num)}
           later == SelectInSeq(un_ent[p], LAMBDA e : e.id > id \/ (e.id = id /\ e.num > num))
           at == IF later = 0 THEN Len(un_ent[p]) + 1 ELSE later
           entries == CASE k = 0 -> InsertAt(un_ent[p], at, [id |-> id, num |-> num, aoe |-> -val])
                   [] k # 0 /\ un_ent[p][k].aoe = val -> RemoveAt(un_ent[p], k)
                   [] OTHER -> [un_ent[p] EXCEPT ![k].aoe = @ - val]
<1> USE DEF Entries
<1>1. un_ent[p] \in Seq(Entries) /\ Len(q) \in Nat
  BY LenProperties
<1> HIDE DEF Entries
<1>2. un_ent' = [un_ent EXCEPT ![p] = entries]
  BY DEF semaoe
<1>3. \/ k = 0 /\ Adjustment(q, id, num) = 0 /\ \A j \in 1 .. Len(q) : ~Matches(q[j], id, num)
      \/ /\ k \in 1 .. Len(q) /\ q[k].id = id /\ q[k].num = num
         /\ Adjustment(q, id, num) = q[k].aoe /\ q[k].aoe \in Aoe \ {0}
  BY <1>1, EntryIs
<1>4. later = IF I # {} THEN Min(I) ELSE 0
  BY DEF SelectInSeq
<1> HIDE DEF k, later
<1>5. at \in 1 .. Len(q) + 1
  <2>1. CASE I = {}
    BY <2>1, <1>1, <1>4
  <2>2. CASE I # {}
    <3>1. I \in SUBSET Nat
      BY <1>1
    <3>2. Min(I) \in I
      <4> HIDE DEF I
      <4> QED
        BY <2>2, <3>1, MinNat
    <3> QED
      BY <2>2, <3>2, <1>1, <1>4
  <2> QED
    BY <2>1, <2>2
<1> HIDE DEF at
<1>6. /\ un_ent'[p] = entries
      /\ \A r \in Proc \ {p} : un_ent'[r] = un_ent[r]
  BY <1>2
<1>7. CASE k = 0
  <2>1. \A j \in 1 .. Len(q) : ~Matches(q[j], id, num)
    BY <1>1, <1>3, <1>7
  <2>2. Becomes(q, InsertAt(q, at, [id |-> id, num |-> num, aoe |-> -val]), id, num, val)
    BY <1>1, <1>5, <2>1, EntryInserted
  <2>3. entries = InsertAt(q, at, [id |-> id, num |-> num, aoe |-> -val])
    BY <1>7
  <2> QED
    BY <1>6, <2>2, <2>3
<1>8. CASE k # 0 /\ q[k].aoe = val
  <2>1. /\ k \in 1 .. Len(q) /\ q[k].id = id /\ q[k].num = num
        /\ Adjustment(q, id, num) = val
    BY <1>3, <1>8
  <2> DEFINE r == RemoveAt(q, k)
  <2>2. /\ r \in Seq(Entries) /\ Single(r)
        /\ Len(r) = Len(q) - 1
        /\ Adjustment(r, id, num) = 0
        /\ \A id2, num2 : ~Matches(q[k], id2, num2) =>
              Adjustment(r, id2, num2) = Adjustment(q, id2, num2)
        /\ Bounded(r)
    BY <1>1, <2>1, EntryRemoved
  <2>3. entries = r
    BY <1>8
  <2> HIDE DEF r
  <2>4. Len(r) = Len(q) + (IF Adjustment(q, id, num) = 0 THEN 1
                        ELSE IF Adjustment(q, id, num) = val THEN -1 ELSE 0)
    BY <1>1, <2>1, <2>2
  <2>5. Adjustment(r, id, num) = Adjustment(q, id, num) - val
    BY <2>1, <2>2
  <2>6. \A id2, num2 : ~(id2 = id /\ num2 = num) => Adjustment(r, id2, num2) = Adjustment(q, id2, num2)
    BY <2>1, <2>2 DEF Matches
  <2>7. Becomes(q, r, id, num, val)
    BY <2>2, <2>4, <2>5, <2>6 DEF Becomes
  <2> QED
    BY <1>6, <2>3, <2>7
<1>9. CASE k # 0 /\ q[k].aoe # val
  <2>1. k \in 1 .. Len(q) /\ q[k].id = id /\ q[k].num = num
    BY <1>3, <1>9
  <2>2. Becomes(q, [q EXCEPT ![k].aoe = @ - val], q[k].id, q[k].num, val)
    BY <1>1, <1>9, <2>1, EntryChanged
  <2>3. entries = [q EXCEPT ![k].aoe = @ - val]
    BY <1>9
  <2> QED
    BY <1>6, <2>1, <2>2, <2>3
<1> QED
  BY <1>6, <1>7, <1>8, <1>9

(* What it takes for it to go well. *)
LEMMA AoeFits ==
  ASSUME NEW p \in Proc, un_ent \in [Proc -> Seq(Entries)],
         Single(un_ent[p]), Bounded(un_ent[p]), NEW id, NEW num, NEW val \in Int
  PROVE  ~AoeFails(p, val, id, num) <=>
           /\ val \in Aoe
           /\ p \in block \/ Cardinality(block) # semmnu
           /\ Adjustment(un_ent[p], id, num) = 0 => Len(un_ent[p]) < semume
           /\ Adjustment(un_ent[p], id, num) - val \in Aoe
<1> USE DEF Entries
<1>1. un_ent[p] \in Seq(Entries) /\ Len(un_ent[p]) \in Nat
  BY LenProperties
<1> HIDE DEF Entries
<1>2. semume \in Nat /\ semaem \in Nat
  BY InfoAssumption
<1> DEFINE k == Entry(p, id, num)
           q == un_ent[p]
<1>3. \/ k = 0 /\ Adjustment(q, id, num) = 0
      \/ /\ k \in 1 .. Len(q)
         /\ Adjustment(q, id, num) = q[k].aoe /\ q[k].aoe \in Aoe \ {0}
  BY <1>1, EntryIs
<1>4. AoeFails(p, val, id, num) <=>
        \/ val \notin Aoe
        \/ p \notin block /\ Cardinality(block) = semmnu
        \/ k = 0 /\ Len(q) >= semume
        \/ k # 0 /\ q[k].aoe - val \notin Aoe
  BY DEF AoeFails
<1> HIDE DEF k, q
<1>5. CASE k = 0 /\ Adjustment(q, id, num) = 0
  <2>1. val \in Aoe => Adjustment(q, id, num) - val \in Aoe
    BY <1>2, <1>5 DEF Aoe
  <2>2. Len(q) < semume <=> ~(Len(q) >= semume)
    BY <1>1, <1>2 DEF q
  <2> QED
    BY <1>4, <1>5, <2>1, <2>2 DEF q
<1>6. CASE /\ k \in 1 .. Len(q)
           /\ Adjustment(q, id, num) = q[k].aoe /\ q[k].aoe \in Aoe \ {0}
  <2>1. k # 0 /\ Adjustment(q, id, num) # 0
    BY <1>6
  <2> QED
    BY <1>4, <1>6, <2>1 DEF q
<1> QED
  BY <1>3, <1>5, <1>6

(* What semunrm() leaves of entries. *)
LEMMA KeptLeads ==
  ASSUME NEW T, NEW q \in Seq(T), NEW id, NEW low, NEW high, NEW S,
         <<>> \in S[0],
         \A k \in 1 .. Len(q) : \A x \in S[k - 1] :
           IF q[k].id # id \/ q[k].num < low \/ q[k].num > high THEN Append(x, q[k]) \in S[k]
           ELSE x \in S[k]
  PROVE  Kept(q, id, low, high) \in S[Len(q)]
<1> DEFINE other(e) == e.id # id \/ e.num < low \/ e.num > high
           N == Len(q)
           IsKept(f) == f = [k \in 0 .. N |->
             IF k = 0 THEN <<>>
             ELSE IF other(q[k]) THEN Append(f[k - 1], q[k]) ELSE f[k - 1]]
           R == UNION {S[k] : k \in 0 .. N}
           F == [x \in R \X (1 .. N) |->
                  IF other(q[x[2]]) THEN Append(x[1], q[x[2]]) ELSE x[1]]
<1>1. N \in Nat
  BY LenProperties
<1>2. \A k \in 1 .. N : \A x \in S[k - 1] :
        /\ x \in R
        /\ F[<<x, k>>] = IF other(q[k]) THEN Append(x, q[k]) ELSE x
        /\ F[<<x, k>>] \in S[k]
  <2>1. SUFFICES ASSUME NEW k \in 1 .. N, NEW x \in S[k - 1]
                 PROVE  /\ x \in R
                        /\ F[<<x, k>>] = IF other(q[k]) THEN Append(x, q[k]) ELSE x
                        /\ F[<<x, k>>] \in S[k]
    OBVIOUS
  <2>2. k - 1 \in 0 .. N
    BY <1>1
  <2>3. x \in R
    BY <2>2
  <2> HIDE DEF R
  <2>4. F[<<x, k>>] = IF other(q[k]) THEN Append(x, q[k]) ELSE x
    BY <2>3
  <2>5. IF other(q[k]) THEN Append(x, q[k]) \in S[k] ELSE x \in S[k]
    OBVIOUS
  <2> HIDE DEF other, F
  <2> QED
    BY <2>3, <2>4, <2>5
<1> HIDE DEF other, F, R, N
<1>3. PICK g : Computes(g, S, N, <<>>, F)
  <2>1. \A k \in 1 .. N : \A x \in S[k - 1] : F[<<x, k>>] \in S[k]
    BY <1>2
  <2> QED
    BY <1>1, <2>1, Recursion
<1>4. IsKept(g)
  <2>1. ASSUME NEW k \in 0 .. N
        PROVE  g[k] = IF k = 0 THEN <<>>
                      ELSE IF other(q[k]) THEN Append(g[k - 1], q[k]) ELSE g[k - 1]
    <3>1. CASE k = 0
      BY <3>1, <1>3 DEF Computes
    <3>2. CASE k # 0
      <4>1. k \in 1 .. N /\ k - 1 \in 0 .. N
        BY <3>2, <1>1
      <4>2. g[k - 1] \in S[k - 1] /\ g[k] = F[<<g[k - 1], k>>]
        BY <4>1, <1>3 DEF Computes
      <4> QED
        BY <3>2, <4>1, <4>2, <1>2
    <3> QED
      BY <3>1, <3>2
  <2> QED
    BY <2>1, <1>3 DEF Computes
<1>5. PICK f : IsKept(f) /\ Kept(q, id, low, high) = f[N]
  BY <1>4 DEF Kept, other, N
<1>6. \A k \in 0 .. N : f[k] \in S[k]
  <2>1. f[0] \in S[0]
    BY <1>1, <1>5
  <2>2. ASSUME NEW k \in 1 .. N, f[k - 1] \in S[k - 1] PROVE f[k] \in S[k]
    <3>1. k \in 0 .. N /\ k - 1 \in 0 .. N /\ k # 0
      BY <1>1
    <3>2. f[k] = IF other(q[k]) THEN Append(f[k - 1], q[k]) ELSE f[k - 1]
      BY <3>1, <1>5
    <3>3. F[<<f[k - 1], k>>] = f[k] /\ F[<<f[k - 1], k>>] \in S[k]
      BY <2>2, <3>2, <1>2
    <3> QED
      BY <3>3
  <2> QED
    BY <1>1, <2>1, <2>2, StaysIn
<1>7. N \in 0 .. N
  BY <1>1
<1>8. f[N] \in S[N]
  BY <1>6, <1>7
<1> QED
  BY <1>5, <1>8 DEF N

Outside(e, id, low, high) == e.id # id \/ e.num < low \/ e.num > high
Left(q, r, k, id, low, high) ==
  /\ r \in Seq(Entries) /\ Len(r) <= k
  /\ \A j \in 1 .. Len(r) : \E m \in 1 .. k : r[j] = q[m] /\ Outside(q[m], id, low, high)
  /\ \A m \in 1 .. k : Outside(q[m], id, low, high) => \E j \in 1 .. Len(r) : r[j] = q[m]
  /\ Single(r)
LEMMA KeptLeft ==
  ASSUME NEW q \in Seq(Entries), Single(q), NEW id, NEW low, NEW high
  PROVE  Left(q, Kept(q, id, low, high), Len(q), id, low, high)
<1> DEFINE E == Entries
           Q == Seq(E)
           S == [k \in 0 .. Len(q) |-> {r \in Q : Left(q, r, k, id, low, high)}]
<1>1. Len(q) \in Nat /\ \A k \in 1 .. Len(q) : q[k] \in E
  <2> HIDE DEF E
  <2>1. q \in Seq(E)
    BY DEF E
  <2> QED
    BY <2>1, LenProperties, ElementOfSeq
<1> HIDE DEF E
<1>2. \A k \in 0 .. Len(q) : S[k] = {r \in Q : Left(q, r, k, id, low, high)}
  OBVIOUS
<1>3. <<>> \in Q /\ Left(q, <<>>, 0, id, low, high)
  BY DEF Left, Single, E
<1>4. \A r \in Q : Len(r) \in Nat
  BY LenProperties
<1>5. \A r \in Q, e \in E : /\ Append(r, e) \in Q /\ Len(Append(r, e)) = Len(r) + 1
                            /\ \A j \in 1 .. Len(r) : Append(r, e)[j] = r[j]
                            /\ Append(r, e)[Len(r) + 1] = e
  BY AppendProperties
<1> HIDE DEF S, Q
<1>6. <<>> \in S[0]
  BY <1>1, <1>2, <1>3
<1>7. ASSUME NEW k \in 1 .. Len(q), NEW r \in S[k - 1]
      PROVE  IF q[k].id # id \/ q[k].num < low \/ q[k].num > high THEN Append(r, q[k]) \in S[k]
             ELSE r \in S[k]
  <2>1. /\ k - 1 \in 0 .. Len(q) /\ k \in 0 .. Len(q) /\ k \in Nat
        /\ \A m \in 1 .. k : m = k \/ m \in 1 .. k - 1
        /\ \A m \in 1 .. k - 1 : m \in 1 .. k /\ m # k /\ m \in 1 .. Len(q)
    BY <1>1
  <2>2. r \in Q /\ Left(q, r, k - 1, id, low, high) /\ Len(r) \in Nat
    BY <2>1, <1>2, <1>4
  <2>3. /\ Len(r) <= k - 1
        /\ \A j \in 1 .. Len(r) : \E m \in 1 .. k - 1 : r[j] = q[m] /\ Outside(q[m], id, low, high)
        /\ \A m \in 1 .. k - 1 : Outside(q[m], id, low, high) => \E j \in 1 .. Len(r) : r[j] = q[m]
        /\ Single(r)
    BY <2>2 DEF Left
  <2>4. CASE ~Outside(q[k], id, low, high)
    <3>1. Left(q, r, k, id, low, high)
      BY <2>1, <2>2, <2>3, <2>4 DEF Left, Q, E
    <3> QED
      BY <3>1, <2>1, <2>2, <2>4, <1>2 DEF Outside
  <2>5. CASE Outside(q[k], id, low, high)
    <3> DEFINE a == Append(r, q[k])
    <3>1. /\ a \in Q /\ Len(a) = Len(r) + 1
          /\ \A j \in 1 .. Len(r) : a[j] = r[j]
          /\ a[Len(r) + 1] = q[k]
      BY <1>1, <1>5, <2>2
    <3> HIDE DEF a
    <3>2. \A j \in 1 .. Len(a) : j \in 1 .. Len(r) \/ j = Len(r) + 1
      BY <3>1, <2>2
    <3>3. Len(r) + 1 \in 1 .. Len(a) /\ \A j \in 1 .. Len(r) : j \in 1 .. Len(a)
      BY <3>1, <2>2
    <3>4. \A j \in 1 .. Len(a) : \E m \in 1 .. k : a[j] = q[m] /\ Outside(q[m], id, low, high)
      <4>1. SUFFICES ASSUME NEW j \in 1 .. Len(a)
                     PROVE  \E m \in 1 .. k : a[j] = q[m] /\ Outside(q[m], id, low, high)
        OBVIOUS
      <4>2. CASE j \in 1 .. Len(r)
        <5>1. PICK m \in 1 .. k - 1 : r[j] = q[m] /\ Outside(q[m], id, low, high)
          BY <4>2, <2>3
        <5>2. m \in 1 .. k /\ a[j] = q[m]
          BY <4>2, <5>1, <3>1, <2>1
        <5> QED
          BY <5>1, <5>2
      <4>3. CASE j = Len(r) + 1
        <5>1. k \in 1 .. k /\ a[j] = q[k]
          BY <4>3, <3>1, <2>1
        <5> QED
          BY <5>1, <2>5
      <4> QED
        BY <4>2, <4>3, <3>2
    <3>5. \A m \in 1 .. k : Outside(q[m], id, low, high) => \E j \in 1 .. Len(a) : a[j] = q[m]
      BY <3>1, <3>3, <2>1, <2>3
    <3>6. ASSUME NEW j \in 1 .. Len(r), r[j].id = q[k].id, r[j].num = q[k].num PROVE FALSE
      <4>1. PICK m \in 1 .. k - 1 : r[j] = q[m]
        BY <2>3
      <4>2. m \in 1 .. Len(q) /\ m # k
        BY <2>1
      <4> QED
        BY <3>6, <4>1, <4>2 DEF Single
    <3>7. Single(a)
      <4>1. SUFFICES ASSUME NEW j \in 1 .. Len(a), NEW m \in 1 .. Len(a),
                            a[j].id = a[m].id, a[j].num = a[m].num
                     PROVE  j = m
        BY DEF Single
      <4>2. CASE j \in 1 .. Len(r) /\ m \in 1 .. Len(r)
        BY <4>1, <4>2, <3>1, <2>3 DEF Single
      <4>3. CASE j = Len(r) + 1 /\ m \in 1 .. Len(r)
        BY <4>1, <4>3, <3>1, <3>6
      <4>4. CASE j \in 1 .. Len(r) /\ m = Len(r) + 1
        BY <4>1, <4>4, <3>1, <3>6
      <4> QED
        BY <4>2, <4>3, <4>4, <3>2
    <3>8. Len(a) <= k
      BY <3>1, <2>1, <2>2, <2>3
    <3>9. Left(q, a, k, id, low, high)
      BY <3>1, <3>4, <3>5, <3>7, <3>8 DEF Left, Q, E
    <3>10. a \in S[k]
      BY <3>1, <3>9, <2>1, <1>2
    <3> QED
      BY <3>10, <2>5 DEF Outside, a
  <2> QED
    BY <2>4, <2>5
<1>8. q \in Seq(E)
  BY DEF E
<1>9. Kept(q, id, low, high) \in S[Len(q)]
  BY <1>6, <1>7, <1>8, KeptLeads
<1> QED
  BY <1>1, <1>2, <1>9

LEMMA KeptKeeps ==
  ASSUME NEW q \in Seq(Entries), Single(q), Bounded(q), NEW id, NEW low, NEW high
  PROVE  LET r == Kept(q, id, low, high) IN
         /\ r \in Seq(Entries) /\ Single(r) /\ Bounded(r)
         /\ Len(r) \in Nat /\ Len(q) \in Nat /\ Len(r) <= Len(q)
         /\ \A id2, num : id2 # id \/ num < low \/ num > high =>
              Adjustment(r, id2, num) = Adjustment(q, id2, num)
<1> DEFINE r == Kept(q, id, low, high)
           E == Entries
<1>1. Left(q, r, Len(q), id, low, high)
  BY KeptLeft
<1> HIDE DEF r
<1>2. /\ r \in Seq(E) /\ Len(r) <= Len(q) /\ Single(r)
      /\ \A j \in 1 .. Len(r) : \E m \in 1 .. Len(q) : r[j] = q[m] /\ Outside(q[m], id, low, high)
      /\ \A m \in 1 .. Len(q) : Outside(q[m], id, low, high) => \E j \in 1 .. Len(r) : r[j] = q[m]
  BY <1>1 DEF Left
<1> HIDE DEF E
<1>3. Len(q) \in Nat /\ Len(r) \in Nat
  <2>1. q \in Seq(E)
    BY DEF E
  <2> QED
    BY <1>2, <2>1, LenProperties
<1>4. Bounded(r)
  <2>1. semume \in Nat /\ Len(q) <= semume
    BY InfoAssumption DEF Bounded
  <2>2. Len(r) <= semume
    BY <2>1, <1>2, <1>3
  <2>3. \A j \in 1 .. Len(r) : r[j].aoe \in Aoe \ {0}
    BY <1>2 DEF Bounded
  <2> QED
    BY <2>2, <2>3 DEF Bounded
<1>5. ASSUME NEW id2, NEW num, id2 # id \/ num < low \/ num > high
      PROVE  Adjustment(r, id2, num) = Adjustment(q, id2, num)
  <2>1. SameFor(q, r, id2, num)
    BY <1>2, <1>5 DEF SameFor, Matches, Outside
  <2> QED
    BY <2>1, <1>2, SameAdjustment DEF E
<1> QED
  BY <1>2, <1>3, <1>4, <1>5 DEF r, E

(* An entry is applied and leaves. *)
LEMMA FrontKeeps ==
  ASSUME NEW q \in Seq(Entries), Single(q), Bounded(q), q # <<>>
  PROVE  LET r == Front(q)
             e == Last(q) IN
         /\ r \in Seq(Entries) /\ Single(r) /\ Bounded(r)
         /\ Len(q) \in Nat /\ Len(r) = Len(q) - 1
         /\ Adjustment(q, e.id, e.num) = e.aoe /\ Adjustment(r, e.id, e.num) = 0
         /\ \A id, num : ~Matches(e, id, num) => Adjustment(r, id, num) = Adjustment(q, id, num)
<1> DEFINE r == Front(q)
           e == Last(q)
           E == Entries
           N == Len(q)
<1> HIDE DEF E
<1>1. q \in Seq(E)
  BY DEF E
<1>2. N \in Nat /\ N # 0 /\ e = q[N]
  BY <1>1, LenProperties, EmptySeq DEF Last
<1>3. N \in 1 .. N /\ N - 1 \in Nat
  BY <1>2
<1>4. /\ r \in Seq(E) /\ Len(r) = N - 1
      /\ \A k \in 1 .. N - 1 : r[k] = q[k]
  <2>1. r = SubSeq(q, 1, N - 1)
    BY DEF Front
  <2>2. \A k \in 1 .. N - 1 : q[k] \in E
    <3>1. \A k \in 1 .. N - 1 : k \in 1 .. N
      BY <1>2
    <3> QED
      BY <3>1, <1>1, ElementOfSeq
  <2>3. 1 \in Int /\ N - 1 \in Int
    BY <1>3
  <2> HIDE DEF r, N
  <2>4. /\ SubSeq(q, 1, N - 1) \in Seq(E)
        /\ Len(SubSeq(q, 1, N - 1)) = IF 1 <= N - 1 THEN N - 1 - 1 + 1 ELSE 0
        /\ \A k \in 1 .. N - 1 - 1 + 1 : SubSeq(q, 1, N - 1)[k] = q[1 + k - 1]
    BY <2>2, <2>3, SubSeqProperties
  <2> QED
    BY <2>1, <2>4, <1>3
<1> HIDE DEF r, e, N
<1>5. Single(r)
  <2>1. \A k \in 1 .. N - 1 : k \in 1 .. N
    BY <1>2
  <2> QED
    BY <2>1, <1>4 DEF Single, N
<1>6. Bounded(r)
  <2>1. semume \in Nat /\ N <= semume
    BY InfoAssumption DEF Bounded, N
  <2>2. Len(r) <= semume
    BY <2>1, <1>2, <1>4
  <2>3. \A k \in 1 .. N - 1 : k \in 1 .. N
    BY <1>2
  <2>4. \A j \in 1 .. Len(r) : r[j].aoe \in Aoe \ {0}
    BY <2>3, <1>4 DEF Bounded, N
  <2> QED
    BY <2>2, <2>4 DEF Bounded
<1>7. Adjustment(q, e.id, e.num) = e.aoe
  <2>1. Matches(q[N], e.id, e.num)
    BY <1>2 DEF Matches
  <2>2. Adjustment(q, e.id, e.num) = q[N].aoe
    BY <2>1, <1>3, OneAdjustment DEF N
  <2> QED
    BY <2>2, <1>2
<1>8. Adjustment(r, e.id, e.num) = 0
  <2>1. ASSUME NEW k \in 1 .. Len(r), Matches(r[k], e.id, e.num) PROVE FALSE
    <3>1. k \in 1 .. N /\ k # N /\ r[k] = q[k]
      BY <1>2, <1>4
    <3> QED
      BY <2>1, <3>1, <1>2, <1>3 DEF Single, Matches, N
  <2>2. r \in Seq(Entries)
    BY <1>4 DEF E
  <2> HIDE DEF Entries
  <2> QED
    BY <2>1, <2>2, NoAdjustment
<1>9. ASSUME NEW id, NEW num, ~Matches(e, id, num)
      PROVE  Adjustment(r, id, num) = Adjustment(q, id, num)
  <2>1. \A k \in 1 .. Len(q) : k = N \/ k \in 1 .. Len(r)
    BY <1>2, <1>4 DEF N
  <2>2. \A k \in 1 .. Len(r) : k \in 1 .. Len(q)
    BY <1>2, <1>4 DEF N
  <2>3. SameFor(q, r, id, num)
    BY <2>1, <2>2, <1>2, <1>4, <1>9 DEF SameFor
  <2>4. r \in Seq(Entries)
    BY <1>4 DEF E
  <2> HIDE DEF Entries
  <2> QED
    BY <2>3, <2>4, <1>5, SameAdjustment
<1> QED
  BY <1>2, <1>4, <1>5, <1>6, <1>7, <1>8, <1>9 DEF r, e, N, E

(* SetToSeq(Proc) has everybody once. *)
LEMMA ProcSeq ==
  /\ Cardinality(Proc) \in Nat
  /\ SetToSeq(Proc) \in [1 .. Cardinality(Proc) -> Proc]
  /\ \A p \in Proc : \E k \in 1 .. Cardinality(Proc) :
       /\ SetToSeq(Proc)[k] = p
       /\ \A j \in 1 .. Cardinality(Proc) : SetToSeq(Proc)[j] = p => j = k
<1> DEFINE N == Cardinality(Proc)
           f == SetToSeq(Proc)
<1>1. IsFiniteSet(Proc)
  BY ProcAssumption
<1>2. N \in Nat /\ ExistsBijection(1 .. N, Proc)
  BY <1>1, FS_CardinalityType
<1>3. PICK b : b \in Bijection(1 .. N, Proc)
  BY <1>2 DEF ExistsBijection
<1>4. b \in Injection(1 .. N, Proc) /\ b \in Surjection(1 .. N, Proc)
  BY <1>3 DEF Bijection
<1>5. Cardinality(1 .. N) = Cardinality(Proc)
  BY <1>1, <1>4, FS_Injection
<1>6. f \in [1 .. N -> Proc] /\ IsInjective(f)
  BY <1>4 DEF SetToSeq, Injection
<1>7. f \in Injection(1 .. N, Proc)
  BY <1>6 DEF Injection
<1> HIDE DEF f
<1>8. f \in Surjection(1 .. N, Proc)
  BY <1>1, <1>5, <1>7, FS_Injection
<1>9. \A p \in Proc : \E k \in 1 .. N : f[k] = p
  BY <1>8 DEF Surjection
<1>10. \A j, k \in 1 .. N : f[j] = f[k] => j = k
  BY <1>6 DEF IsInjective
<1> QED
  BY <1>2, <1>6, <1>9, <1>10 DEF f

SumOver(e, id, num, f, g) ==
  /\ Sums(f, Cardinality(Proc), g)
  /\ Adjustments(e, id, num) = f[Cardinality(Proc)]
  /\ \A k \in 1 .. Cardinality(Proc) :
       g[k] \in Int /\ g[k] = Adjustment(e[SetToSeq(Proc)[k]], id, num)
LEMMA AdjustmentsSum ==
  ASSUME NEW e, \A p \in Proc : e[p] \in Seq(Entries), NEW id, NEW num
  PROVE  \E f, g : SumOver(e, id, num, f, g)
<1> DEFINE N == Cardinality(Proc)
           procs == SetToSeq(Proc)
           g == [k \in 1 .. N |-> Adjustment(e[procs[k]], id, num)]
           IsSum(f) == f = [k \in 0 .. N |->
             IF k = 0 THEN 0 ELSE f[k - 1] + Adjustment(e[procs[k]], id, num)]
<1>1. N \in Nat /\ procs \in [1 .. N -> Proc]
  BY ProcSeq
<1> HIDE DEF Entries, procs
<1>2. \A k \in 1 .. N : Adjustment(e[procs[k]], id, num) \in Int
  <2>1. \A k \in 1 .. N : e[procs[k]] \in Seq(Entries)
    BY <1>1
  <2> QED
    BY <2>1, AdjustmentInt
<1>3. \A k \in 1 .. N : g[k] \in Int /\ g[k] = Adjustment(e[procs[k]], id, num)
  BY <1>2
<1> HIDE DEF g, N
<1>4. \A f : IsSum(f) <=> Summing(f, N, g)
  <2>1. TAKE f
  <2>2. \A k \in 0 .. N : k # 0 => k \in 1 .. N
    BY <1>1
  <2> DEFINE a == [k \in 0 .. N |->
               IF k = 0 THEN 0 ELSE f[k - 1] + Adjustment(e[procs[k]], id, num)]
             b == [k \in 0 .. N |-> IF k = 0 THEN 0 ELSE f[k - 1] + g[k]]
  <2>3. a = b
    BY <1>3, <2>2
  <2> QED
    BY <2>3 DEF Summing
<1>5. PICK f0 : Summing(f0, N, g)
  BY <1>1, <1>3, SumExists
<1>6. IsSum(f0)
  BY <1>4, <1>5
<1>7. PICK f : IsSum(f) /\ Adjustments(e, id, num) = f[N]
  BY <1>6 DEF Adjustments, N, procs
<1>8. Sums(f, N, g)
  BY <1>1, <1>3, <1>4, <1>7, SummingSums
<1> QED
  BY <1>1, <1>3, <1>7, <1>8 DEF N, procs, SumOver

LEMMA AdjustmentsInt ==
  ASSUME NEW e, \A p \in Proc : e[p] \in Seq(Entries), NEW id, NEW num
  PROVE  Adjustments(e, id, num) \in Int
<1> HIDE DEF Entries
<1>1. PICK f, g : SumOver(e, id, num, f, g)
  BY AdjustmentsSum
<1>2. Cardinality(Proc) \in 0 .. Cardinality(Proc)
  BY ProcSeq
<1> QED
  BY <1>1, <1>2 DEF Sums, SumOver

(* One process changes what it adds. *)
LEMMA AdjustmentsChange ==
  ASSUME NEW e, \A p \in Proc : e[p] \in Seq(Entries),
         NEW d, \A p \in Proc : d[p] \in Seq(Entries),
         NEW id, NEW num, NEW p \in Proc,
         \A q \in Proc \ {p} : Adjustment(d[q], id, num) = Adjustment(e[q], id, num)
  PROVE  Adjustments(d, id, num)
           = Adjustments(e, id, num) + Adjustment(d[p], id, num) - Adjustment(e[p], id, num)
<1> HIDE DEF Entries
<1> DEFINE N == Cardinality(Proc)
           procs == SetToSeq(Proc)
<1>a. PICK f, g : SumOver(e, id, num, f, g)
  BY AdjustmentsSum
<1>b. PICK h, c : SumOver(d, id, num, h, c)
  BY AdjustmentsSum
<1>1. /\ Sums(f, N, g)
      /\ Adjustments(e, id, num) = f[N]
      /\ \A k \in 1 .. N : g[k] \in Int /\ g[k] = Adjustment(e[procs[k]], id, num)
  BY <1>a DEF SumOver
<1>2. /\ Sums(h, N, c)
      /\ Adjustments(d, id, num) = h[N]
      /\ \A k \in 1 .. N : c[k] \in Int /\ c[k] = Adjustment(d[procs[k]], id, num)
  BY <1>b DEF SumOver
<1>3. N \in Nat /\ procs \in [1 .. N -> Proc]
  BY ProcSeq
<1>4. PICK at \in 1 .. N : procs[at] = p /\ \A j \in 1 .. N : procs[j] = p => j = at
  BY ProcSeq
<1> HIDE DEF N, procs
<1>5. \A k \in 1 .. N : k # at => g[k] = c[k]
  BY <1>1, <1>2, <1>3, <1>4
<1>6. c[at] \in Int /\ \A k \in 1 .. N : g[k] \in Int
  BY <1>1, <1>2
<1>7. h[N] = f[N] + c[at] - g[at]
  BY <1>1, <1>2, <1>3, <1>5, <1>6, SumsDiffer
<1>8. g[at] = Adjustment(e[p], id, num) /\ c[at] = Adjustment(d[p], id, num)
  BY <1>1, <1>2, <1>4
<1> QED
  BY <1>1, <1>2, <1>7, <1>8

LEMMA AdjustmentsSame ==
  ASSUME NEW e, \A p \in Proc : e[p] \in Seq(Entries),
         NEW d, \A p \in Proc : d[p] \in Seq(Entries),
         NEW id, NEW num,
         \A q \in Proc : Adjustment(d[q], id, num) = Adjustment(e[q], id, num)
  PROVE  Adjustments(d, id, num) = Adjustments(e, id, num)
<1> HIDE DEF Entries
<1> DEFINE N == Cardinality(Proc)
           procs == SetToSeq(Proc)
<1>a. PICK f, g : SumOver(e, id, num, f, g)
  BY AdjustmentsSum
<1>b. PICK h, c : SumOver(d, id, num, h, c)
  BY AdjustmentsSum
<1>1. /\ Sums(f, N, g)
      /\ Adjustments(e, id, num) = f[N]
      /\ \A k \in 1 .. N : g[k] \in Int /\ g[k] = Adjustment(e[procs[k]], id, num)
  BY <1>a DEF SumOver
<1>2. /\ Sums(h, N, c)
      /\ Adjustments(d, id, num) = h[N]
      /\ \A k \in 1 .. N : c[k] \in Int /\ c[k] = Adjustment(d[procs[k]], id, num)
  BY <1>b DEF SumOver
<1>3. N \in Nat /\ procs \in [1 .. N -> Proc]
  BY ProcSeq
<1> HIDE DEF N, procs
<1>4. \A k \in 1 .. N : g[k] = c[k]
  BY <1>1, <1>2, <1>3
<1>5. h[N] = f[N]
  BY <1>1, <1>2, <1>3, <1>4, SumsSame
<1> QED
  BY <1>1, <1>2, <1>5

LEMMA AdjustmentsZero ==
  ASSUME NEW e, \A p \in Proc : e[p] \in Seq(Entries), NEW id, NEW num,
         \A q \in Proc : Adjustment(e[q], id, num) = 0
  PROVE  Adjustments(e, id, num) = 0
<1> HIDE DEF Entries
<1>a. PICK f, g : SumOver(e, id, num, f, g)
  BY AdjustmentsSum
<1>1. /\ Sums(f, Cardinality(Proc), g)
      /\ Adjustments(e, id, num) = f[Cardinality(Proc)]
      /\ \A k \in 1 .. Cardinality(Proc) :
           g[k] \in Int /\ g[k] = Adjustment(e[SetToSeq(Proc)[k]], id, num)
  BY <1>a DEF SumOver
<1>2. /\ Cardinality(Proc) \in Nat
      /\ \A k \in 1 .. Cardinality(Proc) : SetToSeq(Proc)[k] \in Proc
  BY ProcSeq
<1>3. \A k \in 1 .. Cardinality(Proc) : g[k] = 0
  BY <1>1, <1>2
<1> QED
  BY <1>1, <1>2, <1>3, ZeroSum

-----------------------------------------------------------------------------
(* The steps of q that leave alone every set but one, that in slot s0: the *)
(* other sets are what they were, and who has locked them goes on.         *)

Bystanders(q) ==
  \A p \in Proc \ {q} :
    /\ semid'[p] = semid[p] /\ ops'[p] = ops[p] /\ i'[p] = i[p]
    /\ start'[p] = start[p] /\ wait'[p] = wait[p] /\ pushed'[p] = pushed[p]
    /\ pc'[p] = pc[p] \/ (pc[p] = "asleep" /\ pc'[p] = "again")
UndoShrinks(q) ==
  \A p \in Proc \ {q} :
    /\ Len(un_ent'[p]) <= Len(un_ent[p])
    /\ un_ent'[p] # <<>> => un_ent[p] # <<>>
    /\ p \in block => p \in block'
Same(s) ==
  /\ live[s] /\ seq'[s] = seq[s]
  /\ sem_base'[s] = sem_base[s] /\ sem_nsems'[s] = sem_nsems[s]
  /\ semid_lock'[s] = semid_lock[s]
  /\ \A n \in SemsOf(s) : semval'[n] = semval[n] /\ net'[n] = net[n]
  /\ \A p \in Proc : \A num \in Int :
       Adjustment(un_ent'[p], IdOf(s), num) = Adjustment(un_ent[p], IdOf(s), num)
Apart(q, s0) ==
  /\ Bystanders(q) /\ UndoShrinks(q)
  /\ \A s \in Slot : s # s0 /\ live'[s] => Same(s)
  /\ s0 \in Slot /\ live[s0] => semid_lock[s0] \in {None, q}
  /\ pc[q] \in Working => SlotAt(q) = s0

LEMMA EntriesTyped ==
  ASSUME EntryInv
  PROVE  un_ent \in [Proc -> Seq(Entries)] /\ \A p \in Proc : Len(un_ent[p]) \in Nat
<1> DEFINE T == GoodEntry
           E == Entries
<1>1. T \in SUBSET E /\ un_ent \in [Proc -> Seq(T)]
  BY DEF GoodEntry, EntryInv
<1> HIDE DEF T, E
<1>2. Seq(T) \subseteq Seq(E)
  BY <1>1, SeqMonotonic
<1>3. un_ent \in [Proc -> Seq(E)]
  BY <1>1, <1>2
<1>4. \A p \in Proc : Len(un_ent[p]) \in Nat
  BY <1>3, LenProperties
<1> QED
  BY <1>3, <1>4 DEF E

(* A process that works on a set has that of a slot the step leaves alone. *)
LEMMA OtherSet ==
  ASSUME IInv, IInv', NEW q \in Proc, NEW s0, Apart(q, s0), NEW p \in Proc \ {q},
         pc'[p] \in Working
  PROVE  /\ pc'[p] = pc[p] /\ pc[p] \in Working
         /\ SlotAt(p) \in Slot /\ SlotAt(p) # s0 /\ Same(SlotAt(p))
         /\ IdOf(SlotAt(p)) = semid[p] /\ SemsOf(SlotAt(p)) \subseteq Sem
<1>1. pc'[p] = pc[p] /\ pc[p] \in Working /\ semid'[p] = semid[p]
  BY DEF Apart, Bystanders, Working
<1>2. /\ SlotAt(p) \in Slot /\ live[SlotAt(p)] /\ semid_lock[SlotAt(p)] = p
      /\ Exists(semid[p]) /\ SemsOf(SlotAt(p)) \subseteq Sem
  BY <1>1, AtWork
<1>3. live'[SlotAt(p)]
  <2>1. WorkInv(p)'
    BY DEF IInv, ProcInv
  <2>2. Exists(semid[p])'
    BY <2>1 DEF WorkInv
  <2> QED
    BY <2>2, <1>1 DEF Exists, SlotAt, SlotOf
<1>4. SlotAt(p) # s0
  <2>1. p # None /\ p # q
    BY ProcAssumption
  <2> QED
    BY <2>1, <1>2 DEF Apart
<1>5. IdOf(SlotAt(p)) = semid[p]
  BY <1>2 DEF Exists, SlotAt
<1> QED
  BY <1>1, <1>2, <1>3, <1>4, <1>5 DEF Apart

LEMMA AdjustedFinite ==
  ASSUME Types, NEW p \in Proc, SlotAt(p) \in Slot, NEW k
  PROVE  IsFiniteSet(Adjusted(p, k)) /\ Cardinality(Adjusted(p, k)) \in Nat
<1>1. sem_nsems[SlotAt(p)] - 1 \in Int /\ 0 \in Int
  BY DEF Types
<1>2. IsFiniteSet(Own(p))
  <2> DEFINE m == sem_nsems[SlotAt(p)] - 1
  <2>1. m \in Int /\ 0 \in Int
    BY <1>1
  <2> HIDE DEF m
  <2>2. IsFiniteSet(0 .. m)
    BY <2>1, FS_Interval
  <2> QED
    BY <2>2 DEF Own, m
<1>3. Adjusted(p, k) \subseteq Own(p)
  BY DEF Adjusted
<1>4. IsFiniteSet(Adjusted(p, k))
  BY <1>2, <1>3, FS_Subset
<1> QED
  BY <1>4, FS_CardinalityType

LEMMA OtherRuns ==
  ASSUME IInv, IInv', NEW q \in Proc, NEW s0, Apart(q, s0), NEW p \in Proc \ {q},
         RunInv(p), PushInv(p)
  PROVE  RunInv(p)' /\ PushInv(p)'
<1> PICK pl : pl = pc[p]
  OBVIOUS
<1>1. CASE pc'[p] \notin Working
  <2>1. pc[p] \notin Working
    BY <1>1 DEF Apart, Bystanders, Working
  <2>2. ~pushed[p] /\ pushed'[p] = pushed[p]
    BY <2>1 DEF PushInv, Apart, Bystanders
  <2>3. un_ent'[p] # <<>> => p \in block'
    BY DEF PushInv, Apart, UndoShrinks
  <2> QED
    BY <1>1, <2>2, <2>3 DEF RunInv, PushInv
<1>2. CASE pc'[p] \in Working
  <2> PICK s : s = SlotAt(p)
    OBVIOUS
  <2> PICK list : list = ops[p]
    OBVIOUS
  <2> PICK id : id = semid[p]
    OBVIOUS
  <2> PICK at : at = i[p]
    OBVIOUS
  <2>1. /\ pc'[p] = pc[p] /\ pc[p] \in Working
        /\ s \in Slot /\ s # s0 /\ Same(s)
        /\ IdOf(s) = id /\ SemsOf(s) \subseteq Sem
    BY <1>2, OtherSet
  <2>2. /\ semid[p] = id /\ ops[p] = list /\ i[p] = at
        /\ semid'[p] = id /\ ops'[p] = list /\ i'[p] = at
        /\ start'[p] = start[p] /\ pushed'[p] = pushed[p]
    BY DEF Apart, Bystanders
  <2>3. /\ SlotAt(p) = s /\ SlotAt(p)' = s /\ SlotOf(id) = s
    BY <2>2 DEF SlotAt, SlotOf
  <2>4. /\ sem_base'[s] = sem_base[s] /\ sem_nsems'[s] = sem_nsems[s]
        /\ sem_base[s] \in Nat /\ sem_nsems[s] \in Nat
    BY <2>1 DEF Same, IInv, Types
  <2>5. Own(p)' = Own(p) /\ Own(p) = 0 .. sem_nsems[s] - 1
    BY <2>3, <2>4 DEF Own
  <2>6. /\ Len(un_ent'[p]) <= Len(un_ent[p]) /\ Len(un_ent[p]) \in Nat /\ Len(un_ent'[p]) \in Nat
        /\ un_ent'[p] # <<>> => un_ent[p] # <<>>
        /\ p \in block => p \in block'
    BY EntriesTyped DEF Apart, UndoShrinks, IInv
  <2>7. \A num, k : ValAt(p, num, k)' = ValAt(p, num, k) /\ AdjAt(p, num, k)' = AdjAt(p, num, k)
    BY <2>2 DEF ValAt, AdjAt
  <2>8. \A k : Adjusted(p, k)' = Adjusted(p, k)
    BY <2>5, <2>7 DEF Adjusted
  <2>9. ASSUME NEW num \in Own(p)
        PROVE  /\ SemOf(id, num) = sem_base[s] + num /\ SemOf(id, num)' = sem_base[s] + num
               /\ semval'[sem_base[s] + num] = semval[sem_base[s] + num]
               /\ Adjustment(un_ent'[p], id, num) = Adjustment(un_ent[p], id, num)
    <3>1. num \in Int /\ sem_base[s] + num \in SemsOf(s)
      BY <2>4, <2>5 DEF SemsOf
    <3>2. SemOf(id, num) = sem_base[s] + num /\ SemOf(id, num)' = sem_base[s] + num
      BY <2>3, <2>4 DEF SemOf, SlotOf
    <3> QED
      BY <3>1, <3>2, <2>1 DEF Same
  <2>10. Done(p)' = Done(p)
    BY <2>1, <2>2 DEF Done
  <2>11. ASSUME NEW d, Ran(p, d) PROVE Ran(p, d)'
    <3>1. d \in 0 .. Len(ops'[p])
      BY <2>2, <2>11 DEF Ran
    <3>2. start'[p] \in [vals : [Own(p)' -> Int], adj : [Own(p)' -> Int]]
      BY <2>2, <2>5, <2>11 DEF Ran
    <3>3. ASSUME NEW num \in Own(p)'
          PROVE  /\ semval'[SemOf(id, num)'] = ValAt(p, num, d)'
                 /\ Adjustment(un_ent'[p], id, num) = AdjAt(p, num, d)'
                 /\ \A k \in 0 .. d : ValAt(p, num, k)' \in 0 .. semvmx /\ AdjAt(p, num, k)' \in Aoe
      <4>1. num \in Own(p)
        BY <2>5
      <4>2. /\ semval[SemOf(id, num)] = ValAt(p, num, d)
            /\ Adjustment(un_ent[p], id, num) = AdjAt(p, num, d)
            /\ \A k \in 0 .. d : ValAt(p, num, k) \in 0 .. semvmx /\ AdjAt(p, num, k) \in Aoe
        BY <4>1, <2>2, <2>11 DEF Ran
      <4> QED
        BY <4>1, <4>2, <2>7, <2>9
    <3>4. ASSUME NEW k \in 0 .. d
          PROVE  Len(un_ent'[p]) - Cardinality(Adjusted(p, d)') + Cardinality(Adjusted(p, k)') <= semume
      <4>1. Len(un_ent[p]) - Cardinality(Adjusted(p, d)) + Cardinality(Adjusted(p, k)) <= semume
        BY <2>11 DEF Ran
      <4>2. Cardinality(Adjusted(p, d)) \in Nat /\ Cardinality(Adjusted(p, k)) \in Nat
        <5>1. Types /\ SlotAt(p) \in Slot
          BY <2>1, <2>3 DEF IInv
        <5> QED
          BY <5>1, AdjustedFinite
      <4>3. semume \in Nat
        BY InfoAssumption
      <4> QED
        BY <4>1, <4>2, <4>3, <2>6, <2>8
    <3>5. \A k \in 1 .. d : Undoable(ops'[p][k]) => p \in block' /\ ops'[p][k].op \in Aoe
      BY <2>2, <2>6, <2>11 DEF Ran
    <3> QED
      BY <3>1, <3>2, <3>3, <3>4, <3>5, <2>2 DEF Ran, SemOf
  <2>12. RunInv(p)'
    <3>1. PICK d \in 0 .. Len(list) : Done(p) = d /\ Ran(p, d)
      BY <2>1, <2>2 DEF RunInv
    <3> QED
      BY <3>1, <2>2, <2>10, <2>11 DEF RunInv
  <2>13. PushInv(p)'
    <3>1. un_ent'[p] # <<>> => p \in block'
      BY <2>6 DEF PushInv
    <3>2. ASSUME pushed'[p]
          PROVE  /\ p \in block' /\ pc'[p] \in Working
                 /\ i'[p] \in DOMAIN ops'[p] /\ Undoable(Current(p))'
                 /\ pc'[p] = "ops" => /\ CanDo(Current(p)', semval'[CurrentSem(p)'])
                                     /\ CanAdjust(p, Current(p).op, Current(p).num)'
      <4> PICK op : op = Current(p)
        OBVIOUS
      <4>1. Current(p) = op /\ Current(p)' = op
        BY <2>2 DEF Current
      <4>2. /\ p \in block /\ at \in DOMAIN list /\ Undoable(op)
            /\ pc[p] = "ops" => CanDo(op, semval[CurrentSem(p)]) /\ CanAdjust(p, op.op, op.num)
        BY <2>2, <3>2, <4>1 DEF PushInv
      <4>3. op.num \in Nat /\ op.num < sem_nsems[SlotAt(p)] /\ op.op \in Int
        BY <4>1, <4>2, <2>1, <2>2, AtOperation
      <4>4. op.num \in Own(p)
        BY <4>3, <2>3, <2>4, <2>5
      <4>5. /\ CurrentSem(p) = sem_base[s] + op.num /\ CurrentSem(p)' = sem_base[s] + op.num
        BY <4>1, <2>2, <2>3, <2>4 DEF CurrentSem, SemOf, SlotOf
      <4>6. semval'[CurrentSem(p)'] = semval[CurrentSem(p)]
        BY <4>4, <4>5, <2>9
      <4>7. CanAdjust(p, op.op, op.num) => CanAdjust(p, op.op, op.num)'
        <5>1. Adjustment(un_ent'[p], id, op.num) = Adjustment(un_ent[p], id, op.num)
          BY <4>4, <2>9
        <5>2. Len(un_ent[p]) < semume => Len(un_ent'[p]) < semume
          <6>1. semume \in Nat
            BY InfoAssumption
          <6> QED
            BY <6>1, <2>6
        <5> QED
          BY <5>1, <5>2, <2>2 DEF CanAdjust
      <4> QED
        BY <4>1, <4>2, <4>6, <4>7, <2>1, <2>2, <2>6 DEF CanAdjust
    <3> QED
      BY <3>1, <3>2 DEF PushInv, CanAdjust
  <2> QED
    BY <2>12, <2>13
<1> QED
  BY <1>1, <1>2

LockAt(q, s0) ==
  s0 \in Slot /\ live'[s0] /\ semid_lock'[s0] # None =>
    semid_lock'[s0] = q /\ pc'[q] \in Working /\ SlotOf(semid'[q]) = s0

(* Who has the lock of a set that the step leaves alone has it still. *)
LEMMA OtherLock ==
  ASSUME IInv, LockInv, NEW q \in Proc, NEW s0, Apart(q, s0),
         NEW s \in Slot, s # s0, live'[s], NEW r, r = semid_lock[s]
  PROVE  /\ Same(s) /\ semid_lock'[s] = r
         /\ r # None => /\ r \in Proc \ {q} /\ pc[r] \in Working /\ SlotAt(r) = s
                        /\ pc'[r] = pc[r] /\ semid'[r] = semid[r] /\ ops'[r] = ops[r]
                        /\ i'[r] = i[r] /\ start'[r] = start[r]
<1>1. Same(s)
  BY DEF Apart
<1>2. live[s] /\ semid_lock'[s] = r
  BY <1>1 DEF Same
<1>3. ASSUME r # None
      PROVE  r \in Proc \ {q} /\ pc[r] \in Working /\ SlotAt(r) = s
  <2>1. r \in Proc
    BY <1>3 DEF IInv, Types
  <2>2. pc[r] \in Working /\ SlotAt(r) = s
    BY <1>2, <1>3 DEF LockInv
  <2>3. r # q
    BY <2>2 DEF Apart
  <2> QED
    BY <2>1, <2>2, <2>3
<1>4. ASSUME r # None
      PROVE  /\ pc'[r] = pc[r] /\ semid'[r] = semid[r] /\ ops'[r] = ops[r]
             /\ i'[r] = i[r] /\ start'[r] = start[r]
  BY <1>3, <1>4 DEF Apart, Bystanders, Working
<1> QED
  BY <1>1, <1>2, <1>3, <1>4

LEMMA BoundStep ==
  ASSUME IInv, IInv', BoundInv, NEW q \in Proc, NEW s0, Apart(q, s0), LockAt(q, s0),
         \A p \in Proc : Bounded(un_ent'[p]) /\ Single(un_ent'[p]),
         RunInv(q)', PushInv(q)', Ranges'
  PROVE  BoundInv'
<1>1. ASSUME NEW p \in Proc PROVE RunInv(p)' /\ PushInv(p)'
  <2>1. CASE p = q
    BY <2>1
  <2>2. CASE p # q
    <3>1. RunInv(p) /\ PushInv(p)
      BY DEF BoundInv
    <3> QED
      BY <2>2, <3>1, OtherRuns
  <2> QED
    BY <2>1, <2>2
<1>2. LockInv'
  <2>1. SUFFICES ASSUME NEW s \in Slot, live'[s], semid_lock'[s] # None
                 PROVE  pc'[semid_lock'[s]] \in Working /\ SlotOf(semid'[semid_lock'[s]]) = s
    BY DEF LockInv, SlotAt, SlotOf
  <2>2. CASE s = s0
    BY <2>1, <2>2 DEF LockAt
  <2>3. CASE s # s0
    <3> PICK r : r = semid_lock[s]
      OBVIOUS
    <3>1. LockInv
      BY DEF BoundInv
    <3>2. /\ semid_lock'[s] = r
          /\ r # None => /\ pc[r] \in Working /\ SlotAt(r) = s
                         /\ pc'[r] = pc[r] /\ semid'[r] = semid[r]
      BY <2>1, <2>3, <3>1, OtherLock
    <3> QED
      BY <2>1, <3>2 DEF SlotAt
  <2> QED
    BY <2>2, <2>3
<1> QED
  BY <1>1, <1>2 DEF BoundInv

LEMMA BalanceApart ==
  ASSUME IInv, IInv', LockInv, NEW q \in Proc, NEW s0, Apart(q, s0),
         NEW s \in Slot, s # s0, live'[s], NEW num \in 0 .. sem_nsems[s] - 1, BalanceAt(s, num)
  PROVE  BalanceAt(s, num)'
<1> PICK r : r = semid_lock[s]
  OBVIOUS
<1> PICK id : id = IdOf(s)
  OBVIOUS
<1>1. /\ Same(s) /\ semid_lock'[s] = r /\ semid_lock[s] = r
      /\ r # None => /\ pc'[r] = pc[r] /\ ops'[r] = ops[r] /\ i'[r] = i[r]
  BY OtherLock
<1>2. /\ sem_base[s] \in Nat /\ sem_nsems[s] \in Nat /\ sem_base'[s] = sem_base[s]
      /\ IdOf(s) = id /\ IdOf(s)' = id
  BY <1>1 DEF IInv, Types, Same, IdOf
<1>3. semval'[sem_base[s] + num] = semval[sem_base[s] + num]
      /\ net'[sem_base[s] + num] = net[sem_base[s] + num]
  <2>1. sem_base[s] + num \in SemsOf(s)
    BY <1>2 DEF SemsOf
  <2> QED
    BY <2>1, <1>1 DEF Same
<1>4. Adjustments(un_ent', id, num) = Adjustments(un_ent, id, num)
  <2>1. /\ un_ent \in [Proc -> Seq(Entries)]
    BY EntriesTyped DEF IInv
  <2>2. un_ent' \in [Proc -> Seq(Entries)]
    <3>1. EntryInv'
      BY DEF IInv
    <3>2. un_ent' \in [Proc -> Seq(GoodEntry')]
      BY <3>1 DEF EntryInv
    <3> DEFINE T == GoodEntry'
               E == Entries
    <3>3. T \in SUBSET E
      BY DEF GoodEntry
    <3> HIDE DEF T, E
    <3>4. Seq(T) \subseteq Seq(E)
      BY <3>3, SeqMonotonic
    <3> QED
      BY <3>2, <3>4 DEF T, E
  <2>3. \A p \in Proc : Adjustment(un_ent'[p], id, num) = Adjustment(un_ent[p], id, num)
    BY <1>1, <1>2 DEF Same
  <2> DEFINE e == un_ent
             d == un_ent'
  <2>4. /\ \A p \in Proc : e[p] \in Seq(Entries) /\ d[p] \in Seq(Entries)
        /\ \A p \in Proc : Adjustment(d[p], id, num) = Adjustment(e[p], id, num)
    <3> HIDE DEF Entries
    <3> QED
      BY <2>1, <2>2, <2>3
  <2> HIDE DEF e, d
  <2>5. Adjustments(d, id, num) = Adjustments(e, id, num)
    BY <2>4, AdjustmentsSame
  <2> QED
    BY <2>5 DEF e, d
<1>5. ForGood(s, num)' = ForGood(s, num)
  <2>1. CASE r = None
    BY <1>1, <2>1 DEF ForGood
  <2>2. CASE r # None
    BY <1>1, <2>2 DEF ForGood, Done
  <2> QED
    BY <2>1, <2>2
<1> QED
  BY <1>2, <1>3, <1>4, <1>5 DEF BalanceAt

LEMMA BalanceStep ==
  ASSUME IInv, IInv', LockInv, BalanceInv, NEW q \in Proc, NEW s0, Apart(q, s0),
         s0 \in Slot /\ live'[s0] => \A num \in 0 .. sem_nsems'[s0] - 1 : BalanceAt(s0, num)'
  PROVE  BalanceInv'
<1> SUFFICES ASSUME NEW s \in Slot, live'[s], NEW num \in 0 .. sem_nsems'[s] - 1
             PROVE  BalanceAt(s, num)'
  BY DEF BalanceInv
<1>1. CASE s = s0
  BY <1>1
<1>2. CASE s # s0
  <2>1. Same(s)
    BY <1>2 DEF Apart
  <2>2. num \in 0 .. sem_nsems[s] - 1 /\ live[s]
    BY <2>1 DEF Same
  <2>3. BalanceAt(s, num)
    BY <2>2 DEF BalanceInv
  <2> QED
    BY <1>2, <2>2, <2>3, BalanceApart
<1> QED
  BY <1>1, <1>2

-----------------------------------------------------------------------------
(* Sleepers. *)

(* Where nothing before it touches its semaphore. *)
LEMMA ZeroBefore ==
  ASSUME NEW list \in Seq(Op), NEW num, NEW k \in 1 .. Len(list),
         \A j \in 1 .. k - 1 : list[j].num = num => list[j].op = 0
  PROVE  Effects(list, num, BOOLEAN)[k - 1] = 0
<1> DEFINE f == Effects(list, num, BOOLEAN)
           S == [j \in 0 .. k - 1 |-> {0}]
<1>1. /\ f[0] = 0
      /\ \A j \in 1 .. Len(list) :
              f[j] = f[j - 1] +
                IF list[j].num = num /\ list[j].undo \in BOOLEAN THEN list[j].op ELSE 0
  BY EffectsAre
<1> HIDE DEF f, Op
<1>2. Len(list) \in Nat /\ k - 1 \in Nat /\ k - 1 \in 0 .. k - 1
  BY LenProperties
<1>3. \A j \in 0 .. k - 1 : S[j] = {0}
  OBVIOUS
<1> HIDE DEF S
<1>4. f[0] \in S[0]
  BY <1>1, <1>2, <1>3
<1>5. ASSUME NEW j \in 1 .. k - 1, f[j - 1] \in S[j - 1] PROVE f[j] \in S[j]
  <2>1. j \in 1 .. Len(list) /\ j - 1 \in 0 .. k - 1 /\ j \in 0 .. k - 1
    BY <1>2
  <2>2. f[j - 1] = 0
    BY <2>1, <1>3, <1>5
  <2>3. f[j] = 0 + IF list[j].num = num /\ list[j].undo \in BOOLEAN THEN list[j].op ELSE 0
    BY <2>1, <2>2, <1>1
  <2>4. f[j] = 0
    BY <2>3
  <2> QED
    BY <2>1, <2>4, <1>3
<1>6. \A j \in 0 .. k - 1 : f[j] \in S[j]
  BY <1>2, <1>4, <1>5, StaysIn
<1> QED
  BY <1>2, <1>3, <1>6 DEF f

(* A value of a semaphore is one seen before, or who could go on with it   *)
(* is woken.                                                               *)
Covered(s, num, v, queues) ==
  \/ Seen(s, num, v)
  \/ /\ \/ \E u \in 0 .. semvmx : Seen(s, num, u) /\ v <= u
        \/ <<"semncnt_wait", sem_base[s] + num>> \in queues
     /\ v # 0 \/ <<"semzcnt_wait", sem_base[s] + num>> \in queues

LEMMA SleepsOn ==
  ASSUME \A list \in OpLists : ZeroFirst(list), IInv, NEW q \in Proc, Bystanders(q),
         NEW p \in Proc \ {q}, pc[p] = "asleep", NEW s \in Slot, SlotAt(p) = s, Exists(semid[p]),
         sem_base'[s] = sem_base[s], ops[p] \in OpLists, NEW queues, wait[p] \notin queues,
         \A num \in 0 .. sem_nsems[s] - 1, v \in 0 .. semvmx :
           Seen(s, num, v)' => Covered(s, num, v, queues),
         Sleeps(p, s)
  PROVE  Sleeps(p, s)'
<1> PICK list : list = ops[p]
  OBVIOUS
<1> PICK id : id = semid[p]
  OBVIOUS
<1>1. /\ ops[p] = list /\ ops'[p] = list /\ semid[p] = id /\ semid'[p] = id
      /\ wait'[p] = wait[p] /\ SlotOf(id) = s
  BY DEF Bystanders, SlotAt
<1>2. PICK k \in DOMAIN list :
        /\ WaitsFor(p, k)
        /\ \A v \in 0 .. semvmx : Seen(s, list[k].num, v) => MustWait(list[k], v + Before(p, k))
  BY <1>1 DEF Sleeps
<1>3. list \in Seq(Op) /\ ZeroFirst(list)
  BY <1>1, CallAssumption
<1> DEFINE op == list[k]
           num == op.num
           before == Effects(list, num, BOOLEAN)[k - 1]
<1>4. k \in 1 .. Len(list) /\ Len(list) \in Nat /\ op \in Op /\ DOMAIN list = 1 .. Len(list)
  <2> HIDE DEF Op
  <2> QED
    BY <1>3, LenProperties, ElementOfSeq
<1>5. num \in Nat /\ op.op \in Int
  BY <1>4 DEF Op
<1>6. before \in Int
  <2>1. k - 1 \in 0 .. Len(list)
    BY <1>4
  <2> QED
    BY <2>1, <1>3, EffectsAre
<1>7. num \in 0 .. sem_nsems[s] - 1 /\ sem_base[s] + num \in Nat
  <2>1. Fits(p)
    BY DEF IInv, ProcInv, SleepInv
  <2>2. num < sem_nsems[s]
    BY <2>1, <1>1, <1>4 DEF Fits
  <2>3. sem_base[s] \in Nat /\ sem_nsems[s] \in Nat
    BY DEF IInv, Types
  <2> QED
    BY <2>2, <2>3, <1>5
<1>8. /\ op.op <= 0 /\ ~op.nowait
      /\ wait[p] = <<IF op.op = 0 THEN "semzcnt_wait" ELSE "semncnt_wait", sem_base[s] + num>>
  BY <1>1, <1>2 DEF WaitsFor, SemOf
<1>9. Before(p, k) = before /\ Before(p, k)' = before
  BY <1>1 DEF Before
<1>10. WaitsFor(p, k)'
  BY <1>1, <1>2, <1>8 DEF WaitsFor, SemOf, SlotOf
<1> HIDE DEF op, before
<1>11. ASSUME NEW v \in 0 .. semvmx, Seen(s, num, v)'
       PROVE  MustWait(op, v + before)
  <2>1. Covered(s, num, v, queues)
    BY <1>7, <1>11
  <2>2. CASE Seen(s, num, v)
    BY <2>2, <1>2, <1>9 DEF op
  <2>3. CASE ~Seen(s, num, v) /\ op.op = 0
    <3>1. wait[p] = <<"semzcnt_wait", sem_base[s] + num>>
      BY <2>3, <1>8
    <3>2. v # 0
      BY <2>1, <2>3, <3>1 DEF Covered
    <3>3. before = 0
      <4>1. \A j \in 1 .. k - 1 : j \in DOMAIN list /\ j < k
        BY <1>4
      <4>2. \A j \in 1 .. k - 1 : list[j].num = num => list[j].op = 0
        BY <4>1, <2>3, <1>3, <1>8 DEF ZeroFirst, op
      <4> QED
        BY <4>2, <1>3, <1>4, ZeroBefore DEF before
    <3> QED
      BY <2>3, <3>2, <3>3 DEF MustWait, CanDo
  <2>4. CASE ~Seen(s, num, v) /\ op.op < 0
    <3>1. wait[p] = <<"semncnt_wait", sem_base[s] + num>>
      BY <2>4, <1>8
    <3>2. PICK u \in 0 .. semvmx : Seen(s, num, u) /\ v <= u
      BY <2>1, <2>4, <3>1 DEF Covered
    <3>3. MustWait(op, u + before)
      BY <3>2, <1>2, <1>9 DEF op
    <3>4. ~(u + before >= -op.op)
      BY <2>4, <3>3, <1>5 DEF MustWait, CanDo
    <3>5. v \in Int /\ u \in Int
      OBVIOUS
    <3>6. ~(v + before >= -op.op)
      BY <3>2, <3>4, <3>5, <1>5, <1>6
    <3> QED
      BY <2>4, <3>6, <1>5 DEF MustWait, CanDo
  <2> QED
    BY <2>2, <2>3, <2>4, <1>5, <1>8
<1> QED
  BY <1>1, <1>2, <1>9, <1>10, <1>11 DEF Sleeps, op

(* What the holder of a set that is left alone, and who sleeps on it, see. *)
LEMMA SeenApart ==
  ASSUME IInv, LockInv, NEW q \in Proc, NEW s0, Apart(q, s0),
         NEW s \in Slot, s # s0, live'[s], NEW num \in 0 .. sem_nsems[s] - 1, NEW v,
         Seen(s, num, v)'
  PROVE  Seen(s, num, v)
<1> PICK r : r = semid_lock[s]
  OBVIOUS
<1>1. /\ Same(s) /\ semid_lock'[s] = r /\ semid_lock[s] = r
      /\ r # None => /\ pc'[r] = pc[r] /\ ops'[r] = ops[r] /\ i'[r] = i[r] /\ start'[r] = start[r]
  BY OtherLock
<1>2. sem_base'[s] = sem_base[s] /\ semval'[sem_base[s] + num] = semval[sem_base[s] + num]
  <2>1. sem_base[s] \in Nat /\ sem_nsems[s] \in Nat
    BY DEF IInv, Types
  <2>2. sem_base[s] + num \in SemsOf(s)
    BY <2>1 DEF SemsOf
  <2> QED
    BY <2>2, <1>1 DEF Same
<1>3. CASE r = None
  <2>1. r \notin Proc
    BY <1>3, ProcAssumption
  <2> QED
    BY <2>1, <1>1, <1>2, <1>3 DEF Seen
<1>4. CASE r # None
  <2>1. Done(r)' = Done(r) /\ \A k : ValAt(r, num, k)' = ValAt(r, num, k)
    BY <1>1, <1>4 DEF Done, ValAt
  <2>2. PICK k \in 0 .. Done(r)' : r \in Proc /\ v = ValAt(r, num, k)'
    <3>1. PICK x \in Proc : semid_lock'[s] = x /\ \E k \in 0 .. Done(x)' : v = ValAt(x, num, k)'
      BY <1>1, <1>4 DEF Seen
    <3>2. x = r
      BY <3>1, <1>1
    <3> QED
      BY <3>1, <3>2
  <2> QED
    BY <2>1, <2>2, <1>1 DEF Seen
<1> QED
  BY <1>3, <1>4

LEMMA OtherWaits ==
  ASSUME \A list \in OpLists : ZeroFirst(list), IInv, IInv', LockInv, ListInv,
         NEW q \in Proc, NEW s0, Apart(q, s0), NEW p \in Proc \ {q}, WaitInv(p),
         pc'[p] = "asleep" /\ SlotAt(p) = s0 /\ Exists(semid[p])' => Sleeps(p, s0)'
  PROVE  WaitInv(p)'
<1> PICK id : id = semid[p]
  OBVIOUS
<1>1. /\ semid[p] = id /\ semid'[p] = id /\ ops'[p] = ops[p] /\ wait'[p] = wait[p]
      /\ start'[p] = start[p] /\ SlotAt(p) = SlotOf(id) /\ SlotAt(p)' = SlotOf(id)
      /\ Bystanders(q)
  BY DEF Apart, Bystanders, SlotAt, SlotOf
<1>2. ASSUME pc'[p] = "undo", wait'[p] # None
      PROVE  \E k \in DOMAIN ops'[p] : WaitsFor(p, k)' /\
               MustWait(ops'[p][k], ValAt(p, ops[p][k].num, 0)' + Before(p, k)')
  <2>1. pc[p] = "undo" /\ Same(SlotAt(p))
    BY <1>2, OtherSet DEF Working
  <2>2. sem_base'[SlotOf(id)] = sem_base[SlotOf(id)]
    BY <2>1, <1>1 DEF Same
  <2>3. PICK k \in DOMAIN ops[p] : WaitsFor(p, k) /\
                MustWait(ops[p][k], ValAt(p, ops[p][k].num, 0) + Before(p, k))
    BY <2>1, <1>1, <1>2 DEF WaitInv
  <2>4. WaitsFor(p, k)'
    BY <2>2, <2>3, <1>1 DEF WaitsFor, SemOf
  <2>5. Before(p, k)' = Before(p, k) /\ ValAt(p, ops[p][k].num, 0)' = ValAt(p, ops[p][k].num, 0)
    BY <1>1 DEF Before, ValAt
  <2> QED
    BY <2>3, <2>4, <2>5, <1>1
<1>3. ASSUME pc'[p] = "asleep", NEW s \in Slot, s = SlotAt(p)', Exists(id)'
      PROVE  Sleeps(p, s)'
  <2>1. s = SlotAt(p) /\ s = SlotOf(id)
    BY <1>1, <1>3
  <2>2. CASE s = s0
    BY <2>1, <2>2, <1>1, <1>3
  <2>3. CASE s # s0
    <3>1. live'[s]
      BY <2>1, <1>3 DEF Exists, SlotOf
    <3>2. Same(s)
      BY <2>3, <3>1 DEF Apart
    <3>3. Exists(id)
      BY <2>1, <3>2, <1>3 DEF Same, Exists, IdOf, SlotOf
    <3>4. pc[p] = "asleep"
      BY <1>3 DEF Apart, Bystanders
    <3>5. Sleeps(p, s) /\ ops[p] \in OpLists
      BY <2>1, <3>3, <3>4, <1>1 DEF WaitInv, ListInv
    <3>6. sem_base'[s] = sem_base[s]
      BY <3>2 DEF Same
    <3>7. \A num \in 0 .. sem_nsems[s] - 1, v \in 0 .. semvmx :
           Seen(s, num, v)' => Covered(s, num, v, {})
      BY <2>3, <3>1, SeenApart DEF Covered
    <3>8. wait[p] \notin {}
      OBVIOUS
    <3>9. Exists(semid[p]) /\ SlotAt(p) = s
      BY <2>1, <3>3, <1>1
    <3> QED
      BY <3>4, <3>5, <3>6, <3>7, <3>8, <3>9, <1>1, SleepsOn
  <2> QED
    BY <2>2, <2>3
<1> QED
  BY <1>1, <1>2, <1>3 DEF WaitInv

LEMMA WakeStep ==
  ASSUME \A list \in OpLists : ZeroFirst(list), IInv, IInv', LockInv, WakeInv,
         NEW q \in Proc, NEW s0, Apart(q, s0),
         \A p \in Proc \ {q} : pc'[p] = "asleep" /\ SlotAt(p) = s0 /\ Exists(semid[p])'
                                 => Sleeps(p, s0)',
         WaitInv(q)',
         pc'[q] \in Working \cup {"asleep", "again"} => ops'[q] \in OpLists
  PROVE  WakeInv'
<1>1. ListInv /\ \A p \in Proc : WaitInv(p)
  BY DEF WakeInv
<1>2. ASSUME NEW p \in Proc PROVE WaitInv(p)'
  BY <1>1, OtherWaits
<1>3. ListInv'
  <2>1. ASSUME NEW p \in Proc, pc'[p] \in Working \cup {"asleep", "again"}
        PROVE  ops'[p] \in OpLists
    <3>1. CASE p = q
      BY <2>1, <3>1
    <3>2. CASE p # q
      <4>1. pc[p] \in Working \cup {"asleep", "again"} /\ ops'[p] = ops[p]
        BY <2>1, <3>2 DEF Apart, Bystanders, Working
      <4> QED
        BY <4>1, <1>1 DEF ListInv
    <3> QED
      BY <3>1, <3>2
  <2> QED
    BY <2>1 DEF ListInv
<1> QED
  BY <1>2, <1>3 DEF WakeInv

-----------------------------------------------------------------------------
(* What holds of the calls, in one. *)
ZeroLists == \A list \in OpLists : ZeroFirst(list)
CallInv == BoundInv /\ BalanceInv /\ (ZeroLists => WakeInv)

LEMMA CallStep ==
  ASSUME IInv, IInv', CallInv, NEW q \in Proc, NEW s0, Apart(q, s0), LockAt(q, s0),
         \A p \in Proc : Bounded(un_ent'[p]) /\ Single(un_ent'[p]),
         RunInv(q)', PushInv(q)', Ranges',
         s0 \in Slot /\ live'[s0] => \A num \in 0 .. sem_nsems'[s0] - 1 : BalanceAt(s0, num)',
         ZeroLists /\ WakeInv =>
           /\ \A p \in Proc \ {q} : pc'[p] = "asleep" /\ SlotAt(p) = s0 /\ Exists(semid[p])'
                                 => Sleeps(p, s0)'
           /\ WaitInv(q)'
           /\ pc'[q] \in Working \cup {"asleep", "again"} => ops'[q] \in OpLists
  PROVE  CallInv'
<1>1. BoundInv /\ BalanceInv /\ LockInv
  BY DEF CallInv, BoundInv
<1>2. BoundInv'
  BY <1>1, BoundStep
<1>3. BalanceInv'
  BY <1>1, BalanceStep
<1>4. ASSUME ZeroLists PROVE WakeInv'
  <2>1. WakeInv
    BY <1>4 DEF CallInv
  <2>2. \A list \in OpLists : ZeroFirst(list)
    BY <1>4 DEF ZeroLists
  <2> QED
    BY <2>1, <2>2, <1>1, <1>4, WakeStep
<1>5. ZeroLists' <=> ZeroLists
  BY DEF ZeroLists, ZeroFirst
<1> QED
  BY <1>2, <1>3, <1>4, <1>5 DEF CallInv

(* Steps that touch no semaphore and no entry; sets may disappear. *)
Rests(q) ==
  /\ pc[q] \notin Working /\ pc'[q] \notin Working \cup {"asleep", "again"}
  /\ Bystanders(q)
  /\ semval' = semval /\ net' = net /\ un_ent' = un_ent /\ pushed' = pushed
  /\ \A s \in Slot : live'[s] => /\ live[s] /\ seq'[s] = seq[s]
                                 /\ sem_base'[s] = sem_base[s] /\ sem_nsems'[s] = sem_nsems[s]
                                 /\ semid_lock'[s] = semid_lock[s]
  /\ block' = block \/ (block' = block \ {q} /\ un_ent[q] = <<>>)
  /\ chain' \subseteq Proc /\ DOMAIN start' = Proc /\ seq' \in [Slot -> 0 .. MaxSeq]

LEMMA RestStep ==
  ASSUME IInv, IInv', CallInv, NEW q \in Proc, Rests(q)
  PROVE  CallInv'
<1> DEFINE s0 == -1
<1>1. s0 \notin Slot
  BY DEF Slot
<1>2. BoundInv /\ Ranges
  BY DEF CallInv, BoundInv
<1>3. block' \subseteq block /\ Cardinality(block') <= semmnu
  <2>1. block \subseteq Proc /\ Cardinality(block) <= semmnu
    BY <1>2 DEF Ranges
  <2>2. IsFiniteSet(block)
    BY <2>1, ProcAssumption, FS_Subset
  <2>3. block' \subseteq block
    BY DEF Rests
  <2>4. Cardinality(block') <= Cardinality(block) /\ IsFiniteSet(block')
    BY <2>2, <2>3, FS_Subset
  <2>5. Cardinality(block) \in Nat /\ Cardinality(block') \in Nat /\ semmnu \in Nat
    BY <2>2, <2>4, FS_CardinalityType, InfoAssumption
  <2> QED
    BY <2>1, <2>3, <2>4, <2>5
<1>4. Ranges'
  BY <1>2, <1>3 DEF Ranges, Rests
<1>5. Apart(q, s0)
  <2>1. UndoShrinks(q)
    <3>1. \A p \in Proc : Len(un_ent[p]) \in Nat
      BY EntriesTyped DEF IInv
    <3>2. un_ent' = un_ent /\ \A p \in Proc \ {q} : p \in block => p \in block'
      BY DEF Rests
    <3> QED
      BY <3>1, <3>2 DEF UndoShrinks
  <2>2. \A s \in Slot : live'[s] => Same(s)
    BY DEF Rests, Same
  <2> QED
    BY <1>1, <2>1, <2>2 DEF Apart, Rests
<1> HIDE DEF s0
<1>6. LockAt(q, s0)
  BY <1>1 DEF LockAt
<1>7. \A p \in Proc : Bounded(un_ent'[p]) /\ Single(un_ent'[p])
  BY <1>2 DEF BoundInv, Rests
<1>8. RunInv(q)'
  BY DEF RunInv, Rests
<1>9. PushInv(q)'
  <2>1. PushInv(q)
    BY <1>2 DEF BoundInv
  <2>2. ~pushed[q] /\ pushed' = pushed
    BY <2>1 DEF PushInv, Rests
  <2>3. un_ent'[q] # <<>> => q \in block'
    BY <2>1 DEF PushInv, Rests
  <2> QED
    BY <2>2, <2>3 DEF PushInv
<1>10. /\ \A p \in Proc \ {q} : pc'[p] = "asleep" /\ SlotAt(p) = s0 /\ Exists(semid[p])'
                                 => Sleeps(p, s0)'
  <2>1. SUFFICES ASSUME NEW p \in Proc \ {q}, pc'[p] = "asleep", SlotAt(p) = s0 PROVE FALSE
    OBVIOUS
  <2>2. pc[p] = "asleep"
    BY <2>1 DEF Rests, Bystanders
  <2>3. Known(semid[p])
    BY <2>2 DEF IInv, ProcInv, SleepInv
  <2> QED
    BY <2>1, <2>3, <1>1 DEF Known, SlotAt
<1>11. WaitInv(q)' /\ pc'[q] \notin Working \cup {"asleep", "again"}
  BY DEF WaitInv, Rests, Working
<1> QED
  BY <1>1, <1>4, <1>5, <1>6, <1>7, <1>8, <1>9, <1>10, <1>11, CallStep

(* After Forget. *)
LEMMA LocalsForgotten ==
  ASSUME Types, Ranges, NEW p \in Proc, Forget(p)
  PROVE  /\ pushed' = pushed /\ DOMAIN start' = Proc
         /\ \A q \in Proc \ {p} : /\ semid'[q] = semid[q] /\ ops'[q] = ops[q] /\ wait'[q] = wait[q]
                                  /\ i'[q] = i[q] /\ start'[q] = start[q]
<1>1. \A q \in Proc \ {p} : semid'[q] = semid[q] /\ ops'[q] = ops[q] /\ wait'[q] = wait[q]
  BY Forgotten
<1>2. \A q \in Proc \ {p} : i'[q] = i[q]
  BY DEF Types, Forget
<1>3. DOMAIN start' = Proc /\ \A q \in Proc \ {p} : start'[q] = start[q]
  BY DEF Ranges, Forget
<1> QED
  BY <1>1, <1>2, <1>3 DEF Forget

LEMMA AtOnce ==
  ASSUME IInv, CallInv
  PROVE  Types /\ Ranges /\ BoundInv /\ LockInv
BY DEF IInv, CallInv, BoundInv

LEMMA InterruptCall ==
  ASSUME IInv, IInv', CallInv, NEW p \in Proc, Interrupt(p)
  PROVE  CallInv'
<1>1. /\ pc[p] = "asleep" /\ Goto(p, "idle") /\ Forget(p)
      /\ UNCHANGED <<live, seq, sem_base, sem_nsems, semid_lock, semval, un_ent, block, chain, net>>
  BY DEF Interrupt, setVars, undoVars
<1>2. Types /\ Ranges
  BY AtOnce
<1>3. pc'[p] = "idle" /\ \A q \in Proc \ {p} : pc'[q] = pc[q]
  BY <1>1, <1>2, Gone DEF Place
<1>4. Bystanders(p) /\ pushed' = pushed /\ DOMAIN start' = Proc
  BY <1>1, <1>2, <1>3, LocalsForgotten DEF Bystanders
<1>5. Rests(p)
  BY <1>1, <1>2, <1>3, <1>4 DEF Rests, Ranges, Working
<1> QED
  BY <1>5, RestStep

LEMMA SETALLCall ==
  ASSUME IInv, IInv', CallInv, NEW p \in Proc, SETALL(p)
  PROVE  CallInv'
<1>1. /\ pc[p] = "idle" /\ Goto(p, "setall")
      /\ UNCHANGED <<live, seq, sem_base, sem_nsems, semid_lock, semval, un_ent, block, chain, net>>
      /\ UNCHANGED <<ops, i, pushed, wait, start>>
      /\ \E s \in Slot : semid' = [semid EXCEPT ![p] = IdOf(s)]
  BY DEF SETALL, undoVars
<1>2. Types /\ Ranges
  BY AtOnce
<1>3. pc'[p] = "setall" /\ \A q \in Proc \ {p} : pc'[q] = pc[q]
  BY <1>1, <1>2, Gone DEF Place
<1>4. \A q \in Proc \ {p} : semid'[q] = semid[q]
  BY <1>1, <1>2 DEF Types
<1>5. Bystanders(p)
  BY <1>1, <1>3, <1>4 DEF Bystanders
<1>6. Rests(p)
  BY <1>1, <1>2, <1>3, <1>5 DEF Rests, Ranges, Working
<1> QED
  BY <1>6, RestStep

LEMMA IPC_RMIDCall ==
  ASSUME IInv, IInv', CallInv, NEW p \in Proc, IPC_RMID(p)
  PROVE  CallInv'
<1>1. PICK s \in Removable :
        /\ seq[s] < MaxSeq
        /\ Lock(s, p)
        /\ semid' = [semid EXCEPT ![p] = IdOf(s)]
        /\ live' = [live EXCEPT ![s] = FALSE]
        /\ seq' = [seq EXCEPT ![s] = @ + 1]
  BY DEF IPC_RMID
<1>2. /\ pc[p] = "idle" /\ Goto(p, "rmid")
      /\ UNCHANGED <<sem_base, sem_nsems, semval, un_ent, block, chain, net>>
      /\ UNCHANGED <<ops, i, pushed, wait, start>>
  BY DEF IPC_RMID, undoVars
<1>3. Types /\ Ranges
  BY AtOnce
<1>4. pc'[p] = "rmid" /\ \A q \in Proc \ {p} : pc'[q] = pc[q]
  BY <1>2, <1>3, Gone DEF Place, Rm
<1>5. \A q \in Proc \ {p} : semid'[q] = semid[q]
  BY <1>1, <1>3 DEF Types
<1>6. Bystanders(p)
  BY <1>2, <1>4, <1>5 DEF Bystanders
<1>7. s \in Slot
  BY CallAssumption
<1>8. \A t \in Slot : live'[t] => /\ live[t] /\ seq'[t] = seq[t] /\ semid_lock'[t] = semid_lock[t]
  BY <1>1, <1>3, <1>7 DEF Types, Lock
<1>9. seq' \in [Slot -> 0 .. MaxSeq]
  <2>1. seq[s] + 1 \in 0 .. MaxSeq
    BY <1>1, <1>3, <1>7, InfoAssumption DEF Ranges
  <2> QED
    BY <2>1, <1>1, <1>3, <1>7 DEF Ranges
<1>10. Rests(p)
  BY <1>2, <1>3, <1>4, <1>6, <1>8, <1>9 DEF Rests, Ranges, Working
<1> QED
  BY <1>10, RestStep

LEMMA FreeSemsCall ==
  ASSUME IInv, IInv', CallInv, NEW p \in Proc, FreeSems(p)
  PROVE  CallInv'
<1>1. /\ pc[p] = "rmfree" /\ Goto(p, "idle") /\ Forget(p)
      /\ semid_lock' = [semid_lock EXCEPT ![SlotAt(p)] = None]
      /\ UNCHANGED <<live, seq, sem_base, sem_nsems, semval, un_ent, block, chain, net>>
  BY DEF FreeSems, undoVars, Unlock, SlotAt
<1>2. Types /\ Ranges
  BY AtOnce
<1>3. pc'[p] = "idle" /\ \A q \in Proc \ {p} : pc'[q] = pc[q]
  BY <1>1, <1>2, Gone DEF Place
<1>4. Bystanders(p) /\ pushed' = pushed /\ DOMAIN start' = Proc
  BY <1>1, <1>2, <1>3, LocalsForgotten DEF Bystanders
<1>5. ~live[SlotAt(p)]
  BY <1>1 DEF IInv, ProcInv, RmInv, Rm
<1>6. \A s \in Slot : live'[s] => semid_lock'[s] = semid_lock[s]
  BY <1>1, <1>2, <1>5 DEF Types
<1>7. Rests(p)
  BY <1>1, <1>2, <1>3, <1>4, <1>6 DEF Rests, Ranges, Working
<1> QED
  BY <1>7, RestStep

LEMMA semexitCall ==
  ASSUME IInv, IInv', CallInv, NEW p \in Proc, semexit(p)
  PROVE  CallInv'
<1>1. /\ pc[p] = "idle" /\ Goto(p, "exit") /\ chain' = chain \ {p}
      /\ UNCHANGED <<live, seq, sem_base, sem_nsems, semid_lock, semval, un_ent, block, net>>
      /\ UNCHANGED <<semid, ops, i, pushed, wait, start>>
  BY DEF semexit, setVars, callVars
<1>2. Types /\ Ranges
  BY AtOnce
<1>3. pc'[p] = "exit" /\ \A q \in Proc \ {p} : pc'[q] = pc[q]
  BY <1>1, <1>2, Gone DEF Place
<1>4. Bystanders(p)
  BY <1>1, <1>3 DEF Bystanders
<1>5. Rests(p)
  BY <1>1, <1>2, <1>3, <1>4 DEF Rests, Ranges, Working
<1> QED
  BY <1>5, RestStep

LEMMA ExitedCall ==
  ASSUME IInv, IInv', CallInv, NEW p \in Proc, Exited(p)
  PROVE  CallInv'
<1>1. /\ pc[p] = "exit" /\ un_ent[p] = <<>> /\ Goto(p, "idle") /\ block' = block \ {p}
      /\ UNCHANGED <<live, seq, sem_base, sem_nsems, semid_lock, semval, un_ent, chain, net>>
      /\ UNCHANGED <<semid, ops, i, pushed, wait, start>>
  BY DEF Exited, setVars, callVars
<1>2. Types /\ Ranges
  BY AtOnce
<1>3. pc'[p] = "idle" /\ \A q \in Proc \ {p} : pc'[q] = pc[q]
  BY <1>1, <1>2, Gone DEF Place
<1>4. Bystanders(p)
  BY <1>1, <1>3 DEF Bystanders
<1>5. Rests(p)
  BY <1>1, <1>2, <1>3, <1>4 DEF Rests, Ranges, Working
<1> QED
  BY <1>5, RestStep

-----------------------------------------------------------------------------
(* The calls, one after the other. *)

(* A step of q that changes the set in slot s0, and no other. *)
OnlyAt(q, s0) ==
  /\ UNCHANGED <<live, seq, sem_base, sem_nsems>>
  /\ Bystanders(q) /\ UndoShrinks(q)
  /\ s0 \in Slot => Occupied(s0) /\ (live[s0] => semid_lock[s0] \in {None, q})
  /\ pc[q] \in Working => SlotAt(q) = s0
  /\ \A s \in Slot : s # s0 /\ live[s] =>
       /\ semid_lock'[s] = semid_lock[s]
       /\ \A p \in Proc : \A num \in Int :
            Adjustment(un_ent'[p], IdOf(s), num) = Adjustment(un_ent[p], IdOf(s), num)
  /\ \A n \in Sem : s0 \notin Slot \/ n \notin SemsOf(s0) =>
                      semval'[n] = semval[n] /\ net'[n] = net[n]

LEMMA SlotStep ==
  ASSUME IInv, NEW q \in Proc, NEW s0, OnlyAt(q, s0)
  PROVE  Apart(q, s0)
<1>1. ASSUME NEW s \in Slot, s # s0, live'[s] PROVE Same(s)
  <2>1. /\ live[s] /\ seq'[s] = seq[s] /\ sem_base'[s] = sem_base[s]
        /\ sem_nsems'[s] = sem_nsems[s] /\ semid_lock'[s] = semid_lock[s]
        /\ \A p \in Proc : \A num \in Int :
             Adjustment(un_ent'[p], IdOf(s), num) = Adjustment(un_ent[p], IdOf(s), num)
    BY <1>1 DEF OnlyAt
  <2>2. Occupied(s)
    BY <2>1 DEF Occupied
  <2>3. SemsOf(s) \subseteq Sem
    BY <2>2 DEF IInv, SetsInv
  <2>4. s0 \in Slot => SemsOf(s) \cap SemsOf(s0) = {}
    BY <1>1, <2>2 DEF IInv, SetsInv, OnlyAt
  <2>5. \A n \in SemsOf(s) : semval'[n] = semval[n] /\ net'[n] = net[n]
    BY <2>3, <2>4 DEF OnlyAt
  <2> QED
    BY <2>1, <2>5 DEF Same
<1> QED
  BY <1>1 DEF Apart, OnlyAt

Adds(f, list, num, N, P) ==
  /\ f[0] = 0 /\ \A j \in 0 .. N : f[j] \in Int
  /\ \A j \in 1 .. N : f[j] = f[j - 1] + IF list[j].num = num /\ P[j] THEN list[j].op ELSE 0
Splits(list, num, N, f, g, h) ==
  /\ \A j \in 1 .. N : list[j].op \in Int
  /\ \E A, Y, X :
       /\ \A j \in 1 .. N : A[j] /\ (X[j] <=> ~Y[j])
       /\ Adds(f, list, num, N, A) /\ Adds(g, list, num, N, Y) /\ Adds(h, list, num, N, X)
LEMMA SplitSum ==
  ASSUME NEW list, NEW num, NEW N \in Nat, NEW f, NEW g, NEW h, Splits(list, num, N, f, g, h)
  PROVE  \A k \in 0 .. N : f[k] = g[k] + h[k]
<1>1. \A j \in 1 .. N : list[j].op \in Int
  BY DEF Splits
<1>2. PICK A, Y, X :
       /\ \A j \in 1 .. N : A[j] /\ (X[j] <=> ~Y[j])
       /\ Adds(f, list, num, N, A) /\ Adds(g, list, num, N, Y) /\ Adds(h, list, num, N, X)
  BY DEF Splits
<1>3. \A j \in 1 .. N : A[j]
  BY <1>2
<1>4. \A j \in 1 .. N : X[j] <=> ~Y[j]
  BY <1>2
<1>5. Adds(f, list, num, N, A)
  BY <1>2
<1>6. Adds(g, list, num, N, Y)
  BY <1>2
<1>7. Adds(h, list, num, N, X)
  BY <1>2
<1> DEFINE diff == [j \in 0 .. N |-> f[j] - g[j] - h[j]]
           S == [j \in 0 .. N |-> {0}]
<1>8. \A j \in 0 .. N : f[j] \in Int /\ g[j] \in Int /\ h[j] \in Int
  BY <1>5, <1>6, <1>7 DEF Adds
<1>9. f[0] = 0 /\ g[0] = 0 /\ h[0] = 0
  BY <1>5, <1>6, <1>7 DEF Adds
<1>10. \A j \in 0 .. N : diff[j] = f[j] - g[j] - h[j] /\ S[j] = {0}
  OBVIOUS
<1> HIDE DEF diff, S
<1>11. diff[0] \in S[0]
  BY <1>8, <1>9, <1>10
<1>12. ASSUME NEW j \in 1 .. N, diff[j - 1] \in S[j - 1] PROVE diff[j] \in S[j]
  <2>1. j \in 0 .. N /\ j - 1 \in 0 .. N
    OBVIOUS
  <2>2. f[j - 1] - g[j - 1] - h[j - 1] = 0
    BY <2>1, <1>10, <1>12
  <2>3. /\ f[j] \in Int /\ g[j] \in Int /\ h[j] \in Int
        /\ f[j - 1] \in Int /\ g[j - 1] \in Int /\ h[j - 1] \in Int
    BY <2>1, <1>8
  <2>4. f[j] - g[j] - h[j] = 0
    <3> PICK x : x = list[j].op
      OBVIOUS
    <3>1. x \in Int
      BY <1>1
    <3>2. \/ f[j] = f[j - 1] + 0 /\ g[j] = g[j - 1] + 0 /\ h[j] = h[j - 1] + 0
          \/ f[j] = f[j - 1] + x /\ g[j] = g[j - 1] + x /\ h[j] = h[j - 1] + 0
          \/ f[j] = f[j - 1] + x /\ g[j] = g[j - 1] + 0 /\ h[j] = h[j - 1] + x
      <4>1. CASE list[j].num # num
        BY <4>1, <1>5, <1>6, <1>7 DEF Adds
      <4>2. CASE list[j].num = num /\ Y[j]
        BY <4>2, <1>3, <1>4, <1>5, <1>6, <1>7 DEF Adds
      <4>3. CASE list[j].num = num /\ ~Y[j]
        BY <4>3, <1>3, <1>4, <1>5, <1>6, <1>7 DEF Adds
      <4> QED
        BY <4>1, <4>2, <4>3
    <3> QED
      BY <3>1, <3>2, <2>2, <2>3
  <2> QED
    BY <2>1, <2>4, <1>10
<1>13. \A j \in 0 .. N : diff[j] \in S[j]
  BY <1>11, <1>12, StaysIn
<1>14. ASSUME NEW k \in 0 .. N PROVE f[k] = g[k] + h[k]
  <2>1. f[k] - g[k] - h[k] = 0 /\ f[k] \in Int /\ g[k] \in Int /\ h[k] \in Int
    BY <1>8, <1>10, <1>13
  <2> QED
    BY <2>1
<1> QED
  BY <1>14

(* What is done is undone when the process exits, or not. *)
LEMMA EffectsSplit ==
  ASSUME NEW list \in Seq(Op), NEW num, NEW k \in 0 .. Len(list)
  PROVE  Effects(list, num, BOOLEAN)[k]
           = Effects(list, num, {TRUE})[k] + Effects(list, num, {FALSE})[k]
<1> DEFINE N == Len(list)
           Under(undone) == [j \in 1 .. N |-> list[j].undo \in undone]
<1>1. N \in Nat /\ \A j \in 1 .. N : list[j].op \in Int /\ list[j].undo \in BOOLEAN
  <2>1. N \in Nat /\ \A j \in 1 .. N : list[j] \in Op
    <3> HIDE DEF Op
    <3> QED
      BY LenProperties, ElementOfSeq
  <2> QED
    BY <2>1 DEF Op
<1>2. ASSUME NEW undone PROVE Adds(Effects(list, num, undone), list, num, N, Under(undone))
  <2> PICK f : f = Effects(list, num, undone)
    OBVIOUS
  <2>1. /\ f[0] = 0 /\ \A j \in 0 .. N : f[j] \in Int
        /\ \A j \in 1 .. N : f[j] = f[j - 1] +
             IF list[j].num = num /\ list[j].undo \in undone THEN list[j].op ELSE 0
    BY EffectsAre
  <2>2. \A j \in 1 .. N : Under(undone)[j] <=> list[j].undo \in undone
    OBVIOUS
  <2> HIDE DEF Under, N
  <2>3. Adds(f, list, num, N, Under(undone))
    BY <2>1, <2>2 DEF Adds
  <2> QED
    BY <2>3
<1>3. \A j \in 1 .. N : Under(BOOLEAN)[j] /\ (Under({FALSE})[j] <=> ~Under({TRUE})[j])
  BY <1>1
<1> HIDE DEF N, Under
<1>4. k \in 0 .. N
  BY DEF N
<1>5. /\ Adds(Effects(list, num, BOOLEAN), list, num, N, Under(BOOLEAN))
      /\ Adds(Effects(list, num, {TRUE}), list, num, N, Under({TRUE}))
      /\ Adds(Effects(list, num, {FALSE}), list, num, N, Under({FALSE}))
  BY <1>2
<1>6. Splits(list, num, N, Effects(list, num, BOOLEAN), Effects(list, num, {TRUE}),
             Effects(list, num, {FALSE}))
  BY <1>1, <1>3, <1>5 DEF Splits
<1>7. N \in Nat
  BY <1>1
<1>8. \A m \in 0 .. N : Effects(list, num, BOOLEAN)[m]
                           = Effects(list, num, {TRUE})[m] + Effects(list, num, {FALSE})[m]
  BY <1>6, <1>7, SplitSum
<1> QED
  BY <1>4, <1>8

(* The semaphores of its set, to a process that works. *)
LEMMA OwnSems ==
  ASSUME IInv, Ranges, NEW p \in Proc, pc[p] \in Working
  PROVE  /\ sem_base[SlotAt(p)] \in Nat /\ sem_nsems[SlotAt(p)] \in Nat
         /\ IdOf(SlotAt(p)) = semid[p] /\ Own(p) = 0 .. sem_nsems[SlotAt(p)] - 1
         /\ \A num \in Own(p) :
              /\ num \in Nat /\ SemOf(semid[p], num) = sem_base[SlotAt(p)] + num
              /\ SemOf(semid[p], num) \in SemsOf(SlotAt(p)) /\ SemOf(semid[p], num) \in Sem
              /\ semval[SemOf(semid[p], num)] \in 0 .. semvmx
              /\ net[SemOf(semid[p], num)] \in Int
<1>1. /\ SlotAt(p) \in Slot /\ Exists(semid[p]) /\ SemsOf(SlotAt(p)) \subseteq Sem
  BY AtWork
<1>2. sem_base[SlotAt(p)] \in Nat /\ sem_nsems[SlotAt(p)] \in Nat
  BY <1>1 DEF IInv, Types
<1>3. IdOf(SlotAt(p)) = semid[p] /\ Own(p) = 0 .. sem_nsems[SlotAt(p)] - 1
  BY <1>1 DEF Exists, SlotAt, Own
<1>4. ASSUME NEW num \in Own(p)
      PROVE  /\ num \in Nat /\ SemOf(semid[p], num) = sem_base[SlotAt(p)] + num
             /\ SemOf(semid[p], num) \in SemsOf(SlotAt(p)) /\ SemOf(semid[p], num) \in Sem
  <2>1. num \in 0 .. sem_nsems[SlotAt(p)] - 1 /\ SemOf(semid[p], num) = sem_base[SlotAt(p)] + num
    BY <1>3 DEF SemOf, SlotAt
  <2>2. num \in Nat /\ sem_base[SlotAt(p)] + num
          \in sem_base[SlotAt(p)] .. sem_base[SlotAt(p)] + sem_nsems[SlotAt(p)] - 1
    BY <2>1, <1>2
  <2> QED
    BY <2>1, <2>2, <1>1 DEF SemsOf
<1> QED
  BY <1>2, <1>3, <1>4 DEF Ranges

(* What p has seen while it has the set, the present value among it. *)
LEMMA SeenOwn ==
  ASSUME IInv, Ranges, NEW p \in Proc, pc[p] \in Working, NEW d, Done(p) = d, Ran(p, d),
         NEW num \in Own(p)
  PROVE  /\ \A k \in 0 .. d : Seen(SlotAt(p), num, ValAt(p, num, k))
         /\ Seen(SlotAt(p), num, semval[sem_base[SlotAt(p)] + num])
<1>1. semid_lock[SlotAt(p)] = p
  BY AtWork
<1>2. \A k \in 0 .. d : Seen(SlotAt(p), num, ValAt(p, num, k))
  BY <1>1 DEF Seen
<1>3. semval[sem_base[SlotAt(p)] + num] = ValAt(p, num, d)
  <2>1. SemOf(semid[p], num) = sem_base[SlotAt(p)] + num
    BY OwnSems
  <2> QED
    BY <2>1 DEF Ran
<1>4. d \in 0 .. d
  BY LenProperties DEF Ran
<1> QED
  BY <1>2, <1>3, <1>4

(* p gives its set up, with d of its operations done. *)
LEMMA UnlockCall ==
  ASSUME IInv, IInv', CallInv, NEW p \in Proc, pc[p] \in Working, i[p] \notin DOMAIN ops[p],
         NEW d, Done(p) = d, Ran(p, d),
         UNCHANGED <<live, seq, sem_base, sem_nsems, semval, un_ent, block, chain>>,
         semid_lock' = [semid_lock EXCEPT ![SlotAt(p)] = None],
         \A n \in Sem : net'[n] = net[n] +
           IF n \in SemsOf(SlotAt(p))
           THEN Effects(ops[p], n - sem_base[SlotAt(p)], {FALSE})[d] ELSE 0,
         net' \in [Sem -> Int], Bystanders(p), pushed' = pushed, DOMAIN start' = Proc,
         pc'[p] \in {"idle", "asleep"}, \A q \in Proc \ {p} : pc'[q] = pc[q],
         WakeInv => WaitInv(p)' /\ (pc'[p] = "asleep" => ops'[p] \in OpLists)
  PROVE  CallInv'
<1> PICK s0 : s0 = SlotAt(p)
  OBVIOUS
<1>1. Types /\ Ranges /\ BoundInv /\ LockInv
  BY AtOnce
<1>2. s0 \in Slot /\ live[s0] /\ semid_lock[s0] = p /\ SemsOf(s0) \subseteq Sem
  BY AtWork
<1>3. /\ sem_base[s0] \in Nat /\ sem_nsems[s0] \in Nat /\ IdOf(s0) = semid[p]
      /\ Own(p) = 0 .. sem_nsems[s0] - 1
  BY <1>1, OwnSems
<1>4. /\ semid_lock'[s0] = None
      /\ \A s \in Slot : s # s0 => semid_lock'[s] = semid_lock[s]
  BY <1>1, <1>2 DEF Types
<1>5. OnlyAt(p, s0)
  <2>1. UndoShrinks(p)
    BY EntriesTyped DEF UndoShrinks, IInv
  <2>2. Occupied(s0)
    BY <1>2 DEF Occupied
  <2>3. \A n \in Sem : n \notin SemsOf(s0) => net'[n] = net[n]
    BY <1>1 DEF Ranges
  <2> QED
    BY <2>1, <2>2, <2>3, <1>2, <1>4 DEF OnlyAt
<1>6. Apart(p, s0)
  BY <1>5, SlotStep
<1>7. LockAt(p, s0)
  BY <1>4 DEF LockAt
<1>8. \A q \in Proc : Bounded(un_ent'[q]) /\ Single(un_ent'[q])
  BY <1>1 DEF BoundInv
<1>9. RunInv(p)'
  BY DEF RunInv, Working
<1>10. PushInv(p)'
  <2>1. PushInv(p)
    BY <1>1 DEF BoundInv
  <2>2. ~pushed[p] /\ (un_ent[p] # <<>> => p \in block)
    BY <2>1 DEF PushInv
  <2> QED
    BY <2>2 DEF PushInv
<1>11. Ranges'
  BY <1>1 DEF Ranges
<1>12. ASSUME NEW num \in 0 .. sem_nsems'[s0] - 1 PROVE BalanceAt(s0, num)'
  <2>1. num \in 0 .. sem_nsems[s0] - 1 /\ sem_base[s0] + num \in SemsOf(s0)
    BY <1>3 DEF SemsOf
  <2>2. BalanceAt(s0, num)
    BY <2>1, <1>2 DEF CallInv, BalanceInv
  <2>3. ForGood(s0, num) = Effects(ops[p], num, {FALSE})[d]
    <3>1. p # None
      BY ProcAssumption
    <3> QED
      BY <3>1, <1>2 DEF ForGood
  <2>4. net'[sem_base[s0] + num] = net[sem_base[s0] + num] + Effects(ops[p], num, {FALSE})[d]
    <3> PICK n : n = sem_base[s0] + num
      OBVIOUS
    <3>1. n - sem_base[s0] = num
      BY <2>1, <1>3
    <3>2. n \in Sem /\ n \in SemsOf(SlotAt(p))
      BY <2>1, <1>2
    <3>3. net'[n] = net[n] + Effects(ops[p], n - sem_base[SlotAt(p)], {FALSE})[d]
      BY <3>2
    <3> QED
      BY <3>1, <3>3
  <2>5. ForGood(s0, num)' = 0
    BY <1>4 DEF ForGood
  <2>6. IdOf(s0)' = IdOf(s0)
    BY DEF IdOf
  <2>7. net'[sem_base[s0] + num] \in Int
    BY <2>1, <1>2
  <2>8. semval[sem_base[s0] + num] + Adjustments(un_ent, IdOf(s0), num)
          = net'[sem_base[s0] + num]
    BY <2>2, <2>3, <2>4 DEF BalanceAt
  <2> QED
    BY <2>5, <2>6, <2>7, <2>8 DEF BalanceAt
<1>13. ASSUME ZeroLists /\ WakeInv, NEW q \in Proc \ {p}, pc'[q] = "asleep",
              SlotAt(q) = s0, Exists(semid[q])'
       PROVE  Sleeps(q, s0)'
  <2>1. pc[q] = "asleep" /\ Exists(semid[q])
    BY <1>13 DEF Exists, IdOf, SlotOf, Bystanders
  <2>2. Sleeps(q, s0) /\ ops[q] \in OpLists
    BY <1>2, <2>1, <1>13 DEF WakeInv, WaitInv, ListInv
  <2>3. \A num \in 0 .. sem_nsems[s0] - 1, v \in 0 .. semvmx :
           Seen(s0, num, v)' => Covered(s0, num, v, {})
    <3>1. SUFFICES ASSUME NEW num \in Own(p), NEW v \in 0 .. semvmx, Seen(s0, num, v)'
                   PROVE  Seen(s0, num, v)
      BY <1>3 DEF Covered
    <3>2. v = semval[sem_base[s0] + num]
      BY <3>1, <1>4, ProcAssumption DEF Seen
    <3> QED
      BY <3>2, <1>1, SeenOwn
  <2>4. \A list \in OpLists : ZeroFirst(list)
    BY <1>13 DEF ZeroLists
  <2>5. wait[q] \notin {} /\ Bystanders(p)
    OBVIOUS
  <2> QED
    BY <2>1, <2>2, <2>3, <2>4, <2>5, <1>2, <1>13, SleepsOn
<1> QED
  BY <1>6, <1>7, <1>8, <1>9, <1>10, <1>11, <1>12, <1>13, CallStep DEF Working

LEMMA UndoneCall ==
  ASSUME IInv, IInv', CallInv, NEW p \in Proc, Undone(p)
  PROVE  CallInv'
<1> PICK s0 : s0 = SlotAt(p)
  OBVIOUS
<1> PICK id : id = semid[p]
  OBVIOUS
<1>1. /\ pc[p] = "undo" /\ i[p] = 0
      /\ semid_lock' = [semid_lock EXCEPT ![SlotAt(p)] = None]
      /\ UNCHANGED <<live, seq, sem_base, sem_nsems, semval, un_ent, block, chain, net>>
  BY DEF Undone, Unlock, undoVars, SlotAt
<1>2. Types /\ Ranges /\ BoundInv
  BY AtOnce
<1>3. Done(p) = 0 /\ Ran(p, 0) /\ pc[p] \in Working
  <2>1. RunInv(p)
    BY <1>2 DEF BoundInv
  <2> QED
    BY <2>1, <1>1 DEF RunInv, Done, Working
<1>4. i[p] \notin DOMAIN ops[p]
  <2> HIDE DEF Op
  <2>1. DOMAIN ops[p] = 1 .. Len(ops[p]) /\ Len(ops[p]) \in Nat
    BY <1>2, LenProperties DEF Types
  <2> QED
    BY <2>1, <1>1
<1>5. \A n \in Sem : net'[n] = net[n] +
           IF n \in SemsOf(SlotAt(p))
           THEN Effects(ops[p], n - sem_base[SlotAt(p)], {FALSE})[0] ELSE 0
  <2>1. \A num, undone : Effects(ops[p], num, undone)[0] = 0
    <3> HIDE DEF Op
    <3>1. ops[p] \in Seq(Op)
      BY <1>2 DEF Types
    <3> QED
      BY <3>1, EffectsAre
  <2>2. \A n \in Sem : net[n] \in Int
    BY <1>2 DEF Ranges
  <2> QED
    BY <2>1, <2>2, <1>1
<1>6. /\ pc'[p] \in {"idle", "asleep"} /\ \A q \in Proc \ {p} : pc'[q] = pc[q]
      /\ Bystanders(p) /\ pushed' = pushed /\ DOMAIN start' = Proc
      /\ pc'[p] = "asleep" => /\ wait[p] # None /\ wait'[p] = wait[p]
                              /\ semid'[p] = semid[p] /\ ops'[p] = ops[p]
  <2>1. CASE /\ wait[p] # None /\ Goto(p, "asleep") /\ start' = [start EXCEPT ![p] = None]
             /\ UNCHANGED <<semid, ops, i, pushed, wait>>
    <3>1. pc'[p] = "asleep" /\ \A q \in Proc \ {p} : pc'[q] = pc[q]
      BY <2>1, <1>2, Gone DEF Place
    <3>2. DOMAIN start' = Proc /\ \A q \in Proc \ {p} : start'[q] = start[q]
      BY <2>1, <1>2 DEF Ranges
    <3> QED
      BY <2>1, <3>1, <3>2 DEF Bystanders
  <2>2. CASE Goto(p, "idle") /\ Forget(p)
    <3>1. pc'[p] = "idle" /\ \A q \in Proc \ {p} : pc'[q] = pc[q]
      BY <2>2, <1>2, Gone DEF Place
    <3>2. Bystanders(p) /\ pushed' = pushed /\ DOMAIN start' = Proc
      BY <2>2, <3>1, <1>2, LocalsForgotten DEF Bystanders
    <3> QED
      BY <3>1, <3>2
  <2> QED
    BY <2>1, <2>2 DEF Undone
<1>7. ASSUME WakeInv PROVE WaitInv(p)' /\ (pc'[p] = "asleep" => ops'[p] \in OpLists)
  <2>1. WaitInv(p) /\ ops[p] \in OpLists
    BY <1>3, <1>7 DEF WakeInv, ListInv
  <2>2. ASSUME pc'[p] = "asleep", NEW s \in Slot, s = SlotAt(p)' PROVE Sleeps(p, s)'
    <3>1. /\ wait[p] # None /\ wait'[p] = wait[p] /\ semid[p] = id /\ semid'[p] = id
          /\ ops'[p] = ops[p] /\ s = SlotOf(id) /\ s = SlotAt(p)
      BY <2>2, <1>6 DEF SlotAt, SlotOf
    <3> PICK list : list = ops[p]
      OBVIOUS
    <3>2. PICK k \in DOMAIN list : WaitsFor(p, k) /\
             MustWait(list[k], ValAt(p, list[k].num, 0) + Before(p, k))
      BY <2>1, <3>1, <1>1 DEF WaitInv, Before
    <3>3. WaitsFor(p, k)'
      BY <3>1, <3>2, <1>1 DEF WaitsFor, SemOf, SlotOf
    <3>4. Before(p, k)' = Before(p, k)
      BY <3>1 DEF Before
    <3>5. ASSUME NEW v \in 0 .. semvmx, Seen(s, list[k].num, v)'
          PROVE  MustWait(list[k], v + Before(p, k))
      <4>1. semid_lock'[s] = None
        BY <3>1, <1>1, <2>2, <1>2 DEF Types
      <4>2. v = semval[sem_base[s] + list[k].num]
        BY <4>1, <3>5, <1>1, ProcAssumption DEF Seen
      <4>3. list[k].num \in Own(p)
        <5>1. ops[p] \in Seq(Op) /\ Fits(p) /\ sem_nsems[s] \in Nat /\ s \in Slot
          BY <1>2, <1>3, <3>1, <2>2 DEF Types, IInv, ProcInv, WorkInv
        <5>2. k \in 1 .. Len(ops[p]) /\ list[k] \in Op
          <6> HIDE DEF Op
          <6> QED
            BY <5>1, LenProperties, ElementOfSeq
        <5>3. list[k].num \in Nat /\ list[k].num < sem_nsems[s]
          BY <5>1, <5>2, <3>1 DEF Op, Fits
        <5> QED
          BY <5>1, <5>3, <3>1 DEF Own
      <4>4. v = ValAt(p, list[k].num, 0)
        <5>1. SemOf(id, list[k].num) = sem_base[s] + list[k].num
          BY <3>1 DEF SemOf
        <5>2. semval[SemOf(id, list[k].num)] = ValAt(p, list[k].num, 0)
          BY <4>3, <1>3, <3>1 DEF Ran
        <5> QED
          BY <5>1, <5>2, <4>2
      <4> QED
        BY <3>2, <4>4
    <3> QED
      BY <3>1, <3>2, <3>3, <3>4, <3>5 DEF Sleeps
  <2> QED
    BY <2>1, <2>2, <1>6 DEF WaitInv
<1>8. net' \in [Sem -> Int]
  BY <1>1, <1>2 DEF Ranges
<1> QED
  BY <1>1, <1>3, <1>4, <1>5, <1>6, <1>7, <1>8, UnlockCall

LEMMA SucceedCall ==
  ASSUME IInv, IInv', CallInv, NEW p \in Proc, Succeed(p)
  PROVE  CallInv'
<1> PICK d : d = Len(ops[p])
  OBVIOUS
<1>1. /\ pc[p] = "ops" /\ i[p] > Len(ops[p]) /\ Goto(p, "idle") /\ Forget(p)
      /\ semid_lock' = [semid_lock EXCEPT ![SlotAt(p)] = None]
      /\ UNCHANGED <<live, seq, sem_base, sem_nsems, semval, un_ent, block, chain>>
      /\ net' = [n \in Sem |-> net[n] +
           IF n \in SemsOf(SlotAt(p))
           THEN Effects(ops[p], n - sem_base[SlotAt(p)], {FALSE})[Len(ops[p])] ELSE 0]
  BY DEF Succeed, Unlock, undoVars, SlotAt, Effect
<1>2. Types /\ Ranges /\ BoundInv
  BY AtOnce
<1>3. d \in Nat /\ d = Len(ops[p]) /\ i[p] \in Nat /\ DOMAIN ops[p] = 1 .. d /\ ops[p] \in Seq(Op)
  <2>1. ops[p] \in Seq(Op) /\ i[p] \in Nat
    BY <1>2 DEF Types
  <2> HIDE DEF Op
  <2> QED
    BY <2>1, LenProperties
<1>4. Done(p) = d /\ Ran(p, d) /\ pc[p] \in Working
  <2>1. RunInv(p)
    BY <1>2 DEF BoundInv
  <2>2. PICK e \in 0 .. Len(ops[p]) : Done(p) = e /\ Ran(p, e)
    BY <2>1, <1>1 DEF RunInv, Working
  <2>3. e = i[p] - 1
    BY <2>2, <1>1 DEF Done
  <2>4. e = d
    BY <2>2, <2>3, <1>1, <1>3
  <2> QED
    BY <2>2, <2>4, <1>1 DEF Working
<1>5. i[p] \notin DOMAIN ops[p]
  BY <1>1, <1>3
<1>6. \A n \in Sem : net'[n] = net[n] +
           IF n \in SemsOf(SlotAt(p))
           THEN Effects(ops[p], n - sem_base[SlotAt(p)], {FALSE})[d] ELSE 0
  BY <1>1
<1>7. net' \in [Sem -> Int]
  <2>1. \A num, undone : Effects(ops[p], num, undone)[d] \in Int
    <3>1. d \in 0 .. Len(ops[p])
      BY <1>3
    <3> HIDE DEF Op
    <3> QED
      BY <3>1, <1>3, EffectsAre
  <2>2. \A n \in Sem : net[n] \in Int
    BY <1>2 DEF Ranges
  <2>3. \A n \in Sem : (net[n] + IF n \in SemsOf(SlotAt(p))
           THEN Effects(ops[p], n - sem_base[SlotAt(p)], {FALSE})[Len(ops[p])] ELSE 0) \in Int
    BY <2>1, <2>2, <1>3
  <2> QED
    BY <2>3, <1>1
<1>8. pc'[p] = "idle" /\ \A q \in Proc \ {p} : pc'[q] = pc[q]
  BY <1>1, <1>2, Gone DEF Place
<1>9. Bystanders(p) /\ pushed' = pushed /\ DOMAIN start' = Proc
  BY <1>1, <1>8, <1>2, LocalsForgotten DEF Bystanders
<1>10. WaitInv(p)'
  BY <1>8 DEF WaitInv
<1> QED
  BY <1>1, <1>4, <1>5, <1>6, <1>7, <1>8, <1>9, <1>10, UnlockCall

(* semconv() locks the set, which nobody had. *)
LEMMA BeginCall ==
  ASSUME IInv, IInv', CallInv, NEW p \in Proc, pc[p] \in {"idle", "again"},
         NEW id \in Nat, SlotOf(id) \in Slot, semconv(id), NEW list \in Seq(Op), WakeInv => list \in OpLists,
         Begin(p, id, list)
  PROVE  CallInv'
<1> PICK s0 : s0 = SlotOf(id)
  OBVIOUS
<1> PICK nsems : nsems = sem_nsems[s0]
  OBVIOUS
<1> PICK h : h = Holds(p, s0)
  OBVIOUS
<1>1. /\ UNCHANGED <<live, seq, sem_base, sem_nsems, semval, un_ent, block, chain, net, pushed>>
      /\ semid' = [semid EXCEPT ![p] = id] /\ ops' = [ops EXCEPT ![p] = list]
      /\ i' = [i EXCEPT ![p] = 1] /\ wait' = [wait EXCEPT ![p] = None]
      /\ start' = [start EXCEPT ![p] = h]
      /\ semid_lock' = [semid_lock EXCEPT ![s0] = p]
      /\ Goto(p, "ops")
      /\ Exists(id) /\ semid_lock[s0] = None /\ s0 \in Slot /\ live[s0] /\ IdOf(s0) = id
  BY DEF Begin, undoVars, Lock, semconv, Exists
<1>2. Types /\ Ranges /\ BoundInv /\ LockInv
  BY AtOnce
<1>3. pc'[p] = "ops" /\ \A q \in Proc \ {p} : pc'[q] = pc[q]
  BY <1>1, <1>2, Gone DEF Place, Working
<1>4. /\ semid'[p] = id /\ ops'[p] = list /\ i'[p] = 1 /\ wait'[p] = None
      /\ semid_lock'[s0] = p
      /\ \A s \in Slot : s # s0 => semid_lock'[s] = semid_lock[s]
      /\ \A q \in Proc \ {p} : /\ semid'[q] = semid[q] /\ ops'[q] = ops[q]
                               /\ wait'[q] = wait[q] /\ i'[q] = i[q]
  BY <1>1, <1>2 DEF Types
<1>5. start'[p] = h /\ DOMAIN start' = Proc /\ \A q \in Proc \ {p} : start'[q] = start[q]
  BY <1>1, <1>2 DEF Ranges
<1>6. Bystanders(p)
  BY <1>1, <1>3, <1>4, <1>5 DEF Bystanders
<1>7. OnlyAt(p, s0)
  <2>1. UndoShrinks(p)
    BY <1>1, EntriesTyped DEF UndoShrinks, IInv
  <2>2. Occupied(s0) /\ pc[p] \notin Working
    BY <1>1 DEF Occupied, Working
  <2> QED
    BY <2>1, <2>2, <1>1, <1>4, <1>6 DEF OnlyAt
<1>8. Apart(p, s0)
  BY <1>7, SlotStep
<1>9. LockAt(p, s0)
  BY <1>3, <1>4 DEF LockAt, Working
<1>10. \A q \in Proc : Bounded(un_ent'[q]) /\ Single(un_ent'[q])
  BY <1>1, <1>2 DEF BoundInv
<1>11. list \in Seq(Op) /\ Len(list) \in Nat /\ \A num, undone : Effects(list, num, undone)[0] = 0
  <2>1. list \in Seq(Op)
    OBVIOUS
  <2> HIDE DEF Op
  <2> QED
    BY <2>1, LenProperties, EffectsAre
<1>12. nsems \in Nat /\ sem_base[s0] \in Nat /\ SemsOf(s0) \subseteq Sem
  <2>1. Occupied(s0)
    BY <1>1 DEF Occupied
  <2> QED
    BY <2>1, <1>1, <1>2 DEF Types, IInv, SetsInv
<1>13. ASSUME NEW num \in 0 .. nsems - 1
       PROVE  /\ num \in Nat /\ sem_base[s0] + num \in Sem
              /\ semval[sem_base[s0] + num] \in 0 .. semvmx
              /\ Adjustment(un_ent[p], id, num) \in Aoe
              /\ h.vals[num] = semval[sem_base[s0] + num]
              /\ h.adj[num] = Adjustment(un_ent[p], id, num)
              /\ ValAt(p, num, 0)' = semval[sem_base[s0] + num]
              /\ AdjAt(p, num, 0)' = Adjustment(un_ent[p], id, num)
  <2>1. num \in Nat /\ sem_base[s0] + num \in SemsOf(s0)
    BY <1>12 DEF SemsOf
  <2>2. semval[sem_base[s0] + num] \in 0 .. semvmx
    BY <2>1, <1>12, <1>2 DEF Ranges
  <2>3. Adjustment(un_ent[p], id, num) \in Aoe
    <3>1. un_ent[p] \in Seq(Entries) /\ Bounded(un_ent[p]) /\ Single(un_ent[p])
      BY <1>2, EntriesTyped DEF IInv, BoundInv
    <3>2. \/ Adjustment(un_ent[p], id, num) = 0
          \/ Adjustment(un_ent[p], id, num) \in Aoe
      <4> HIDE DEF Entries
      <4>1. LET k == Entry(p, id, num)
                q == un_ent[p] IN
            \/ k = 0 /\ Adjustment(q, id, num) = 0 /\ \A j \in 1 .. Len(q) : ~Matches(q[j], id, num)
            \/ /\ k \in 1 .. Len(q) /\ q[k].id = id /\ q[k].num = num
               /\ Adjustment(q, id, num) = q[k].aoe /\ q[k].aoe \in Aoe \ {0}
        BY <3>1, EntryIs
      <4> QED
        BY <4>1
    <3>3. 0 \in Aoe
      BY InfoAssumption DEF Aoe
    <3> QED
      BY <3>2, <3>3
  <2>4. h.vals[num] = semval[sem_base[s0] + num] /\ h.adj[num] = Adjustment(un_ent[p], id, num)
    BY <1>1 DEF Holds
  <2>5. semval[sem_base[s0] + num] + 0 = semval[sem_base[s0] + num]
    BY <2>2
  <2>6. Adjustment(un_ent[p], id, num) - 0 = Adjustment(un_ent[p], id, num)
    BY <2>3 DEF Aoe
  <2> QED
    BY <2>1, <2>2, <2>3, <2>4, <2>5, <2>6, <1>4, <1>5, <1>11, <1>12 DEF ValAt, AdjAt
<1>14. Own(p)' = 0 .. nsems - 1 /\ SlotAt(p)' = s0
  BY <1>1, <1>4 DEF Own, SlotAt, SlotOf
<1>15. Done(p)' = 0
  BY <1>3, <1>4 DEF Done
<1>16. Ran(p, 0)'
  <2>1. 0 \in 0 .. Len(ops'[p])
    BY <1>4, <1>11
  <2>2. start'[p] \in [vals : [Own(p)' -> Int], adj : [Own(p)' -> Int]]
    <3>1. \A num \in 0 .. nsems - 1 : semval[sem_base[s0] + num] \in Int
      BY <1>13
    <3>2. \A num \in 0 .. nsems - 1 : Adjustment(un_ent[p], id, num) \in Int
      BY <1>13 DEF Aoe
    <3>3. h = [vals |-> [num \in 0 .. nsems - 1 |-> semval[sem_base[s0] + num]],
               adj  |-> [num \in 0 .. nsems - 1 |-> Adjustment(un_ent[p], id, num)]]
      BY <1>1 DEF Holds
    <3> QED
      BY <3>1, <3>2, <3>3, <1>5, <1>14
  <2>3. ASSUME NEW num \in Own(p)'
        PROVE  /\ semval'[SemOf(semid[p], num)'] = ValAt(p, num, 0)'
               /\ Adjustment(un_ent'[p], semid'[p], num) = AdjAt(p, num, 0)'
               /\ \A k \in 0 .. 0 : ValAt(p, num, k)' \in 0 .. semvmx /\ AdjAt(p, num, k)' \in Aoe
    <3>1. num \in 0 .. nsems - 1
      BY <1>14
    <3>2. SemOf(semid[p], num)' = sem_base[s0] + num
      BY <1>1, <1>4 DEF SemOf, SlotOf
    <3>3. \A k \in 0 .. 0 : k = 0
      OBVIOUS
    <3> QED
      BY <3>1, <3>2, <3>3, <1>1, <1>4, <1>13
  <2>4. \A k \in 0 .. 0 :
          Len(un_ent'[p]) - Cardinality(Adjusted(p, 0)') + Cardinality(Adjusted(p, k)') <= semume
    <3> PICK S : S = Adjusted(p, 0)'
      OBVIOUS
    <3>1. Cardinality(S) \in Nat
      <4>1. S \subseteq 0 .. nsems - 1
        BY <1>14 DEF Adjusted
      <4> DEFINE m == nsems - 1
      <4>2. m \in Int /\ 0 \in Int
        BY <1>12
      <4> HIDE DEF m
      <4>3. IsFiniteSet(0 .. m)
        BY <4>2, FS_Interval
      <4>4. IsFiniteSet(S)
        BY <4>1, <4>3, FS_Subset DEF m
      <4> QED
        BY <4>4, FS_CardinalityType
    <3>2. Len(un_ent[p]) \in Nat /\ Len(un_ent[p]) <= semume /\ semume \in Nat
      BY <1>2, EntriesTyped, InfoAssumption DEF IInv, BoundInv, Bounded
    <3>3. Len(un_ent[p]) - Cardinality(S) + Cardinality(S) <= semume
      BY <3>1, <3>2
    <3>4. \A k \in 0 .. 0 : k = 0
      OBVIOUS
    <3> QED
      BY <3>3, <3>4, <1>1
  <2>5. \A k \in 1 .. 0 : Undoable(ops'[p][k]) => p \in block' /\ ops'[p][k].op \in Aoe
    OBVIOUS
  <2> QED
    BY <2>1, <2>2, <2>3, <2>4, <2>5 DEF Ran
<1>17. RunInv(p)'
  <2>1. 0 \in 0 .. Len(ops'[p])
    BY <1>4, <1>11
  <2> QED
    BY <2>1, <1>15, <1>16 DEF RunInv
<1>18. PushInv(p)'
  <2>1. PushInv(p) /\ pc[p] \notin Working
    BY <1>2 DEF BoundInv, Working
  <2>2. ~pushed[p] /\ (un_ent[p] # <<>> => p \in block)
    BY <2>1 DEF PushInv
  <2> QED
    BY <2>2, <1>1 DEF PushInv
<1>19. Ranges'
  BY <1>1, <1>2, <1>5 DEF Ranges
<1>20. ASSUME NEW num \in 0 .. sem_nsems'[s0] - 1 PROVE BalanceAt(s0, num)'
  <2>1. num \in 0 .. nsems - 1
    BY <1>1
  <2>2. BalanceAt(s0, num)
    BY <2>1, <1>1 DEF CallInv, BalanceInv
  <2>3. ForGood(s0, num) = 0
    BY <1>1 DEF ForGood
  <2>4. ForGood(s0, num)' = 0
    <3>1. p # None
      BY ProcAssumption
    <3> QED
      BY <3>1, <1>4, <1>11, <1>15 DEF ForGood
  <2>5. IdOf(s0)' = IdOf(s0)
    BY <1>1 DEF IdOf
  <2> QED
    BY <2>2, <2>3, <2>4, <2>5, <1>1 DEF BalanceAt
<1>21. ASSUME ZeroLists /\ WakeInv, NEW q \in Proc \ {p}, pc'[q] = "asleep",
              SlotAt(q) = s0, Exists(semid[q])'
       PROVE  Sleeps(q, s0)'
  <2>1. pc[q] = "asleep" /\ Exists(semid[q])
    BY <1>1, <1>3, <1>4, <1>21 DEF Exists, IdOf, SlotOf
  <2>2. Sleeps(q, s0) /\ ops[q] \in OpLists
    BY <1>1, <2>1, <1>21 DEF WakeInv, WaitInv, ListInv
  <2>3. \A num \in 0 .. sem_nsems[s0] - 1, v \in 0 .. semvmx :
           Seen(s0, num, v)' => Covered(s0, num, v, {})
    <3>1. SUFFICES ASSUME NEW num \in 0 .. nsems - 1, NEW v, Seen(s0, num, v)'
                   PROVE  Seen(s0, num, v)
      BY DEF Covered
    <3>2. p # None
      BY ProcAssumption
    <3>3. \E k \in 0 .. 0 : v = ValAt(p, num, k)'
      <4>1. PICK x \in Proc : semid_lock'[s0] = x /\ \E k \in 0 .. Done(x)' : v = ValAt(x, num, k)'
        BY <3>1, <3>2, <1>4 DEF Seen
      <4>2. x = p
        BY <4>1, <1>4
      <4> QED
        BY <4>1, <4>2, <1>15
    <3>4. v = ValAt(p, num, 0)'
      BY <3>3
    <3> QED
      BY <3>4, <1>1, <1>13 DEF Seen
  <2>4. \A l \in OpLists : ZeroFirst(l)
    BY <1>21 DEF ZeroLists
  <2>5. wait[q] \notin {} /\ sem_base'[s0] = sem_base[s0]
    BY <1>1
  <2> QED
    BY <2>1, <2>2, <2>3, <2>4, <2>5, <1>1, <1>6, <1>21, SleepsOn
<1>22. WaitInv(p)' /\ (WakeInv => ops'[p] \in OpLists)
  BY <1>3, <1>4 DEF WaitInv
<1> QED
  BY <1>8, <1>9, <1>10, <1>17, <1>18, <1>19, <1>20, <1>21, <1>22, CallStep

LEMMA semopCall ==
  ASSUME IInv, IInv', CallInv, NEW p \in Proc, semop(p)
  PROVE  CallInv'
<1>1. PICK s \in Slot, list \in OpLists : semconv(IdOf(s)) /\ Begin(p, IdOf(s), list)
  BY DEF semop
<1>2. pc[p] \in {"idle", "again"}
  BY DEF semop
<1>3. IdOf(s) \in Nat /\ SlotOf(IdOf(s)) = s
  BY IdOfSlot DEF IInv, Types
<1>4. list \in Seq(Op)
  BY CallAssumption
<1> HIDE DEF Op
<1> QED
  BY <1>1, <1>2, <1>3, <1>4, BeginCall

LEMMA AgainCall ==
  ASSUME Waiting \cap Removable \cap Reused = {},
         IInv, IInv', CallInv, NEW p \in Proc, Again(p)
  PROVE  CallInv'
<1>1. pc[p] = "again" /\ Types /\ Ranges
  BY AtOnce DEF Again
<1>2. Known(semid[p]) /\ SlotAt(p) \in Waiting
  BY <1>1 DEF IInv, ProcInv, SleepInv
<1>3. semid[p] \in Nat /\ SlotOf(semid[p]) \in Slot /\ SlotAt(p) = SlotOf(semid[p])
  BY <1>2 DEF Known, SlotAt
<1>4. CASE semconv(semid[p]) /\ Begin(p, semid[p], ops[p])
  <2>1. ops[p] \in Seq(Op) /\ (WakeInv => ops[p] \in OpLists)
    BY <1>1 DEF Types, WakeInv, ListInv
  <2>2. pc[p] \in {"idle", "again"}
    BY <1>1
  <2> HIDE DEF Op
  <2> QED
    BY <2>1, <2>2, <1>3, <1>4, BeginCall
<1>5. CASE /\ ~Exists(semid[p])
           /\ Lock(SlotOf(semid[p]), None)
           /\ Goto(p, "idle") /\ Forget(p)
           /\ UNCHANGED <<live, seq, sem_base, sem_nsems, semid_flag, freemap, lost,
                          semval, undoVars, net>>
  <2>1. /\ UNCHANGED <<live, seq, sem_base, sem_nsems, semval, un_ent, block, chain, net>>
        /\ semid_lock' = [semid_lock EXCEPT ![SlotAt(p)] = None]
    BY <1>5, <1>3 DEF undoVars, Lock
  <2>2. pc'[p] = "idle" /\ \A q \in Proc \ {p} : pc'[q] = pc[q]
    BY <1>1, <1>5, Gone DEF Place
  <2>3. Bystanders(p) /\ pushed' = pushed /\ DOMAIN start' = Proc
    BY <1>1, <1>5, <2>1, <2>2, LocalsForgotten DEF Bystanders
  <2>4. ~live[SlotAt(p)]
    <3>1. seq[SlotAt(p)] > 0
      BY <1>1, <1>2, <1>3, <1>5, GoneId DEF Types
    <3>2. SlotAt(p) \in Removable /\ (live[SlotAt(p)] => SlotAt(p) \in Reused)
      BY <1>3, <3>1 DEF IInv, SeqInv
    <3> QED
      BY <1>2, <3>2
  <2>5. \A s \in Slot : live'[s] => semid_lock'[s] = semid_lock[s]
    BY <1>1, <2>1, <2>4 DEF Types
  <2>6. Rests(p)
    BY <1>1, <2>1, <2>2, <2>3, <2>5 DEF Rests, Ranges, Working
  <2> QED
    BY <2>6, RestStep
<1> QED
  BY <1>4, <1>5 DEF Again

LEMMA EntriesTypedNext ==
  ASSUME EntryInv'
  PROVE  un_ent' \in [Proc -> Seq(Entries)] /\ \A p \in Proc : Len(un_ent'[p]) \in Nat
<1>2. un_ent' \in [Proc -> Seq(GoodEntry')]
  BY DEF EntryInv
<1> DEFINE T == GoodEntry'
           E == Entries
<1>3. T \in SUBSET E
  BY DEF GoodEntry
<1> HIDE DEF T, E
<1>4. Seq(T) \subseteq Seq(E)
  BY <1>3, SeqMonotonic
<1>5. un_ent' \in [Proc -> Seq(E)]
  BY <1>2, <1>4 DEF T
<1>6. \A p \in Proc : Len(un_ent'[p]) \in Nat
  BY <1>5, LenProperties
<1> QED
  BY <1>5, <1>6 DEF E

(* All effects, those undone at the exit, and those that last. *)
Total(list, num) == Effects(list, num, BOOLEAN)
Undos(list, num) == Effects(list, num, {TRUE})
Lasts(list, num) == Effects(list, num, {FALSE})
StartVal(p, num) == start[p].vals[num]
StartAdj(p, num) == start[p].adj[num]

(* One operation more, or less. *)
Started(p) == start[p] \in [vals : [Own(p) -> Int], adj : [Own(p) -> Int]]
OneMore(p, k, num) ==
  /\ ValAt(p, num, k - 1) \in Int /\ ValAt(p, num, k) \in Int
  /\ AdjAt(p, num, k - 1) \in Int /\ AdjAt(p, num, k) \in Int
  /\ ValAt(p, num, k) = ValAt(p, num, k - 1) + (IF ops[p][k].num = num THEN ops[p][k].op ELSE 0)
  /\ AdjAt(p, num, k) = AdjAt(p, num, k - 1)
                          - (IF ops[p][k].num = num /\ ops[p][k].undo THEN ops[p][k].op ELSE 0)
Moves(v, v1, v2, x) == v \in Int /\ v1 \in Int /\ v2 \in Int /\ x \in Int /\ v2 = v1 + x
Moved(v, v1, v2, x) ==
  /\ v + v2 = v + v1 + x /\ v + v2 \in Int /\ v + v1 \in Int
  /\ v - v2 = v - v1 - x /\ v - v2 \in Int /\ v - v1 \in Int
LEMMA BothMove ==
  ASSUME NEW v, NEW v1, NEW v2, NEW x, Moves(v, v1, v2, x)
  PROVE  Moved(v, v1, v2, x)
BY DEF Moves, Moved
LEMMA OpEffects ==
  ASSUME Types, NEW p \in Proc, Started(p), NEW k \in 1 .. Len(ops[p]), NEW num \in Own(p)
  PROVE  OneMore(p, k, num)
<1> PICK list : list = ops[p]
  OBVIOUS
<1> PICK op : op = list[k]
  OBVIOUS
<1>1. list \in Seq(Op)
  BY DEF Types
<1>2. /\ Len(list) \in Nat /\ k \in 1 .. Len(list) /\ k \in 0 .. Len(list) /\ k - 1 \in 0 .. Len(list)
      /\ op \in Op
  <2> HIDE DEF Op
  <2>1. Len(list) \in Nat /\ op \in Op
    BY <1>1, LenProperties, ElementOfSeq
  <2> QED
    BY <2>1
<1>3. op.op \in Int /\ op.undo \in BOOLEAN
  BY <1>2 DEF Op
<1>4. ASSUME NEW undone
      PROVE  /\ Effects(list, num, undone)[k] \in Int /\ Effects(list, num, undone)[k - 1] \in Int
             /\ Effects(list, num, undone)[k] = Effects(list, num, undone)[k - 1] +
                  IF op.num = num /\ op.undo \in undone THEN op.op ELSE 0
  <2> HIDE DEF Op
  <2> QED
    BY <1>1, <1>2, EffectsAre
<1>5. StartVal(p, num) \in Int /\ StartAdj(p, num) \in Int
  BY DEF Started, StartVal, StartAdj
<1> PICK v, a : v = StartVal(p, num) /\ a = StartAdj(p, num)
  OBVIOUS
<1> PICK v1, v2, a1, a2 :
      /\ v1 = Total(list, num)[k - 1] /\ v2 = Total(list, num)[k]
      /\ a1 = Undos(list, num)[k - 1] /\ a2 = Undos(list, num)[k]
  OBVIOUS
<1>6. /\ ValAt(p, num, k - 1) = v + v1 /\ ValAt(p, num, k) = v + v2
      /\ AdjAt(p, num, k - 1) = a - a1 /\ AdjAt(p, num, k) = a - a2
  BY DEF ValAt, AdjAt, Total, Undos, StartVal, StartAdj
<1>7. v1 \in Int /\ v2 \in Int /\ a1 \in Int /\ a2 \in Int /\ v \in Int /\ a \in Int
  BY <1>4, <1>5 DEF Total, Undos
<1>8. v2 = v1 + (IF op.num = num THEN op.op ELSE 0)
  BY <1>3, <1>4 DEF Total
<1>9. a2 = a1 + (IF op.num = num /\ op.undo THEN op.op ELSE 0)
  <2>1. a2 = a1 + (IF op.num = num /\ op.undo \in {TRUE} THEN op.op ELSE 0)
    BY <1>4 DEF Undos
  <2>2. op.undo \in {TRUE} <=> op.undo
    BY <1>3
  <2> QED
    BY <2>1, <2>2
<1> DEFINE x == IF op.num = num THEN op.op ELSE 0
           y == IF op.num = num /\ op.undo THEN op.op ELSE 0
<1>10. x \in Int /\ y \in Int
  BY <1>3
<1>11. v2 = v1 + x /\ a2 = a1 + y
  BY <1>8, <1>9
<1> HIDE DEF x, y
<1>12. Moves(v, v1, v2, x) /\ Moves(a, a1, a2, y)
  BY <1>7, <1>10, <1>11 DEF Moves
<1>13. Moved(v, v1, v2, x) /\ Moved(a, a1, a2, y)
  BY <1>12, BothMove
<1> QED
  BY <1>6, <1>13 DEF OneMore, Moved, x, y

(* The room entries need: one for every semaphore that is adjusted. *)
LEMMA AdjustedStep ==
  ASSUME Types, NEW p \in Proc, SlotAt(p) \in Slot, NEW d, NEW e, NEW num \in Own(p),
         \A n \in Own(p) \ {num} : AdjAt(p, n, e) = AdjAt(p, n, d)
  PROVE  /\ Cardinality(Adjusted(p, d)) \in Nat /\ Cardinality(Adjusted(p, e)) \in Nat
         /\ Cardinality(Adjusted(p, e)) = Cardinality(Adjusted(p, d)) +
              (IF AdjAt(p, num, d) = 0 THEN IF AdjAt(p, num, e) = 0 THEN 0 ELSE 1
               ELSE IF AdjAt(p, num, e) = 0 THEN -1 ELSE 0)
<1> DEFINE A == Adjusted(p, d)
           B == Adjusted(p, e)
<1>1. /\ IsFiniteSet(A) /\ Cardinality(A) \in Nat
      /\ IsFiniteSet(B) /\ Cardinality(B) \in Nat
  BY AdjustedFinite
<1>2. \A n : n # num => (n \in A <=> n \in B)
  BY DEF Adjusted
<1>3. num \in A <=> AdjAt(p, num, d) # 0
  BY DEF Adjusted
<1>4. num \in B <=> AdjAt(p, num, e) # 0
  BY DEF Adjusted
<1> HIDE DEF A, B
<1>5. CASE num \in A <=> num \in B
  <2>1. A = B
    BY <1>2, <1>5
  <2> QED
    BY <2>1, <1>1, <1>3, <1>4, <1>5 DEF A, B
<1>6. CASE num \in B /\ num \notin A
  <2>1. B = A \cup {num}
    BY <1>2, <1>6
  <2>2. Cardinality(B) = Cardinality(A) + 1
    BY <2>1, <1>1, <1>6, FS_AddElement
  <2> QED
    BY <2>2, <1>1, <1>3, <1>4, <1>6 DEF A, B
<1>7. CASE num \in A /\ num \notin B
  <2>1. A = B \cup {num}
    BY <1>2, <1>7
  <2>2. Cardinality(A) = Cardinality(B) + 1
    BY <2>1, <1>1, <1>7, FS_AddElement
  <2>3. Cardinality(B) = Cardinality(A) - 1
    BY <2>2, <1>1
  <2> QED
    BY <2>3, <1>1, <1>3, <1>4, <1>7 DEF A, B
<1> QED
  BY <1>5, <1>6, <1>7

(* p goes from d operations done to e, its set in its hands. *)
Works(p, d, e, queues) ==
  /\ pc[p] \in Working /\ pc'[p] \in Working
  /\ UNCHANGED <<live, seq, sem_base, sem_nsems, semid_lock, net, semid, ops, start>>
  /\ Bystanders(p)
  /\ \A q \in Proc \ {p} : /\ un_ent'[q] = un_ent[q] /\ (q \in block => q \in block')
                           /\ pc'[q] = "asleep" => wait[q] \notin queues
  /\ \A n \in Sem : n \notin SemsOf(SlotAt(p)) => semval'[n] = semval[n]
  /\ \A id, num : id # semid[p] =>
       Adjustment(un_ent'[p], id, num) = Adjustment(un_ent[p], id, num)
  /\ Done(p) = d /\ Done(p)' = e /\ Ran(p, d)
  /\ \/ e <= d
     \/ /\ e = d + 1 /\ e \in DOMAIN ops[p]
        /\ Queues(ops[p][e], SemOf(semid[p], ops[p][e].num), ValAt(p, ops[p][e].num, e))
             \subseteq queues

LEMMA WorkApart ==
  ASSUME IInv, NEW p \in Proc, NEW d, NEW e, NEW queues, Works(p, d, e, queues)
  PROVE  Apart(p, SlotAt(p)) /\ LockAt(p, SlotAt(p))
<1> PICK s0 : s0 = SlotAt(p)
  OBVIOUS
<1>1. s0 \in Slot /\ live[s0] /\ semid_lock[s0] = p /\ Exists(semid[p])
  BY AtWork DEF Works
<1>2. OnlyAt(p, s0)
  <2>1. UndoShrinks(p)
    BY EntriesTyped DEF UndoShrinks, IInv, Works
  <2>2. Occupied(s0)
    BY <1>1 DEF Occupied
  <2>3. ASSUME NEW s \in Slot, s # s0, NEW q \in Proc, NEW num \in Int
        PROVE  Adjustment(un_ent'[q], IdOf(s), num) = Adjustment(un_ent[q], IdOf(s), num)
    <3>1. SlotOf(IdOf(s)) = s
      BY IdOfSlot DEF IInv, Types
    <3>2. IdOf(s) # semid[p]
      BY <2>3, <3>1 DEF SlotAt
    <3> QED
      BY <3>2 DEF Works
  <2>4. \A n \in Sem : n \notin SemsOf(s0) => semval'[n] = semval[n] /\ net'[n] = net[n]
    BY DEF Works
  <2> QED
    BY <2>1, <2>2, <2>3, <2>4, <1>1 DEF OnlyAt, Works
<1>3. Apart(p, s0)
  BY <1>2, SlotStep
<1>4. LockAt(p, s0)
  BY <1>1 DEF LockAt, Works, SlotAt
<1> QED
  BY <1>3, <1>4

LEMMA WorkSums ==
  ASSUME IInv, Ranges, NEW p \in Proc, NEW d, NEW e, NEW queues, Works(p, d, e, queues),
         e \in 0 .. Len(ops[p])
  PROVE  /\ Started(p) /\ d \in 0 .. Len(ops[p]) /\ e \in 0 .. Len(ops[p]) /\ Len(ops[p]) \in Nat
         /\ ops[p] \in Seq(Op)
         /\ \A num, undone, k : k \in 0 .. Len(ops[p]) => Effects(ops[p], num, undone)[k] \in Int
         /\ \A num, k : ValAt(p, num, k)' = ValAt(p, num, k) /\ AdjAt(p, num, k)' = AdjAt(p, num, k)
<1>1. ops[p] \in Seq(Op)
  BY DEF IInv, Types
<1>2. Started(p) /\ d \in 0 .. Len(ops[p])
  BY DEF Works, Ran, Started
<1>3. \A num, k : ValAt(p, num, k)' = ValAt(p, num, k) /\ AdjAt(p, num, k)' = AdjAt(p, num, k)
  BY DEF Works, ValAt, AdjAt
<1> HIDE DEF Op
<1>4. Len(ops[p]) \in Nat
  BY <1>1, LenProperties
<1>5. \A num, undone, k : k \in 0 .. Len(ops[p]) => Effects(ops[p], num, undone)[k] \in Int
  BY <1>1, EffectsAre
<1> QED
  BY <1>1, <1>2, <1>3, <1>4, <1>5

(* What is not undone at the exit stays in net. *)
LEMMA WorkBalance ==
  ASSUME IInv, IInv', Ranges, NEW p \in Proc, NEW d, NEW e, NEW queues, Works(p, d, e, queues),
         Ran(p, e)', NEW s0, s0 = SlotAt(p), NEW num \in Own(p), BalanceAt(s0, num)
  PROVE  BalanceAt(s0, num)'
<1> PICK id : id = semid[p]
  OBVIOUS
<1> PICK list : list = ops[p]
  OBVIOUS
<1> PICK sem : sem = sem_base[s0] + num
  OBVIOUS
<1>1. /\ s0 \in Slot /\ semid_lock[s0] = p /\ SlotOf(id) = s0
      /\ semid'[p] = id /\ ops'[p] = list /\ ops[p] = list /\ start'[p] = start[p]
      /\ UNCHANGED <<live, seq, sem_base, sem_nsems, semid_lock, net>>
  BY AtWork DEF Works, SlotAt
<1>2. /\ IdOf(s0) = id /\ IdOf(s0)' = id /\ SemOf(id, num) = sem /\ SemOf(id, num)' = sem
      /\ SlotAt(p)' = s0 /\ Own(p)' = Own(p) /\ semval[sem] \in Int /\ net[sem] \in Int
  <2>1. /\ IdOf(s0) = id /\ SemOf(id, num) = sem
        /\ semval[sem] \in 0 .. semvmx /\ net[sem] \in Int
    BY OwnSems DEF Works
  <2> QED
    BY <2>1, <1>1 DEF IdOf, SemOf, SlotAt, SlotOf, Own
<1>3. /\ semval[sem] = ValAt(p, num, d) /\ Adjustment(un_ent[p], id, num) = AdjAt(p, num, d)
  BY <1>2 DEF Works, Ran
<1>4. /\ semval'[sem] = ValAt(p, num, e)'
      /\ Adjustment(un_ent'[p], id, num) = AdjAt(p, num, e)'
      /\ e \in 0 .. Len(list)
  <2>1. num \in Own(p)'
    BY <1>2
  <2> QED
    BY <2>1, <1>1, <1>2 DEF Ran, SemOf
<1>5. /\ Started(p) /\ d \in 0 .. Len(list) /\ Len(list) \in Nat /\ list \in Seq(Op)
      /\ \A undone, k : k \in 0 .. Len(list) => Effects(list, num, undone)[k] \in Int
      /\ \A k : ValAt(p, num, k)' = ValAt(p, num, k) /\ AdjAt(p, num, k)' = AdjAt(p, num, k)
  <2>1. e \in 0 .. Len(ops[p])
    BY <1>1, <1>4
  <2> HIDE DEF Op
  <2> QED
    BY <2>1, WorkSums
<1> PICK sd, se, ad, ae, total :
      /\ sd = semval[sem] /\ se = semval'[sem] /\ total = Adjustments(un_ent, id, num)
      /\ ad = Adjustment(un_ent[p], id, num) /\ ae = Adjustment(un_ent'[p], id, num)
  OBVIOUS
<1>6. Adjustments(un_ent', id, num) = total + ae - ad /\ total \in Int
  <2>1. un_ent \in [Proc -> Seq(Entries)]
    BY EntriesTyped DEF IInv
  <2>2. un_ent' \in [Proc -> Seq(Entries)]
    BY EntriesTypedNext DEF IInv
  <2> PICK x, y : x = un_ent /\ y = un_ent'
    OBVIOUS
  <2>3. \A q \in Proc : x[q] \in Seq(Entries)
    BY <2>1
  <2>4. \A q \in Proc : y[q] \in Seq(Entries)
    BY <2>2
  <2>5. \A q \in Proc \ {p} : Adjustment(y[q], id, num) = Adjustment(x[q], id, num)
    BY DEF Works
  <2> HIDE DEF Entries
  <2>6. Adjustments(y, id, num) = Adjustments(x, id, num) + Adjustment(y[p], id, num) - Adjustment(x[p], id, num)
    BY <2>3, <2>4, <2>5, AdjustmentsChange
  <2>7. Adjustments(x, id, num) \in Int
    BY <2>3, AdjustmentsInt
  <2> QED
    BY <2>6, <2>7
<1> PICK v, a, bd, be, td, te, fd, fe :
      /\ v = StartVal(p, num) /\ a = StartAdj(p, num)
      /\ bd = Total(list, num)[d] /\ be = Total(list, num)[e]
      /\ td = Undos(list, num)[d] /\ te = Undos(list, num)[e]
      /\ fd = Lasts(list, num)[d] /\ fe = Lasts(list, num)[e]
  OBVIOUS
<1>7. sd = v + bd /\ se = v + be /\ ad = a - td /\ ae = a - te
  BY <1>1, <1>3, <1>4, <1>5 DEF ValAt, AdjAt, Total, Undos, StartVal, StartAdj
<1>8. v \in Int /\ a \in Int
  BY <1>5 DEF Started, StartVal, StartAdj
<1>9. bd \in Int /\ be \in Int /\ td \in Int /\ te \in Int /\ fd \in Int /\ fe \in Int
  BY <1>4, <1>5 DEF Total, Undos, Lasts
<1>10. bd = td + fd /\ be = te + fe
  <2> HIDE DEF Op
  <2> QED
    BY <1>4, <1>5, EffectsSplit DEF Total, Undos, Lasts
<1>11. /\ ForGood(s0, num) = fd /\ ForGood(s0, num)' = fe
  <2>1. p # None
    BY ProcAssumption
  <2> QED
    BY <2>1, <1>1 DEF ForGood, Works, Lasts
<1>12. sd + total = net[sem] + fd
  BY <1>2, <1>11 DEF BalanceAt
<1>13. se + (total + ae - ad) = net[sem] + fe
  BY <1>2, <1>6, <1>7, <1>8, <1>9, <1>10, <1>12
<1>14. semval'[sem] + Adjustments(un_ent', id, num) = net'[sem] + ForGood(s0, num)'
  BY <1>1, <1>6, <1>11, <1>13
<1> QED
  BY <1>1, <1>2, <1>14 DEF BalanceAt

LEMMA WorkCovers ==
  ASSUME IInv, Ranges, NEW p \in Proc, NEW d, NEW e, NEW queues, Works(p, d, e, queues),
         e \in 0 .. Len(ops[p]), NEW s0, s0 = SlotAt(p), NEW num \in Own(p), NEW v \in 0 .. semvmx,
         Seen(s0, num, v)'
  PROVE  Covered(s0, num, v, queues)
<1>1. s0 \in Slot /\ semid_lock[s0] = p /\ semid_lock'[s0] = p /\ p # None
  BY AtWork, ProcAssumption DEF Works
<1>2. /\ Started(p) /\ d \in 0 .. Len(ops[p]) /\ Len(ops[p]) \in Nat
      /\ \A k : ValAt(p, num, k)' = ValAt(p, num, k)
  BY WorkSums
<1>3. Done(p) = d /\ Done(p)' = e
  BY DEF Works
<1>4. PICK k \in 0 .. e : v = ValAt(p, num, k)
  <2>1. PICK x \in Proc : semid_lock'[s0] = x /\ \E k \in 0 .. Done(x)' : v = ValAt(x, num, k)'
    BY <1>1 DEF Seen
  <2>2. x = p
    BY <2>1, <1>1
  <2> QED
    BY <2>1, <2>2, <1>2, <1>3
<1>5. \A m \in 0 .. d : Seen(s0, num, ValAt(p, num, m)) /\ ValAt(p, num, m) \in 0 .. semvmx
  BY <1>1, <1>3 DEF Seen, Works, Ran
<1>6. CASE k <= d
  <2>1. k \in 0 .. d
    BY <1>6, <1>2
  <2> QED
    BY <2>1, <1>4, <1>5 DEF Covered
<1>7. CASE ~(k <= d)
  <2>1. k = e /\ e = d + 1 /\ e \in 1 .. Len(ops[p]) /\ d = e - 1
        /\ Queues(ops[p][e], SemOf(semid[p], ops[p][e].num), ValAt(p, ops[p][e].num, e)) \subseteq queues
    BY <1>7, <1>2 DEF Works
  <2> PICK op, u : op = ops[p][e] /\ u = ValAt(p, num, d)
    OBVIOUS
  <2>2. OneMore(p, e, num)
    BY <2>1, <1>2, OpEffects DEF IInv
  <2>3. v = u + (IF op.num = num THEN op.op ELSE 0)
    BY <2>1, <2>2, <1>4 DEF OneMore
  <2>4. d \in 0 .. d
    BY <1>2
  <2>5. Seen(s0, num, u) /\ u \in 0 .. semvmx
    BY <2>4, <1>5
  <2>6. op.op \in Int
    <3>1. ops[p] \in Seq(Op)
      BY DEF IInv, Types
    <3>2. ops[p][e] \in Op
      <4> HIDE DEF Op
      <4> QED
        BY <3>1, <2>1, ElementOfSeq
    <3> QED
      BY <3>2 DEF Op
  <2>7. CASE op.num # num \/ op.op = 0
    <3>1. v = u
      BY <2>3, <2>5, <2>7
    <3> QED
      BY <3>1, <2>5 DEF Covered
  <2>8. CASE op.num = num /\ op.op # 0
    <3>1. v = u + op.op
      BY <2>3, <2>8
    <3>2. SemOf(semid[p], num) = sem_base[s0] + num
      BY DEF SemOf, SlotAt
    <3>3. Queues(op, sem_base[s0] + num, v) \subseteq queues
      BY <2>1, <2>8, <3>2, <1>4
    <3>4. op.op > 0 => <<"semncnt_wait", sem_base[s0] + num>> \in queues
      BY <3>3 DEF Queues
    <3>5. v = 0 => <<"semzcnt_wait", sem_base[s0] + num>> \in queues
      BY <3>3, <2>8 DEF Queues
    <3>6. op.op > 0 \/ v <= u
      BY <3>1, <2>5, <2>6
    <3> QED
      BY <3>4, <3>5, <3>6, <2>5 DEF Covered
  <2> QED
    BY <2>7, <2>8
<1> QED
  BY <1>6, <1>7

(* What a step of its operations has to show for itself. *)
LEMMA WorkCall ==
  ASSUME IInv, IInv', CallInv, NEW p \in Proc, NEW d, NEW e, NEW queues, Works(p, d, e, queues),
         Ran(p, e)', Bounded(un_ent'[p]), Single(un_ent'[p]), PushInv(p)', Ranges',
         WakeInv => WaitInv(p)'
  PROVE  CallInv'
<1> PICK s0 : s0 = SlotAt(p)
  OBVIOUS
<1>1. Types /\ Ranges /\ BoundInv
  BY AtOnce
<1>2. Apart(p, s0) /\ LockAt(p, s0)
  BY WorkApart
<1>3. \A q \in Proc : Bounded(un_ent'[q]) /\ Single(un_ent'[q])
  BY <1>1 DEF BoundInv, Works
<1>4. /\ UNCHANGED <<live, seq, sem_base, sem_nsems, semid, ops>> /\ Bystanders(p)
      /\ pc[p] \in Working /\ pc'[p] \in Working
      /\ \A q \in Proc \ {p} : pc'[q] = "asleep" => wait[q] \notin queues
      /\ Done(p)' = e
  BY DEF Works
<1>5. e \in 0 .. Len(ops[p])
  BY <1>4 DEF Ran
<1>6. RunInv(p)'
  BY <1>4, <1>5 DEF RunInv
<1>7. s0 \in Slot /\ live[s0] /\ Own(p) = 0 .. sem_nsems[s0] - 1
  BY AtWork, <1>4 DEF Own
<1>8. ASSUME NEW num \in 0 .. sem_nsems'[s0] - 1 PROVE BalanceAt(s0, num)'
  <2>1. num \in Own(p)
    BY <1>4, <1>7
  <2>2. BalanceAt(s0, num)
    BY <2>1, <1>7 DEF CallInv, BalanceInv
  <2> QED
    BY <2>1, <2>2, <1>1, WorkBalance
<1>9. ASSUME ZeroLists /\ WakeInv, NEW q \in Proc \ {p}, pc'[q] = "asleep",
             SlotAt(q) = s0, Exists(semid[q])'
      PROVE  Sleeps(q, s0)'
  <2>1. pc[q] = "asleep" /\ Exists(semid[q])
    BY <1>4, <1>9 DEF Exists, IdOf, SlotOf, Bystanders
  <2>2. Sleeps(q, s0) /\ ops[q] \in OpLists
    BY <1>7, <2>1, <1>9 DEF WakeInv, WaitInv, ListInv
  <2>3. \A num \in 0 .. sem_nsems[s0] - 1, v \in 0 .. semvmx :
          Seen(s0, num, v)' => Covered(s0, num, v, queues)
    BY <1>1, <1>5, <1>7, WorkCovers
  <2>4. \A list \in OpLists : ZeroFirst(list)
    BY <1>9 DEF ZeroLists
  <2>5. wait[q] \notin queues /\ sem_base'[s0] = sem_base[s0]
    BY <1>4, <1>9
  <2> QED
    BY <2>1, <2>2, <2>3, <2>4, <2>5, <1>4, <1>7, <1>9, SleepsOn
<1>10. ASSUME ZeroLists /\ WakeInv
       PROVE  WaitInv(p)' /\ (pc'[p] \in Working \cup {"asleep", "again"} => ops'[p] \in OpLists)
  <2>1. ops[p] \in OpLists
    BY <1>4, <1>10 DEF WakeInv, ListInv
  <2> QED
    BY <2>1, <1>4, <1>10
<1> QED
  BY <1>2, <1>3, <1>6, <1>8, <1>9, <1>10, CallStep

(* Operation m is done, or undone: x goes to its semaphore, and to p's     *)
(* entry for it.                                                           *)
Effected(p, d, e, m, x) ==
  /\ m \in 1 .. Len(ops[p])
  /\ \/ d = m - 1 /\ e = m /\ x = ops[p][m].op
     \/ d = m /\ e = m - 1 /\ x = -ops[p][m].op
  /\ UNCHANGED <<sem_base, sem_nsems, semid, ops, start>>
  /\ \A n \in Sem : semval'[n] =
       semval[n] + IF n = SemOf(semid[p], ops[p][m].num) THEN x ELSE 0
  /\ \/ Undoable(ops[p][m]) /\ Becomes(un_ent[p], un_ent'[p], semid[p], ops[p][m].num, x)
     \/ ~Undoable(ops[p][m]) /\ un_ent'[p] = un_ent[p]
  /\ Bounded(un_ent'[p])
  /\ p \in block => p \in block'
  /\ e = m => /\ semval[SemOf(semid[p], ops[p][m].num)] + x \in 0 .. semvmx
              /\ Undoable(ops[p][m]) =>
                   /\ p \in block' /\ x \in Aoe
                   /\ Adjustment(un_ent[p], semid[p], ops[p][m].num) - x \in Aoe

LEMMA OpTyped ==
  ASSUME Types, NEW p \in Proc, NEW m \in 1 .. Len(ops[p])
  PROVE  /\ ops[p] \in Seq(Op) /\ Len(ops[p]) \in Nat /\ ops[p][m].num \in Nat
         /\ ops[p][m].op \in Int /\ ops[p][m].undo \in BOOLEAN
<1>1. ops[p] \in Seq(Op)
  BY DEF Types
<1>2. Len(ops[p]) \in Nat /\ ops[p][m] \in Op
  <2> HIDE DEF Op
  <2> QED
    BY <1>1, LenProperties, ElementOfSeq
<1> QED
  BY <1>1, <1>2 DEF Op

LEMMA OpOwn ==
  ASSUME IInv, NEW p \in Proc, pc[p] \in Working, NEW m \in 1 .. Len(ops[p])
  PROVE  ops[p][m].num \in Own(p)
<1>1. Types /\ Fits(p)
  BY DEF IInv, ProcInv, WorkInv
<1>2. ops[p][m].num \in Nat /\ ops[p][m].num < sem_nsems[SlotAt(p)]
  BY <1>1, OpTyped DEF Fits
<1>3. sem_nsems[SlotAt(p)] \in Nat
  BY AtWork, <1>1 DEF Types
<1> QED
  BY <1>2, <1>3 DEF Own

(* What that does to a semaphore of its set. *)
MovesTo(p, d, e, m, x, num) ==
  /\ ValAt(p, num, d) \in Int /\ ValAt(p, num, e) \in Int
  /\ AdjAt(p, num, d) \in Int /\ AdjAt(p, num, e) \in Int
  /\ ValAt(p, num, e) = ValAt(p, num, d) + (IF num = ops[p][m].num THEN x ELSE 0)
  /\ AdjAt(p, num, e) = AdjAt(p, num, d) - (IF num = ops[p][m].num /\ ops[p][m].undo THEN x ELSE 0)
LEMMA BackAndForth ==
  ASSUME Types, NEW p \in Proc, Started(p), NEW m \in 1 .. Len(ops[p]), NEW num \in Own(p),
         NEW d, NEW e, NEW x,
         \/ d = m - 1 /\ e = m /\ x = ops[p][m].op
         \/ d = m /\ e = m - 1 /\ x = -ops[p][m].op
  PROVE  MovesTo(p, d, e, m, x, num)
<1> PICK op : op = ops[p][m]
  OBVIOUS
<1>1. OneMore(p, m, num)
  BY OpEffects
<1>2. op.op \in Int /\ op.undo \in BOOLEAN
  BY OpTyped
<1> PICK v1, v2, a1, a2 : /\ v1 = ValAt(p, num, m - 1) /\ v2 = ValAt(p, num, m)
                          /\ a1 = AdjAt(p, num, m - 1) /\ a2 = AdjAt(p, num, m)
  OBVIOUS
<1>3. /\ v1 \in Int /\ v2 \in Int /\ a1 \in Int /\ a2 \in Int
      /\ v2 = v1 + (IF op.num = num THEN op.op ELSE 0)
      /\ a2 = a1 - (IF op.num = num /\ op.undo THEN op.op ELSE 0)
  BY <1>1 DEF OneMore
<1>4. CASE d = m - 1 /\ e = m /\ x = op.op
  BY <1>3, <1>4 DEF MovesTo
<1>5. CASE d = m /\ e = m - 1 /\ x = -op.op
  <2>1. /\ v1 = v2 + (IF num = op.num THEN x ELSE 0)
        /\ a1 = a2 - (IF num = op.num /\ op.undo THEN x ELSE 0)
    BY <1>2, <1>3, <1>5
  <2> QED
    BY <2>1, <1>3, <1>5 DEF MovesTo
<1> QED
  BY <1>4, <1>5

LEMMA RanMoves ==
  ASSUME IInv, Ranges, NEW p \in Proc, pc[p] \in Working, NEW d, NEW e, NEW m, NEW x,
         Ran(p, d), Effected(p, d, e, m, x)
  PROVE  Ran(p, e)'
<1> PICK id, list : id = semid[p] /\ list = ops[p]
  OBVIOUS
<1> PICK op : op = list[m]
  OBVIOUS
<1>1. /\ m \in 1 .. Len(list) /\ list \in Seq(Op) /\ Len(list) \in Nat
      /\ op.num \in Nat /\ op.op \in Int /\ op.undo \in BOOLEAN /\ op.num \in Own(p)
  BY OpTyped, OpOwn DEF Effected, IInv
<1>2. /\ \/ d = m - 1 /\ e = m /\ x = op.op
         \/ d = m /\ e = m - 1 /\ x = -op.op
      /\ UNCHANGED <<sem_base, sem_nsems, semid, ops, start>>
      /\ semid[p] = id /\ semid'[p] = id /\ ops'[p] = list /\ start'[p] = start[p]
  BY DEF Effected
<1>3. x \in Int /\ d \in Int /\ e \in 0 .. Len(list)
  BY <1>1, <1>2
<1>4. Started(p)
  BY DEF Ran, Started
<1>5. /\ Own(p)' = Own(p)
      /\ \A num, k : ValAt(p, num, k)' = ValAt(p, num, k) /\ AdjAt(p, num, k)' = AdjAt(p, num, k)
      /\ \A num : SemOf(semid[p], num)' = SemOf(id, num)
      /\ \A k : Adjusted(p, k)' = Adjusted(p, k)
  <2>1. Own(p)' = Own(p) /\ \A num : SemOf(semid[p], num)' = SemOf(id, num)
    BY <1>2 DEF Own, SlotAt, SlotOf, SemOf
  <2>2. \A num, k : ValAt(p, num, k)' = ValAt(p, num, k) /\ AdjAt(p, num, k)' = AdjAt(p, num, k)
    BY <1>2 DEF ValAt, AdjAt
  <2> QED
    BY <2>1, <2>2 DEF Adjusted
<1>6. \A num \in Own(p) : MovesTo(p, d, e, m, x, num)
  BY <1>1, <1>2, <1>4, BackAndForth DEF IInv
<1>7. \A num \in Own(p) : /\ semval[SemOf(id, num)] = ValAt(p, num, d)
                          /\ Adjustment(un_ent[p], id, num) = AdjAt(p, num, d)
                          /\ \A k \in 0 .. d : ValAt(p, num, k) \in 0 .. semvmx /\ AdjAt(p, num, k) \in Aoe
  BY DEF Ran
<1>8. ASSUME NEW num \in Own(p) PROVE semval'[SemOf(id, num)] = ValAt(p, num, e)
  <2>1. SemOf(id, num) \in Sem /\ (SemOf(id, num) = SemOf(id, op.num) <=> num = op.num)
    <3>1. /\ SemOf(id, num) = sem_base[SlotAt(p)] + num /\ SemOf(id, num) \in Sem
          /\ SemOf(id, op.num) = sem_base[SlotAt(p)] + op.num
          /\ num \in Nat /\ sem_base[SlotAt(p)] \in Nat
      BY OwnSems, <1>1
    <3> QED
      BY <3>1, <1>1
  <2>2. semval'[SemOf(id, num)] = semval[SemOf(id, num)] + IF SemOf(id, num) = SemOf(id, op.num) THEN x ELSE 0
    BY <2>1 DEF Effected
  <2> QED
    BY <2>1, <2>2, <1>6, <1>7 DEF MovesTo
<1>9. ASSUME NEW num \in Own(p) PROVE Adjustment(un_ent'[p], id, num) = AdjAt(p, num, e)
  <2>1. CASE Undoable(op) /\ Becomes(un_ent[p], un_ent'[p], id, op.num, x)
    <3>1. Adjustment(un_ent'[p], id, num) =
            IF num = op.num THEN Adjustment(un_ent[p], id, num) - x ELSE Adjustment(un_ent[p], id, num)
      BY <2>1 DEF Becomes
    <3> QED
      BY <3>1, <2>1, <1>6, <1>7 DEF MovesTo, Undoable
  <2>2. CASE ~Undoable(op) /\ un_ent'[p] = un_ent[p]
    <3>1. op.undo => x = 0
      BY <2>2, <1>1, <1>2 DEF Undoable
    <3> QED
      BY <3>1, <2>2, <1>6, <1>7 DEF MovesTo
  <2> QED
    BY <2>1, <2>2 DEF Effected
<1>10. ASSUME NEW num \in Own(p), NEW k \in 0 .. e
       PROVE  ValAt(p, num, k) \in 0 .. semvmx /\ AdjAt(p, num, k) \in Aoe
  <2>1. CASE k <= d
    <3>1. k \in 0 .. d
      BY <2>1, <1>3
    <3> QED
      BY <3>1, <1>7
  <2>2. CASE ~(k <= d)
    <3>1. k = e /\ e = m /\ d \in 0 .. d
      BY <2>2, <1>1, <1>2, <1>3
    <3>2. /\ semval[SemOf(id, op.num)] + x \in 0 .. semvmx
          /\ Undoable(op) => Adjustment(un_ent[p], id, op.num) - x \in Aoe
      BY <3>1 DEF Effected
    <3>3. /\ ValAt(p, num, d) \in 0 .. semvmx /\ AdjAt(p, num, d) \in Aoe
          /\ MovesTo(p, d, e, m, x, num)
      BY <3>1, <1>6, <1>7
    <3>4. ValAt(p, num, k) \in 0 .. semvmx
      BY <3>1, <3>2, <3>3, <1>7 DEF MovesTo
    <3>5. AdjAt(p, num, k) \in Aoe
      <4>1. CASE num = op.num /\ Undoable(op)
        BY <4>1, <3>1, <3>2, <3>3, <1>7 DEF MovesTo, Undoable
      <4>2. CASE ~(num = op.num /\ Undoable(op))
        <5>1. num = op.num /\ op.undo => x = 0
          BY <4>2, <1>1, <1>2 DEF Undoable
        <5> QED
          BY <5>1, <3>1, <3>3 DEF MovesTo
      <4> QED
        BY <4>1, <4>2
    <3> QED
      BY <3>4, <3>5
  <2> QED
    BY <2>1, <2>2
<1> PICK len, len2, cd, ce : /\ len = Len(un_ent[p]) /\ len2 = Len(un_ent'[p])
                             /\ cd = Cardinality(Adjusted(p, d)) /\ ce = Cardinality(Adjusted(p, e))
  OBVIOUS
<1>11. len \in Nat /\ len2 \in Nat /\ cd \in Nat /\ ce \in Nat /\ len2 - ce = len - cd
  <2> PICK a, b : a = AdjAt(p, op.num, d) /\ b = AdjAt(p, op.num, e)
    OBVIOUS
  <2>1. /\ a \in Int /\ b \in Int /\ b = a - (IF op.undo THEN x ELSE 0)
        /\ Adjustment(un_ent[p], id, op.num) = a
    BY <1>1, <1>6, <1>7 DEF MovesTo
  <2>2. \A n \in Own(p) \ {op.num} : AdjAt(p, n, e) = AdjAt(p, n, d)
    BY <1>6 DEF MovesTo
  <2>3. SlotAt(p) \in Slot
    BY AtWork
  <2>4. cd \in Nat /\ ce \in Nat /\
        ce = cd + (IF a = 0 THEN IF b = 0 THEN 0 ELSE 1 ELSE IF b = 0 THEN -1 ELSE 0)
    BY <2>2, <2>3, <1>1, AdjustedStep DEF IInv
  <2>5. len \in Nat
    BY EntriesTyped DEF IInv
  <2>6. CASE Undoable(op) /\ Becomes(un_ent[p], un_ent'[p], id, op.num, x)
    <3>1. len2 = len + (IF a = 0 THEN 1 ELSE IF a = x THEN -1 ELSE 0) /\ x # 0 /\ b = a - x
      BY <2>1, <2>6, <1>1, <1>2 DEF Becomes, Undoable
    <3>2. un_ent'[p] \in Seq(Entries)
      BY <2>6 DEF Becomes
    <3>3. len2 \in Nat
      <4> HIDE DEF Entries
      <4> QED
        BY <3>2, LenProperties
    <3>4. (a = 0 => b # 0) /\ (b = 0 <=> a = x)
      BY <3>1, <2>1, <1>3
    <3>5. CASE a = 0
      <4>1. len2 = len + 1 /\ ce = cd + 1
        BY <3>1, <3>4, <3>5, <2>4
      <4> QED
        BY <4>1, <3>3, <2>4, <2>5
    <3>6. CASE a # 0 /\ a = x
      <4>1. len2 = len - 1 /\ ce = cd - 1
        BY <3>1, <3>4, <3>6, <2>4, <2>5
      <4> QED
        BY <4>1, <3>3, <2>4, <2>5
    <3>7. CASE a # 0 /\ a # x
      <4>1. len2 = len /\ ce = cd
        BY <3>1, <3>4, <3>7, <2>4, <2>5
      <4> QED
        BY <4>1, <3>3, <2>4, <2>5
    <3> QED
      BY <3>5, <3>6, <3>7
  <2>7. CASE ~Undoable(op) /\ un_ent'[p] = un_ent[p]
    <3>1. op.undo => x = 0
      BY <2>7, <1>1, <1>2 DEF Undoable
    <3>2. b = a
      BY <3>1, <2>1
    <3> QED
      BY <3>2, <2>4, <2>5, <2>7
  <2> QED
    BY <2>6, <2>7 DEF Effected
<1>12. ASSUME NEW k \in 0 .. e PROVE len2 - ce + Cardinality(Adjusted(p, k)) <= semume
  <2>1. CASE k <= d
    <3>1. k \in 0 .. d
      BY <2>1, <1>3
    <3>2. len - cd + Cardinality(Adjusted(p, k)) <= semume
      BY <3>1 DEF Ran
    <3> QED
      BY <3>2, <1>11
  <2>2. CASE ~(k <= d)
    <3>1. k = e
      BY <2>2, <1>2, <1>3, <1>1
    <3>2. len2 <= semume
      BY DEF Effected, Bounded
    <3> QED
      BY <3>1, <3>2, <1>11
  <2> QED
    BY <2>1, <2>2
<1>13. ASSUME NEW k \in 1 .. e, Undoable(list[k]) PROVE p \in block' /\ list[k].op \in Aoe
  <2>1. CASE k <= d
    <3>1. k \in 1 .. d
      BY <2>1, <1>3
    <3>2. p \in block /\ list[k].op \in Aoe
      BY <3>1, <1>13 DEF Ran
    <3> QED
      BY <3>2 DEF Effected
  <2>2. CASE ~(k <= d)
    <3>1. k = m /\ e = m /\ x = op.op
      BY <2>2, <1>1, <1>2, <1>3
    <3> QED
      BY <3>1, <1>13 DEF Effected
  <2> QED
    BY <2>1, <2>2
<1>14. start'[p] \in [vals : [Own(p)' -> Int], adj : [Own(p)' -> Int]]
  BY <1>2, <1>4, <1>5 DEF Started
<1> QED
  BY <1>2, <1>3, <1>5, <1>8, <1>9, <1>10, <1>12, <1>13, <1>14 DEF Ran

LEMMA AoeBecomes ==
  ASSUME IInv, BoundInv, NEW p \in Proc, NEW id \in Nat, NEW num \in Nat, NEW val \in Int, val # 0,
         ~AoeFails(p, val, id, num), semaoe(p, val, id, num)
  PROVE  /\ Becomes(un_ent[p], un_ent'[p], id, num, val) /\ Bounded(un_ent'[p])
         /\ \A q \in Proc \ {p} : un_ent'[q] = un_ent[q]
         /\ val \in Aoe /\ Adjustment(un_ent[p], id, num) - val \in Aoe
         /\ un_ent'[p] \in Seq(Entries)
         /\ block' = block /\ chain' \subseteq chain /\ pushed' = [pushed EXCEPT ![p] = FALSE]
<1>1. un_ent \in [Proc -> Seq(Entries)] /\ Single(un_ent[p]) /\ Bounded(un_ent[p])
  BY EntriesTyped DEF IInv, BoundInv
<1>2. Len(un_ent[p]) \in Nat /\ semume \in Nat
  BY EntriesTyped, InfoAssumption DEF IInv
<1> HIDE DEF Entries
<1>3. /\ Becomes(un_ent[p], un_ent'[p], id, num, val)
      /\ \A q \in Proc \ {p} : un_ent'[q] = un_ent[q]
  BY <1>1, semaoeEntries
<1>4. /\ val \in Aoe
      /\ Adjustment(un_ent[p], id, num) = 0 => Len(un_ent[p]) < semume
      /\ Adjustment(un_ent[p], id, num) - val \in Aoe
  <2>1. un_ent \in [Proc -> Seq(Entries)]
    BY <1>1
  <2> QED
    BY <2>1, <1>1, AoeFits
<1>5. Len(un_ent'[p]) <= semume
  <2>1. Len(un_ent[p]) <= semume
    BY <1>1 DEF Bounded
  <2>2. Len(un_ent'[p]) = Len(un_ent[p]) + (IF Adjustment(un_ent[p], id, num) = 0 THEN 1
                        ELSE IF Adjustment(un_ent[p], id, num) = val THEN -1 ELSE 0)
    BY <1>3 DEF Becomes
  <2>3. CASE Adjustment(un_ent[p], id, num) = 0
    <3>1. Len(un_ent'[p]) = Len(un_ent[p]) + 1 /\ Len(un_ent[p]) < semume
      BY <2>2, <2>3, <1>4
    <3> QED
      BY <3>1, <1>2
  <2>4. CASE Adjustment(un_ent[p], id, num) # 0
    <3>1. Len(un_ent'[p]) = Len(un_ent[p]) + 0 \/ Len(un_ent'[p]) = Len(un_ent[p]) + (-1)
      BY <2>2, <2>4
    <3> QED
      BY <3>1, <2>1, <1>2
  <2> QED
    BY <2>3, <2>4
<1>6. Bounded(un_ent'[p]) /\ un_ent'[p] \in Seq(Entries)
  BY <1>3, <1>4, <1>5 DEF Becomes
<1>7. block' = block /\ chain' \subseteq chain /\ pushed' = [pushed EXCEPT ![p] = FALSE]
  BY DEF semaoe
<1> QED
  BY <1>3, <1>4, <1>6, <1>7

LEMMA OpWorks ==
  ASSUME IInv, Ranges, NEW p \in Proc, pc[p] \in Working, pc'[p] \in Working,
         NEW d, NEW e, NEW m, NEW x, NEW queues, Effected(p, d, e, m, x),
         Done(p) = d, Done(p)' = e, Ran(p, d),
         UNCHANGED <<live, seq, semid_lock, net>>, Bystanders(p), block' = block,
         \A q \in Proc \ {p} : un_ent'[q] = un_ent[q] /\ (pc'[q] = "asleep" => wait[q] \notin queues),
         e <= d \/ Queues(ops[p][e], SemOf(semid[p], ops[p][e].num), ValAt(p, ops[p][e].num, e))
                     \subseteq queues
  PROVE  Works(p, d, e, queues)
<1>1. m \in 1 .. Len(ops[p])
  BY DEF Effected
<1>2. ops[p][m].num \in Own(p) /\ Len(ops[p]) \in Nat /\ ops[p] \in Seq(Op)
  BY <1>1, OpOwn, OpTyped DEF IInv
<1>3. SemOf(semid[p], ops[p][m].num) \in SemsOf(SlotAt(p))
  BY <1>2, OwnSems
<1>4. \A n \in Sem : n \notin SemsOf(SlotAt(p)) => semval'[n] = semval[n]
  <2>1. ASSUME NEW n \in Sem, n \notin SemsOf(SlotAt(p)) PROVE semval'[n] = semval[n]
    <3>1. semval'[n] = semval[n] + 0
      BY <2>1, <1>3 DEF Effected
    <3>2. semval[n] \in Int
      BY DEF Ranges
    <3> QED
      BY <3>1, <3>2
  <2> QED
    BY <2>1
<1>5. \A id, num : id # semid[p] =>
        Adjustment(un_ent'[p], id, num) = Adjustment(un_ent[p], id, num)
  BY DEF Effected, Becomes
<1>6. \/ e <= d
      \/ /\ e = d + 1 /\ e \in DOMAIN ops[p]
         /\ Queues(ops[p][e], SemOf(semid[p], ops[p][e].num), ValAt(p, ops[p][e].num, e)) \subseteq queues
  <2>1. CASE d = m - 1 /\ e = m
    <3>1. e = d + 1 /\ e \in DOMAIN ops[p] /\ ~(e <= d)
      <4>1. DOMAIN ops[p] = 1 .. Len(ops[p])
        <5> HIDE DEF Op
        <5> QED
          BY <1>2, LenProperties
      <4> QED
        BY <4>1, <2>1, <1>1, <1>2
    <3> QED
      BY <3>1
  <2>2. CASE d = m /\ e = m - 1
    BY <2>2, <1>1, <1>2
  <2> QED
    BY <2>1, <2>2 DEF Effected
<1>7. UNCHANGED <<sem_base, sem_nsems, semid, ops, start>>
  BY DEF Effected
<1> QED
  BY <1>4, <1>5, <1>6, <1>7 DEF Works

LEMMA WaitStays ==
  ASSUME NEW p \in Proc, WaitInv(p), UNCHANGED <<sem_base, semid, ops, start, wait>>,
         pc'[p] = pc[p], pc[p] \in Working
  PROVE  WaitInv(p)'
<1>1. ASSUME pc'[p] = "undo", wait'[p] # None
      PROVE  \E k \in DOMAIN ops'[p] : WaitsFor(p, k)' /\
               MustWait(ops'[p][k], ValAt(p, ops[p][k].num, 0)' + Before(p, k)')
  <2>1. PICK k \in DOMAIN ops[p] : WaitsFor(p, k) /\
                MustWait(ops[p][k], ValAt(p, ops[p][k].num, 0) + Before(p, k))
    BY <1>1 DEF WaitInv
  <2>2. WaitsFor(p, k)'
    BY <2>1 DEF WaitsFor, SemOf, SlotOf
  <2>3. Before(p, k)' = Before(p, k) /\ ValAt(p, ops[p][k].num, 0)' = ValAt(p, ops[p][k].num, 0)
    BY DEF Before, ValAt
  <2> QED
    BY <2>1, <2>2, <2>3
<1> QED
  BY <1>1 DEF WaitInv, Working

(* p's operations, with one at hand. *)
LEMMA AtHand ==
  ASSUME IInv, CallInv, NEW p \in Proc, AtOp(p, "ops") \/ AtOp(p, "undo")
  PROVE  /\ pc[p] \in Working /\ i[p] \in 1 .. Len(ops[p]) /\ i[p] \in Nat /\ Current(p) = ops[p][i[p]]
         /\ Current(p).num \in Nat /\ Current(p).op \in Int /\ Current(p).undo \in BOOLEAN
         /\ Current(p).num \in Own(p) /\ semid[p] \in Nat
         /\ CurrentSem(p) = SemOf(semid[p], Current(p).num)
         /\ CurrentSem(p) \in Sem /\ semval[CurrentSem(p)] \in 0 .. semvmx
         /\ Ran(p, Done(p)) /\ Done(p) = IF pc[p] = "ops" THEN i[p] - 1 ELSE i[p]
         /\ Started(p)
<1>1. pc[p] \in Working /\ i[p] \in DOMAIN ops[p] /\ i[p] \in Nat /\ ops[p] \in Seq(Op) /\ semid[p] \in Nat
  BY DEF AtOp, Working, IInv, Types
<1>2. i[p] \in 1 .. Len(ops[p])
  <2> HIDE DEF Op
  <2> QED
    BY <1>1, LenProperties
<1>3. /\ Current(p).num \in Nat /\ Current(p).op \in Int /\ Current(p).undo \in BOOLEAN
      /\ Current(p).num \in Own(p)
  BY <1>1, <1>2, OpTyped, OpOwn DEF Current, IInv
<1>4. CurrentSem(p) = SemOf(semid[p], Current(p).num)
  BY DEF CurrentSem
<1>5. CurrentSem(p) \in Sem /\ semval[CurrentSem(p)] \in 0 .. semvmx
  BY <1>1, <1>3, <1>4, OwnSems, AtOnce
<1>6. Ran(p, Done(p))
  <2>1. RunInv(p)
    BY AtOnce DEF BoundInv
  <2> QED
    BY <2>1, <1>1 DEF RunInv
<1>7. Started(p)
  BY <1>6 DEF Ran, Started
<1> QED
  BY <1>1, <1>2, <1>3, <1>4, <1>5, <1>6, <1>7 DEF Done, Current

LEMMA PushFirstCall ==
  ASSUME IInv, IInv', CallInv, NEW p \in Proc, PushFirst(p)
  PROVE  CallInv'
<1> PICK d : d = Done(p)
  OBVIOUS
<1>1. /\ AtOp(p, "ops") \/ AtOp(p, "undo")
      /\ Undoable(Current(p)) /\ ~AoeFails(p, Current(p).op, semid[p], Current(p).num)
      /\ pc[p] = "ops" => CanDo(Current(p), semval[CurrentSem(p)])
      /\ block' = block \cup {p} /\ chain' = chain \cup {p} /\ pushed' = [pushed EXCEPT ![p] = TRUE]
      /\ UNCHANGED <<live, seq, sem_base, sem_nsems, semid_lock, semval, un_ent, pc, semid, ops, i, wait, start, net>>
  BY DEF PushFirst, Push, Undoable, setVars
<1>2. Types /\ Ranges /\ BoundInv
  BY AtOnce
<1>3. /\ pc[p] \in Working /\ Ran(p, d) /\ i[p] \in 1 .. Len(ops[p]) /\ ops[p] \in Seq(Op)
      /\ Current(p).op \in Int /\ Current(p).num \in Nat
  BY <1>1, <1>2, AtHand DEF Types
<1>4. /\ pushed'[p] = TRUE /\ pushed' \in [Proc -> BOOLEAN]
      /\ \A q \in Proc \ {p} : pushed'[q] = pushed[q]
  BY <1>1, <1>2 DEF Ranges
<1>5. Done(p)' = d
  BY <1>1 DEF Done
<1>6. Works(p, d, d, {})
  <2>1. Bystanders(p)
    BY <1>1, <1>4 DEF Bystanders
  <2>2. d <= d
    <3>1. d \in 0 .. Len(ops[p])
      BY <1>3 DEF Ran
    <3> QED
      BY <3>1
  <2> QED
    BY <2>1, <2>2, <1>1, <1>3, <1>5 DEF Works
<1>7. Ran(p, d)'
  <2>1. /\ Own(p)' = Own(p)
        /\ \A num, k : ValAt(p, num, k)' = ValAt(p, num, k) /\ AdjAt(p, num, k)' = AdjAt(p, num, k)
        /\ \A num : SemOf(semid[p], num)' = SemOf(semid[p], num)
    BY <1>1 DEF Own, SlotAt, SlotOf, ValAt, AdjAt, SemOf
  <2>2. \A k : Adjusted(p, k)' = Adjusted(p, k)
    BY <2>1 DEF Adjusted
  <2> QED
    BY <2>1, <2>2, <1>1, <1>3 DEF Ran
<1>8. Bounded(un_ent'[p]) /\ Single(un_ent'[p])
  BY <1>1, <1>2 DEF BoundInv
<1>9. /\ p \in block \/ Cardinality(block) # semmnu
      /\ CanAdjust(p, Current(p).op, Current(p).num)
  <2>1. un_ent \in [Proc -> Seq(Entries)] /\ Single(un_ent[p]) /\ Bounded(un_ent[p])
    BY <1>2, EntriesTyped DEF IInv, BoundInv
  <2> HIDE DEF Entries
  <2>2. un_ent \in [Proc -> Seq(Entries)]
    BY <2>1
  <2>3. /\ Current(p).op \in Aoe
        /\ p \in block \/ Cardinality(block) # semmnu
        /\ Adjustment(un_ent[p], semid[p], Current(p).num) = 0 => Len(un_ent[p]) < semume
        /\ Adjustment(un_ent[p], semid[p], Current(p).num) - Current(p).op \in Aoe
    BY <2>1, <2>2, <1>1, <1>3, AoeFits
  <2> QED
    BY <2>3 DEF CanAdjust
<1>10. PushInv(p)'
  <2>1. p \in block' /\ pc'[p] \in Working /\ i'[p] \in DOMAIN ops'[p]
    <3>1. DOMAIN ops[p] = 1 .. Len(ops[p])
      <4> HIDE DEF Op
      <4> QED
        BY <1>3, LenProperties
    <3> QED
      BY <3>1, <1>1, <1>3
  <2>2. /\ Current(p)' = Current(p) /\ CurrentSem(p)' = CurrentSem(p)
        /\ CanAdjust(p, Current(p).op, Current(p).num)' = CanAdjust(p, Current(p).op, Current(p).num)
    BY <1>1 DEF Current, CurrentSem, SemOf, SlotOf, CanAdjust
  <2>3. semval' = semval /\ pc' = pc
    BY <1>1
  <2>4. Undoable(Current(p))'
    BY <2>2, <1>1 DEF Undoable
  <2>5. pc'[p] = "ops" => /\ CanDo(Current(p), semval[CurrentSem(p)])'
                          /\ CanAdjust(p, Current(p).op, Current(p).num)'
    <3>1. CanDo(Current(p), semval[CurrentSem(p)])' <=> CanDo(Current(p), semval[CurrentSem(p)])
      BY <2>2, <2>3 DEF CanDo
    <3> QED
      BY <3>1, <2>2, <2>3, <1>1, <1>9
  <2> QED
    BY <2>1, <2>4, <2>5 DEF PushInv
<1>11. Ranges'
  <2>1. block \subseteq Proc /\ Cardinality(block) <= semmnu /\ chain \subseteq Proc
    BY <1>2 DEF Ranges
  <2>2. IsFiniteSet(block)
    BY <2>1, ProcAssumption, FS_Subset
  <2>3. Cardinality(block) \in Nat /\ semmnu \in Nat
    BY <2>2, FS_CardinalityType, InfoAssumption
  <2>4. Cardinality(block') <= semmnu
    <3>1. CASE p \in block
      <4>1. block' = block
        BY <3>1, <1>1
      <4> QED
        BY <4>1, <2>1
    <3>2. CASE p \notin block
      <4>1. Cardinality(block') = Cardinality(block) + 1
        BY <3>2, <1>1, <2>2, FS_AddElement
      <4> QED
        BY <4>1, <3>2, <2>1, <2>3, <1>9
    <3> QED
      BY <3>1, <3>2
  <2> QED
    BY <2>1, <2>4, <1>1, <1>2, <1>4 DEF Ranges
<1>12. WakeInv => WaitInv(p)'
  <2>1. ASSUME WakeInv PROVE WaitInv(p)'
    <3>1. WaitInv(p)
      BY <2>1 DEF WakeInv
    <3> QED
      BY <3>1, <1>1, <1>3, WaitStays
  <2> QED
    BY <2>1
<1> QED
  BY <1>6, <1>7, <1>8, <1>10, <1>11, <1>12, WorkCall

LEMMA DoCall ==
  ASSUME IInv, IInv', CallInv, NEW p \in Proc, Do(p)
  PROVE  CallInv'
<1> PICK m, id : m = i[p] /\ id = semid[p]
  OBVIOUS
<1> PICK op, n : op = Current(p) /\ n = CurrentSem(p)
  OBVIOUS
<1> PICK old, x, d : old = semval[n] /\ x = op.op /\ d = Done(p)
  OBVIOUS
<1>0. PICK queues : queues = Queues(op, n, old + x)
  OBVIOUS
<1>1. /\ AtOp(p, "ops") /\ pc[p] = "ops" /\ CanDo(op, old)
      /\ UNCHANGED <<live, seq, sem_base, sem_nsems, semid_lock, semid, ops, wait, start, net>>
      /\ i' = [i EXCEPT ![p] = @ + 1]
      /\ semval' = [semval EXCEPT ![n] = old + x]
      /\ GotoWaking(p, "ops", queues)
      /\ IF Undoable(op)
         THEN ~MustPush(p) /\ ~AoeFails(p, x, id, op.num) /\ semaoe(p, x, id, op.num)
         ELSE UNCHANGED <<un_ent, block, chain, pushed>>
  BY <1>0 DEF Do, AtOp, Undoable, setVars, undoVars
<1>2. Types /\ Ranges /\ BoundInv
  BY AtOnce
<1>3. /\ pc[p] \in Working /\ m \in 1 .. Len(ops[p]) /\ m \in Nat /\ op = ops[p][m]
      /\ op.num \in Nat /\ x = op.op /\ x \in Int /\ op.undo \in BOOLEAN /\ op.num \in Own(p) /\ id \in Nat
      /\ n = SemOf(id, op.num) /\ n \in Sem /\ old \in 0 .. semvmx
      /\ Ran(p, d) /\ Done(p) = d /\ d = m - 1 /\ Started(p)
  BY <1>1, AtHand
<1>4. /\ pc'[p] = "ops"
      /\ \A q \in Proc \ {p} : pc'[q] = pc[q] \/ (pc[q] = "asleep" /\ pc'[q] = "again")
      /\ \A q \in Proc \ {p} : pc'[q] = "asleep" => wait[q] \notin queues
  <2>1. "ops" \in Place
    BY DEF Place, Working
  <2> QED
    BY <2>1, <1>1, <1>2, Woken
<1>5. i'[p] = m + 1 /\ Done(p)' = m /\ \A q \in Proc \ {p} : i'[q] = i[q]
  <2>1. i'[p] = m + 1 /\ \A q \in Proc \ {p} : i'[q] = i[q]
    BY <1>1, <1>2 DEF Types
  <2> QED
    BY <2>1, <1>3, <1>4 DEF Done
<1>6. old + x \in 0 .. semvmx
  <2>1. old \in 0 .. semvmx /\ semvmx \in Nat /\ x \in Int /\ x = op.op
    BY <1>3, InfoAssumption
  <2>2. CASE x > 0
    <3>1. old + x <= semvmx
      BY <2>1, <2>2, <1>1 DEF CanDo
    <3> QED
      BY <3>1, <2>1, <2>2
  <2>3. CASE x < 0
    <3>1. old >= -x
      BY <2>1, <2>3, <1>1 DEF CanDo
    <3> QED
      BY <3>1, <2>1, <2>3
  <2>4. CASE x = 0
    BY <2>1, <2>4
  <2> QED
    BY <2>1, <2>2, <2>3, <2>4
<1>7. /\ \/ Undoable(op) /\ Becomes(un_ent[p], un_ent'[p], id, op.num, x) /\ pushed' = [pushed EXCEPT ![p] = FALSE]
         \/ ~Undoable(op) /\ un_ent'[p] = un_ent[p] /\ pushed' = pushed
      /\ Bounded(un_ent'[p]) /\ Single(un_ent'[p])
      /\ \A q \in Proc \ {p} : un_ent'[q] = un_ent[q]
      /\ block' = block /\ chain' \subseteq chain
      /\ Undoable(op) => x \in Aoe /\ Adjustment(un_ent[p], id, op.num) - x \in Aoe
  <2>1. CASE Undoable(op)
    <3>1. x # 0 /\ semaoe(p, x, id, op.num) /\ ~AoeFails(p, x, id, op.num)
      BY <2>1, <1>1 DEF Undoable
    <3>2. /\ Becomes(un_ent[p], un_ent'[p], id, op.num, x) /\ Bounded(un_ent'[p])
          /\ \A q \in Proc \ {p} : un_ent'[q] = un_ent[q]
          /\ x \in Aoe /\ Adjustment(un_ent[p], id, op.num) - x \in Aoe
          /\ un_ent'[p] \in Seq(Entries)
          /\ block' = block /\ chain' \subseteq chain /\ pushed' = [pushed EXCEPT ![p] = FALSE]
      BY <3>1, <1>2, <1>3, AoeBecomes
    <3> QED
      BY <3>2, <2>1 DEF Becomes
  <2>2. CASE ~Undoable(op)
    BY <2>2, <1>1, <1>2 DEF BoundInv
  <2> QED
    BY <2>1, <2>2
<1>8. un_ent'[p] # <<>> => p \in block
  <2>1. PushInv(p)
    BY <1>2 DEF BoundInv
  <2> QED
    BY <2>1, <1>1, <1>7 DEF PushInv, MustPush
<1>9. Undoable(op) => p \in block
  <2>1. PushInv(p)
    BY <1>2 DEF BoundInv
  <2> QED
    BY <2>1, <1>1 DEF PushInv, MustPush
<1>10. Effected(p, d, m, m, x)
  <2>1. \A k \in Sem : semval'[k] = semval[k] + IF k = n THEN x ELSE 0
    BY <1>1, <1>2, <1>3 DEF Ranges
  <2>2. m \in 1 .. Len(ops[p]) /\ d = m - 1 /\ x = ops[p][m].op /\ op = ops[p][m]
        /\ n = SemOf(semid[p], ops[p][m].num)
    BY <1>3
  <2>3. UNCHANGED <<sem_base, sem_nsems, semid, ops, start>>
    BY <1>1
  <2>4. \/ Undoable(op) /\ Becomes(un_ent[p], un_ent'[p], semid[p], op.num, x)
        \/ ~Undoable(op) /\ un_ent'[p] = un_ent[p]
    BY <1>3, <1>7
  <2>5. Bounded(un_ent'[p]) /\ block' = block
    BY <1>7
  <2>6. /\ semval[n] + x \in 0 .. semvmx
        /\ Undoable(op) => p \in block /\ x \in Aoe /\ Adjustment(un_ent[p], semid[p], op.num) - x \in Aoe
    BY <1>3, <1>6, <1>7, <1>9
  <2> QED
    BY <2>1, <2>2, <2>3, <2>4, <2>5, <2>6 DEF Effected
<1>11. Ran(p, m)'
  BY <1>2, <1>3, <1>10, RanMoves
<1>12. Bystanders(p)
  <2>1. \A q \in Proc \ {p} : pushed'[q] = pushed[q]
    BY <1>2, <1>7 DEF Ranges
  <2> QED
    BY <2>1, <1>1, <1>4, <1>5 DEF Bystanders
<1>13. Works(p, d, m, queues)
  <2>1. ValAt(p, op.num, m) = old + x
    <3>1. MovesTo(p, d, m, m, x, op.num)
      BY <1>2, <1>3, BackAndForth
    <3>2. ValAt(p, op.num, d) = old
      BY <1>3 DEF Ran
    <3>3. op.num = ops[p][m].num
      BY <1>3
    <3> QED
      BY <3>1, <3>2, <3>3 DEF MovesTo
  <2>2. Queues(ops[p][m], SemOf(semid[p], ops[p][m].num), ValAt(p, ops[p][m].num, m)) \subseteq queues
    BY <2>1, <1>0, <1>3
  <2>3. pc'[p] \in Working
    BY <1>4 DEF Working
  <2> QED
    BY <2>2, <2>3, <1>1, <1>2, <1>3, <1>4, <1>5, <1>7, <1>10, <1>12, OpWorks
<1>14. PushInv(p)'
  <2>1. pushed'[p] = FALSE
    <3>1. CASE Undoable(op)
      BY <3>1, <1>2, <1>7 DEF Ranges
    <3>2. CASE ~Undoable(op)
      <4>1. PushInv(p) /\ pushed'[p] = pushed[p] /\ pushed[p] \in BOOLEAN
        BY <3>2, <1>2, <1>7 DEF BoundInv, Ranges
      <4> QED
        BY <4>1, <3>2 DEF PushInv
    <3> QED
      BY <3>1, <3>2
  <2> QED
    BY <2>1, <1>7, <1>8 DEF PushInv
<1>15. Ranges'
  <2>1. semval' \in [Sem -> 0 .. semvmx]
    BY <1>1, <1>2, <1>3, <1>6 DEF Ranges
  <2>2. pushed' \in [Proc -> BOOLEAN]
    BY <1>2, <1>7 DEF Ranges
  <2> QED
    BY <2>1, <2>2, <1>1, <1>2, <1>7 DEF Ranges
<1>16. WaitInv(p)'
  BY <1>4 DEF WaitInv
<1> QED
  BY <1>7, <1>11, <1>13, <1>14, <1>15, <1>16, WorkCall

(* Taking an operation back does not fail. *)
Negates(x, y) == x = -y
LEMMA UndoFits ==
  ASSUME IInv, CallInv, NEW p \in Proc, AtOp(p, "undo"), Undoable(Current(p)),
         NEW x \in Int, Negates(x, Current(p).op)
  PROVE  ~AoeFails(p, x, semid[p], Current(p).num) /\ x # 0
<1> PICK m, id : m = i[p] /\ id = semid[p]
  OBVIOUS
<1> PICK num, y : num = Current(p).num /\ y = Current(p).op
  OBVIOUS
<1>1. /\ pc[p] = "undo" /\ pc[p] \in Working /\ m \in 1 .. Len(ops[p]) /\ m \in Nat
      /\ Current(p) = ops[p][m] /\ num \in Own(p) /\ y \in Int /\ id \in Nat
      /\ Ran(p, m) /\ Started(p) /\ Current(p).undo
  BY AtHand DEF AtOp, Undoable
<1>2. y # 0 /\ x = -y /\ m - 1 \in 0 .. m /\ m \in 0 .. m /\ m \in 1 .. m
  BY <1>1 DEF Undoable, Negates
<1>3. p \in block /\ y \in Aoe
  BY <1>1, <1>2 DEF Ran
<1>10. PICK a, b : a = AdjAt(p, num, m) /\ b = AdjAt(p, num, m - 1)
  OBVIOUS
<1>4. a \in Int /\ b \in Int /\ b = a - x
  <2>1. Types /\ m \in 1 .. Len(ops[p]) /\ x = -ops[p][m].op /\ num = ops[p][m].num /\ ops[p][m].undo
    BY <1>1, <1>2 DEF IInv
  <2>2. MovesTo(p, m, m - 1, m, x, num)
    BY <2>1, <1>1, BackAndForth
  <2> QED
    BY <2>1, <2>2, <1>10 DEF MovesTo
<1>5. Adjustment(un_ent[p], id, num) = a /\ b \in Aoe
  BY <1>1, <1>2, <1>10 DEF Ran
<1>6. x \in Aoe
  <2>1. semaem \in Int
    BY InfoAssumption
  <2> QED
    BY <2>1, <1>2, <1>3, <1>1 DEF Aoe
<1>7. a = 0 => Len(un_ent[p]) < semume
  <2>1. SUFFICES ASSUME a = 0 PROVE Len(un_ent[p]) < semume
    OBVIOUS
  <2>9. PICK c, d, len : /\ c = Cardinality(Adjusted(p, m)) /\ d = Cardinality(Adjusted(p, m - 1))
                         /\ len = Len(un_ent[p])
    OBVIOUS
  <2>2. b # 0
    <3>1. y \in Int /\ y # 0 /\ x = -y
      BY <1>1, <1>2
    <3> QED
      BY <3>1, <2>1, <1>4
  <2>3. ASSUME NEW n \in Own(p) \ {num} PROVE AdjAt(p, n, m - 1) = AdjAt(p, n, m)
    <3>1. Types /\ m \in 1 .. Len(ops[p]) /\ n \in Own(p) /\ x = -ops[p][m].op /\ num = ops[p][m].num
      BY <1>1, <1>2 DEF IInv
    <3>2. MovesTo(p, m, m - 1, m, x, n)
      BY <3>1, <1>1, BackAndForth
    <3> QED
      BY <3>1, <3>2, <2>3 DEF MovesTo
  <2>4. SlotAt(p) \in Slot /\ Types
    BY <1>1, AtWork DEF IInv
  <2>5. c \in Nat /\ d \in Nat /\
        d = c + (IF a = 0 THEN IF b = 0 THEN 0 ELSE 1 ELSE IF b = 0 THEN -1 ELSE 0)
    BY <2>3, <2>4, <2>9, <1>1, <1>10, AdjustedStep
  <2>6. d = c + 1
    BY <2>1, <2>2, <2>5
  <2>7. len - c + d <= semume
    BY <2>9, <1>1, <1>2 DEF Ran
  <2>8. len \in Nat /\ semume \in Nat
    BY <2>9, EntriesTyped, InfoAssumption DEF IInv
  <2>10. len < semume
    BY <2>5, <2>6, <2>7, <2>8
  <2> QED
    BY <2>9, <2>10
<1>8. un_ent \in [Proc -> Seq(Entries)] /\ Single(un_ent[p]) /\ Bounded(un_ent[p])
  BY EntriesTyped, AtOnce DEF IInv, BoundInv
<1>9. ~AoeFails(p, x, id, num)
  <2> HIDE DEF Entries
  <2>1. un_ent \in [Proc -> Seq(Entries)]
    BY <1>8
  <2>2. /\ x \in Aoe
        /\ p \in block \/ Cardinality(block) # semmnu
        /\ Adjustment(un_ent[p], id, num) = 0 => Len(un_ent[p]) < semume
        /\ Adjustment(un_ent[p], id, num) - x \in Aoe
    BY <1>3, <1>4, <1>5, <1>6, <1>7
  <2> QED
    BY <2>1, <2>2, <1>8, AoeFits
<1>11. x # 0
  BY <1>1, <1>2
<1> QED
  BY <1>9, <1>11

LEMMA semundoCall ==
  ASSUME IInv, IInv', CallInv, NEW p \in Proc, semundo(p)
  PROVE  CallInv'
<1> PICK m, id : m = i[p] /\ id = semid[p]
  OBVIOUS
<1> PICK op, n : op = Current(p) /\ n = CurrentSem(p)
  OBVIOUS
<1>0. PICK old, x : old = semval[n] /\ x = -op.op
  OBVIOUS
<1>1. /\ AtOp(p, "undo") /\ pc[p] = "undo" /\ pc[p] \in Working
      /\ UNCHANGED <<live, seq, sem_base, sem_nsems, semid_lock, pc, semid, ops, wait, start, net>>
      /\ i' = [i EXCEPT ![p] = @ - 1]
      /\ semval' = [semval EXCEPT ![n] = @ - op.op]
      /\ IF Undoable(op) /\ ~AoeFails(p, x, id, op.num)
         THEN ~MustPush(p) /\ semaoe(p, x, id, op.num)
         ELSE UNCHANGED <<un_ent, block, chain, pushed>>
  BY <1>0 DEF semundo, AtOp, Undoable, setVars, undoVars, Working
<1>2. Types /\ Ranges /\ BoundInv
  BY AtOnce
<1>3. /\ m \in 1 .. Len(ops[p]) /\ m \in Nat /\ op = ops[p][m]
      /\ op.num \in Nat /\ op.op \in Int /\ op.undo \in BOOLEAN /\ op.num \in Own(p) /\ id \in Nat
      /\ n = SemOf(id, op.num) /\ n \in Sem /\ old \in 0 .. semvmx
      /\ Ran(p, m) /\ Done(p) = m /\ Started(p)
  BY <1>0, <1>1, AtHand
<1>4. x \in Int /\ x = -op.op /\ m - 1 \in 0 .. m
  BY <1>0, <1>3
<1>5. i'[p] = m - 1 /\ Done(p)' = m - 1 /\ \A q \in Proc \ {p} : i'[q] = i[q]
  <2>1. i'[p] = m - 1 /\ \A q \in Proc \ {p} : i'[q] = i[q]
    BY <1>1, <1>2 DEF Types
  <2> QED
    BY <2>1, <1>1 DEF Done
<1>6. semval'[n] = old + x /\ \A k \in Sem : semval'[k] = semval[k] + IF k = n THEN x ELSE 0
  <2>1. semval'[n] = old - op.op
    BY <1>0, <1>1, <1>2, <1>3 DEF Ranges
  <2>2. \A k \in Sem : semval[k] \in Int /\ (k # n => semval'[k] = semval[k])
    BY <1>1, <1>2 DEF Ranges
  <2>3. semval'[n] = old + x /\ old = semval[n]
    BY <2>1, <1>0, <1>3, <1>4
  <2> QED
    BY <2>2, <2>3
<1>7. /\ \/ Undoable(op) /\ Becomes(un_ent[p], un_ent'[p], id, op.num, x) /\ pushed' = [pushed EXCEPT ![p] = FALSE]
         \/ ~Undoable(op) /\ un_ent'[p] = un_ent[p] /\ pushed' = pushed
      /\ Bounded(un_ent'[p]) /\ Single(un_ent'[p])
      /\ \A q \in Proc \ {p} : un_ent'[q] = un_ent[q]
      /\ block' = block /\ chain' \subseteq chain
      /\ un_ent'[p] # <<>> => p \in block
  <2>1. CASE Undoable(op)
    <3>1. x # 0 /\ ~AoeFails(p, x, id, op.num)
      BY <2>1, <1>1, <1>4, UndoFits DEF Negates
    <3>2. semaoe(p, x, id, op.num)
      BY <2>1, <3>1, <1>1
    <3>3. /\ Becomes(un_ent[p], un_ent'[p], id, op.num, x) /\ Bounded(un_ent'[p])
          /\ \A q \in Proc \ {p} : un_ent'[q] = un_ent[q]
          /\ x \in Aoe /\ Adjustment(un_ent[p], id, op.num) - x \in Aoe
          /\ un_ent'[p] \in Seq(Entries)
          /\ block' = block /\ chain' \subseteq chain /\ pushed' = [pushed EXCEPT ![p] = FALSE]
      BY <3>1, <3>2, <1>2, <1>3, <1>4, AoeBecomes
    <3>4. p \in block
      BY <2>1, <1>3 DEF Ran
    <3> QED
      BY <3>3, <3>4, <2>1 DEF Becomes
  <2>2. CASE ~Undoable(op)
    <3>1. PushInv(p) /\ Bounded(un_ent[p]) /\ Single(un_ent[p])
      BY <1>2 DEF BoundInv
    <3> QED
      BY <3>1, <2>2, <1>1 DEF PushInv
  <2> QED
    BY <2>1, <2>2
<1>8. Effected(p, m, m - 1, m, x)
  <2>1. m \in 1 .. Len(ops[p]) /\ x = -ops[p][m].op /\ op = ops[p][m] /\ n = SemOf(semid[p], ops[p][m].num)
    BY <1>3, <1>4
  <2>2. UNCHANGED <<sem_base, sem_nsems, semid, ops, start>>
    BY <1>1
  <2>3. \/ Undoable(op) /\ Becomes(un_ent[p], un_ent'[p], semid[p], op.num, x)
        \/ ~Undoable(op) /\ un_ent'[p] = un_ent[p]
    BY <1>7
  <2>4. Bounded(un_ent'[p]) /\ block' = block
    BY <1>7
  <2>5. m - 1 # m
    BY <1>3
  <2>6. \A k \in Sem : semval'[k] = semval[k] + IF k = n THEN x ELSE 0
    BY <1>6
  <2> QED
    BY <2>1, <2>2, <2>3, <2>4, <2>5, <2>6 DEF Effected
<1>9. Ran(p, m - 1)'
  BY <1>1, <1>2, <1>3, <1>8, RanMoves
<1>10. Bystanders(p)
  <2>1. \A q \in Proc \ {p} : pushed'[q] = pushed[q]
    BY <1>2, <1>7 DEF Ranges
  <2> QED
    BY <2>1, <1>1, <1>5 DEF Bystanders
<1>11. Works(p, m, m - 1, {})
  <2>1. m - 1 <= m /\ \A q \in Proc : wait[q] \notin {}
    BY <1>3
  <2> QED
    BY <2>1, <1>1, <1>2, <1>3, <1>5, <1>7, <1>8, <1>10, OpWorks
<1>12. pushed'[p] = FALSE /\ pushed' \in [Proc -> BOOLEAN]
  <2>1. CASE Undoable(op)
    BY <2>1, <1>2, <1>7 DEF Ranges
  <2>2. CASE ~Undoable(op)
    <3>1. PushInv(p) /\ pushed' = pushed /\ pushed \in [Proc -> BOOLEAN]
      BY <2>2, <1>2, <1>7 DEF BoundInv, Ranges
    <3> QED
      BY <3>1, <2>2 DEF PushInv
  <2> QED
    BY <2>1, <2>2
<1>13. PushInv(p)'
  BY <1>7, <1>12 DEF PushInv
<1>14. Ranges'
  <2>1. old + x \in 0 .. semvmx
    <3>1. ValAt(p, op.num, m - 1) \in 0 .. semvmx /\ ValAt(p, op.num, m) = old
      BY <1>0, <1>3, <1>4 DEF Ran
    <3>2. MovesTo(p, m, m - 1, m, x, op.num)
      <4>1. m \in 1 .. Len(ops[p]) /\ x = -ops[p][m].op
        BY <1>3, <1>4
      <4> QED
        BY <4>1, <1>2, <1>3, BackAndForth
    <3>3. op = ops[p][m]
      BY <1>3
    <3>4. ValAt(p, op.num, m - 1) = old + x
      BY <3>1, <3>2, <3>3 DEF MovesTo
    <3> QED
      BY <3>1, <3>4
  <2>2. semval' \in [Sem -> 0 .. semvmx]
    <3>1. DOMAIN semval' = Sem /\ \A k \in Sem : k # n => semval'[k] = semval[k]
      BY <1>1, <1>2 DEF Ranges
    <3>2. \A k \in Sem : semval'[k] \in 0 .. semvmx
      BY <2>1, <3>1, <1>2, <1>6 DEF Ranges
    <3>3. semval' = [k \in Sem |-> semval'[k]]
      BY <3>1, <1>1, <1>2 DEF Ranges
    <3> QED
      BY <3>2, <3>3
  <2> QED
    BY <2>2, <1>1, <1>2, <1>7, <1>12 DEF Ranges
<1>15. WakeInv => WaitInv(p)'
  <2>1. ASSUME WakeInv PROVE WaitInv(p)'
    <3>1. WaitInv(p)
      BY <2>1 DEF WakeInv
    <3>2. UNCHANGED <<sem_base, semid, ops, start, wait>> /\ pc'[p] = pc[p] /\ pc[p] \in Working
      BY <1>1
    <3> QED
      BY <3>1, <3>2, WaitStays
  <2> QED
    BY <2>1
<1> QED
  BY <1>7, <1>9, <1>11, <1>13, <1>14, <1>15, WorkCall

LEMMA RefuseCall ==
  ASSUME IInv, IInv', CallInv, NEW p \in Proc, Refuse(p)
  PROVE  CallInv'
<1> PICK m, id : m = i[p] /\ id = semid[p]
  OBVIOUS
<1> PICK op, n, d : op = Current(p) /\ n = CurrentSem(p) /\ d = Done(p)
  OBVIOUS
<1>1. /\ AtOp(p, "ops") /\ pc[p] = "ops" /\ pc[p] \in Working
      /\ ~CanDo(op, semval[n]) \/ (Undoable(op) /\ AoeFails(p, op.op, id, op.num))
      /\ wait' = [wait EXCEPT ![p] =
             IF MustWait(op, semval[n]) /\ ~op.nowait
             THEN <<IF op.op = 0 THEN "semzcnt_wait" ELSE "semncnt_wait", n>>
             ELSE None]
      /\ Goto(p, "undo")
      /\ i' = [i EXCEPT ![p] = @ - 1]
      /\ UNCHANGED <<live, seq, sem_base, sem_nsems, semid_lock, semval, un_ent, block, chain,
                     semid, ops, pushed, start, net>>
  BY DEF Refuse, AtOp, Undoable, setVars, undoVars, Working
<1>2. Types /\ Ranges /\ BoundInv
  BY AtOnce
<1>3. /\ m \in 1 .. Len(ops[p]) /\ m \in Nat /\ op = ops[p][m]
      /\ op.num \in Nat /\ op.op \in Int /\ op.num \in Own(p) /\ id \in Nat
      /\ n = SemOf(id, op.num) /\ n \in Sem /\ semval[n] \in 0 .. semvmx
      /\ Ran(p, d) /\ Done(p) = d /\ d = m - 1 /\ Started(p)
  BY <1>1, AtHand
<1>4. pc'[p] = "undo" /\ \A q \in Proc \ {p} : pc'[q] = pc[q]
  <2>1. "undo" \in Place
    BY DEF Place, Working
  <2> QED
    BY <2>1, <1>1, <1>2, Gone
<1>5. Done(p)' = d /\ \A q \in Proc \ {p} : i'[q] = i[q] /\ wait'[q] = wait[q]
  <2>1. i'[p] = m - 1 /\ \A q \in Proc \ {p} : i'[q] = i[q]
    BY <1>1, <1>2 DEF Types
  <2>2. \A q \in Proc \ {p} : wait'[q] = wait[q]
    BY <1>1, <1>2 DEF Types
  <2> QED
    BY <2>1, <2>2, <1>3, <1>4 DEF Done
<1>6. Bystanders(p)
  BY <1>1, <1>4, <1>5 DEF Bystanders
<1>7. Works(p, d, d, {})
  <2>1. d <= d /\ pc'[p] \in Working
    BY <1>3, <1>4 DEF Working
  <2> QED
    BY <2>1, <1>1, <1>3, <1>5, <1>6 DEF Works
<1>8. Ran(p, d)'
  <2>0. Ran(p, d)
    BY <1>3
  <2>1. /\ UNCHANGED <<sem_base, sem_nsems, semval, un_ent, block, semid, ops, start>>
    BY <1>1
  <2>2. /\ Own(p)' = Own(p)
        /\ \A num, k : ValAt(p, num, k)' = ValAt(p, num, k) /\ AdjAt(p, num, k)' = AdjAt(p, num, k)
        /\ \A num : SemOf(semid[p], num)' = SemOf(semid[p], num)
    BY <2>1 DEF Own, SlotAt, SlotOf, ValAt, AdjAt, SemOf
  <2>3. \A k : Adjusted(p, k)' = Adjusted(p, k)
    BY <2>2 DEF Adjusted
  <2> QED
    BY <2>0, <2>1, <2>2, <2>3 DEF Ran
<1>9. Bounded(un_ent'[p]) /\ Single(un_ent'[p]) /\ Ranges'
  BY <1>1, <1>2 DEF BoundInv, Ranges
<1>10. PushInv(p)'
  <2>1. PushInv(p)
    BY <1>2 DEF BoundInv
  <2>2. ~pushed[p]
    <3>1. SUFFICES ASSUME pushed[p] PROVE FALSE
      OBVIOUS
    <3>2. CanDo(op, semval[n]) /\ p \in block /\ CanAdjust(p, op.op, op.num)
      BY <2>1, <3>1, <1>1 DEF PushInv
    <3>3. un_ent \in [Proc -> Seq(Entries)] /\ Single(un_ent[p]) /\ Bounded(un_ent[p])
      BY <1>2, EntriesTyped DEF IInv, BoundInv
    <3>4. ~AoeFails(p, op.op, id, op.num)
      <4> HIDE DEF Entries
      <4>1. un_ent \in [Proc -> Seq(Entries)]
        BY <3>3
      <4>2. /\ op.op \in Aoe
            /\ p \in block \/ Cardinality(block) # semmnu
            /\ Adjustment(un_ent[p], id, op.num) = 0 => Len(un_ent[p]) < semume
            /\ Adjustment(un_ent[p], id, op.num) - op.op \in Aoe
        BY <3>2 DEF CanAdjust
      <4>3. op.op \in Int
        BY <1>3
      <4> QED
        BY <4>1, <4>2, <4>3, <3>3, AoeFits
    <3> QED
      BY <3>2, <3>4, <1>1
  <2> QED
    BY <2>1, <2>2, <1>1 DEF PushInv
<1>11. ASSUME wait'[p] # None
       PROVE  \E k \in DOMAIN ops'[p] : WaitsFor(p, k)' /\
                MustWait(ops'[p][k], ValAt(p, ops[p][k].num, 0)' + Before(p, k)')
  <2>0. UNCHANGED <<sem_base, semid, ops, start>>
    BY <1>1
  <2>1. wait'[p] = IF MustWait(op, semval[n]) /\ ~op.nowait
                   THEN <<IF op.op = 0 THEN "semzcnt_wait" ELSE "semncnt_wait", n>> ELSE None
    BY <1>1, <1>2 DEF Types
  <2>2. /\ MustWait(op, semval[n]) /\ ~op.nowait
        /\ wait'[p] = <<IF op.op = 0 THEN "semzcnt_wait" ELSE "semncnt_wait", n>>
    BY <2>1, <1>11
  <2>3. m \in DOMAIN ops[p] /\ op.op <= 0 /\ op = ops[p][m]
    BY <2>2, <1>1, <1>3 DEF AtOp, MustWait
  <2>4. WaitsFor(p, m)'
    <3>1. n = SemOf(semid[p], op.num)
      BY <1>3
    <3> QED
      BY <3>1, <2>0, <2>2, <2>3 DEF WaitsFor, SemOf, SlotOf
  <2>5. ValAt(p, op.num, 0)' + Before(p, m)' = semval[n]
    <3> PICK v, b0, b : v = StartVal(p, op.num) /\ b0 = Total(ops[p], op.num)[0]
                        /\ b = Total(ops[p], op.num)[d]
      OBVIOUS
    <3>1. b0 = 0
      <4>1. ops[p] \in Seq(Op)
        BY <1>2 DEF Types
      <4> HIDE DEF Op
      <4> QED
        BY <4>1, EffectsAre DEF Total
    <3>2. b \in Int
      <4>1. ops[p] \in Seq(Op) /\ d \in 0 .. Len(ops[p])
        BY <1>2, <1>3 DEF Types, Ran
      <4> HIDE DEF Op
      <4> QED
        BY <4>1, EffectsAre DEF Total
    <3>3. v \in Int
      BY <1>3 DEF Started, StartVal
    <3>4. ValAt(p, op.num, 0)' = v + b0
      BY <2>0 DEF ValAt, StartVal, Total
    <3>5. Before(p, m)' = b
      BY <2>0, <2>3, <1>3 DEF Before, Total
    <3>6. semval[n] = v + b
      <4>1. semval[n] = ValAt(p, op.num, d)
        BY <1>3 DEF Ran
      <4> QED
        BY <4>1 DEF ValAt, StartVal, Total
    <3> QED
      BY <3>1, <3>2, <3>3, <3>4, <3>5, <3>6
  <2>6. MustWait(op, ValAt(p, op.num, 0)' + Before(p, m)')
    BY <2>2, <2>5
  <2>7. ops'[p] = ops[p] /\ op = ops[p][m] /\ m \in DOMAIN ops'[p]
    BY <2>0, <2>3
  <2> QED
    BY <2>4, <2>6, <2>7
<1>12. WaitInv(p)'
  BY <1>4, <1>11 DEF WaitInv
<1> QED
  BY <1>7, <1>8, <1>9, <1>10, <1>12, WorkCall

-----------------------------------------------------------------------------
(* Steps that set semaphores of one set, which nobody has locked, or only  *)
(* take entries away. *)

Beside(num, low, high) == num < low \/ num > high
Removed(id, low, high) ==
  /\ block' = block /\ chain' \subseteq chain
  /\ \A p \in Proc :
       /\ un_ent[p] \in Seq(Entries) /\ un_ent'[p] \in Seq(Entries)
       /\ Single(un_ent'[p]) /\ Bounded(un_ent'[p])
       /\ Len(un_ent'[p]) <= Len(un_ent[p])
       /\ un_ent'[p] # <<>> => un_ent[p] # <<>>
       /\ \A id2, num : id2 # id \/ Beside(num, low, high) =>
            Adjustment(un_ent'[p], id2, num) = Adjustment(un_ent[p], id2, num)
LEMMA RemovedAdjustments ==
  ASSUME IInv, BoundInv, NEW id, NEW low, NEW high, semunrm(id, low, high)
  PROVE  Removed(id, low, high)
<1>1. /\ un_ent' = [p \in Proc |-> IF p \in chain THEN Kept(un_ent[p], id, low, high)
                                   ELSE un_ent[p]]
      /\ chain' \subseteq chain /\ block' = block
  BY DEF semunrm
<1>2. ASSUME NEW p \in Proc
      PROVE  /\ un_ent[p] \in Seq(Entries) /\ Len(un_ent[p]) \in Nat
             /\ Single(un_ent[p]) /\ Bounded(un_ent[p])
  BY EntriesTyped DEF IInv, BoundInv
<1> HIDE DEF Entries
<1>3. ASSUME NEW p \in Proc
      PROVE  /\ un_ent'[p] \in Seq(Entries)
             /\ Single(un_ent'[p]) /\ Bounded(un_ent'[p])
             /\ Len(un_ent'[p]) \in Nat /\ Len(un_ent'[p]) <= Len(un_ent[p])
             /\ \A id2, num : id2 # id \/ Beside(num, low, high) =>
                  Adjustment(un_ent'[p], id2, num) = Adjustment(un_ent[p], id2, num)
  <2>1. CASE p \in chain
    <3>1. un_ent'[p] = Kept(un_ent[p], id, low, high)
      BY <1>1, <2>1
    <3>2. LET r == Kept(un_ent[p], id, low, high) IN
         /\ r \in Seq(Entries) /\ Single(r) /\ Bounded(r)
         /\ Len(r) \in Nat /\ Len(r) <= Len(un_ent[p])
         /\ \A id2, num : id2 # id \/ Beside(num, low, high) =>
              Adjustment(r, id2, num) = Adjustment(un_ent[p], id2, num)
      BY <1>2, KeptKeeps DEF Beside
    <3> QED
      BY <3>1, <3>2
  <2>2. CASE p \notin chain
    <3>1. un_ent'[p] = un_ent[p]
      BY <1>1, <2>2
    <3> QED
      BY <3>1, <1>2
  <2> QED
    BY <2>1, <2>2
<1>4. ASSUME NEW p \in Proc, un_ent[p] = <<>> PROVE un_ent'[p] = <<>>
  <2>1. Len(un_ent[p]) = 0
    BY <1>4
  <2>2. Len(un_ent'[p]) = 0
    BY <2>1, <1>3
  <2> QED
    BY <2>2, <1>3, EmptySeq
<1> QED
  BY <1>1, <1>2, <1>3, <1>4 DEF Removed

EntriesGo ==
  \A p \in Proc : /\ Single(un_ent'[p]) /\ Bounded(un_ent'[p])
                  /\ Len(un_ent'[p]) <= Len(un_ent[p])
                  /\ un_ent'[p] # <<>> => un_ent[p] # <<>>
Settled(s0, queues) ==
  s0 \in Slot /\ live[s0] => \A num \in 0 .. sem_nsems[s0] - 1 :
    /\ semval'[sem_base[s0] + num] + Adjustments(un_ent', IdOf(s0), num)
         = net'[sem_base[s0] + num]
    /\ Covered(s0, num, semval'[sem_base[s0] + num], queues)
Sets(q, s0, queues) ==
  /\ pc[q] \notin Working /\ pc'[q] \notin Working \cup {"asleep", "again"}
  /\ UNCHANGED <<live, seq, sem_base, sem_nsems, semid_lock, block, pushed>>
  /\ chain' \subseteq chain /\ DOMAIN start' = Proc
  /\ Bystanders(q) /\ \A p \in Proc \ {q} : pc'[p] = "asleep" => wait[p] \notin queues
  /\ s0 \in Slot => Occupied(s0) /\ (live[s0] => semid_lock[s0] = None)
  /\ EntriesGo
  /\ \A s \in Slot : s # s0 /\ live[s] => \A p \in Proc : \A num \in Int :
       Adjustment(un_ent'[p], IdOf(s), num) = Adjustment(un_ent[p], IdOf(s), num)
  /\ semval' \in [Sem -> 0 .. semvmx] /\ net' \in [Sem -> Int]
  /\ \A n \in Sem : s0 \notin Slot \/ n \notin SemsOf(s0) =>
                      semval'[n] = semval[n] /\ net'[n] = net[n]
  /\ Settled(s0, queues)

LEMMA SetStep ==
  ASSUME IInv, IInv', CallInv, NEW q \in Proc, NEW s0, NEW queues, Sets(q, s0, queues)
  PROVE  CallInv'
<1>1. Types /\ Ranges /\ BoundInv /\ LockInv
  BY AtOnce
<1>2. Apart(q, s0)
  <2>1. UndoShrinks(q)
    BY DEF UndoShrinks, Sets, EntriesGo
  <2>2. OnlyAt(q, s0)
    BY <2>1 DEF OnlyAt, Sets
  <2> QED
    BY <2>2, SlotStep
<1>3. LockAt(q, s0)
  BY DEF LockAt, Sets
<1>4. \A p \in Proc : Bounded(un_ent'[p]) /\ Single(un_ent'[p])
  BY DEF Sets, EntriesGo
<1>5. RunInv(q)'
  BY DEF RunInv, Sets
<1>6. PushInv(q)'
  <2>1. PushInv(q) /\ pc[q] \notin Working
    BY <1>1 DEF BoundInv, Sets
  <2>2. ~pushed[q] /\ (un_ent[q] # <<>> => q \in block)
    BY <2>1 DEF PushInv
  <2> QED
    BY <2>2 DEF PushInv, Sets, EntriesGo
<1>7. Ranges'
  <2>1. semval' \in [Sem -> 0 .. semvmx] /\ net' \in [Sem -> Int] /\ DOMAIN start' = Proc
        /\ chain' \subseteq chain /\ UNCHANGED <<seq, block, pushed>>
    BY DEF Sets
  <2> QED
    BY <2>1, <1>1 DEF Ranges
<1>8. ASSUME s0 \in Slot, live'[s0], NEW num \in 0 .. sem_nsems'[s0] - 1
      PROVE  BalanceAt(s0, num)'
  <2>1. /\ live[s0] /\ num \in 0 .. sem_nsems[s0] - 1 /\ sem_base'[s0] = sem_base[s0]
        /\ IdOf(s0)' = IdOf(s0) /\ semid_lock'[s0] = None
    BY <1>8 DEF Sets, IdOf
  <2>2. ForGood(s0, num)' = 0
    BY <2>1 DEF ForGood
  <2>3. semval'[sem_base[s0] + num] + Adjustments(un_ent', IdOf(s0), num)
          = net'[sem_base[s0] + num]
    BY <2>1, <1>8 DEF Sets, Settled
  <2>4. net'[sem_base[s0] + num] \in Int
    <3>1. SemsOf(s0) \subseteq Sem
      BY <1>8 DEF IInv, SetsInv, Sets
    <3>2. sem_base[s0] + num \in SemsOf(s0)
      BY <2>1, <1>1, <1>8 DEF SemsOf, Types
    <3> QED
      BY <3>1, <3>2 DEF Sets
  <2> QED
    BY <2>1, <2>2, <2>3, <2>4 DEF BalanceAt
<1>9. ASSUME ZeroLists /\ WakeInv, NEW p \in Proc \ {q}, pc'[p] = "asleep",
              SlotAt(p) = s0, Exists(semid[p])'
       PROVE  Sleeps(p, s0)'
  <2>1. Bystanders(q) /\ wait[p] \notin queues /\ UNCHANGED <<live, seq, sem_base, sem_nsems, semid_lock>>
    BY <1>9 DEF Sets
  <2>2. pc[p] = "asleep" /\ Exists(semid[p])
    BY <2>1, <1>9 DEF Exists, IdOf, SlotOf, Bystanders
  <2>3. s0 \in Slot /\ live[s0]
    <3>1. Known(semid[p])
      BY <2>2 DEF IInv, ProcInv, SleepInv
    <3> QED
      BY <3>1, <2>2, <1>9 DEF Known, SlotAt, Exists
  <2>4. semid_lock'[s0] = None
    BY <2>1, <2>3 DEF Sets
  <2>5. Sleeps(p, s0) /\ ops[p] \in OpLists
    BY <2>2, <2>3, <1>9 DEF WakeInv, WaitInv, ListInv
  <2>6. \A num \in 0 .. sem_nsems[s0] - 1, v \in 0 .. semvmx :
           Seen(s0, num, v)' => Covered(s0, num, v, queues)
    <3>1. SUFFICES ASSUME NEW num \in 0 .. sem_nsems[s0] - 1, NEW v \in 0 .. semvmx, Seen(s0, num, v)'
                   PROVE  Covered(s0, num, v, queues)
      OBVIOUS
    <3>2. v = semval'[sem_base[s0] + num]
      BY <3>1, <2>1, <2>4, ProcAssumption DEF Seen
    <3> QED
      BY <3>2, <2>3 DEF Sets, Settled
  <2>7. \A l \in OpLists : ZeroFirst(l)
    BY <1>9 DEF ZeroLists
  <2>8. sem_base'[s0] = sem_base[s0]
    BY <2>1
  <2> QED
    BY <2>1, <2>2, <2>3, <2>5, <2>6, <2>7, <2>8, <1>9, SleepsOn
<1>10. WaitInv(q)' /\ pc'[q] \notin Working \cup {"asleep", "again"}
  BY DEF WaitInv, Sets, Working
<1> QED
  BY <1>2, <1>3, <1>4, <1>5, <1>6, <1>7, <1>8, <1>9, <1>10, CallStep

LEMMA SetValuesCall ==
  ASSUME IInv, IInv', CallInv, NEW p \in Proc, pc[p] \notin Working,
         NEW s \in Slot, live[s], semid_lock[s] = None, NEW id, id = IdOf(s),
         NEW low \in Int, NEW high \in Int, NEW nums \in SUBSET (0 .. sem_nsems[s] - 1),
         \A num \in 0 .. sem_nsems[s] - 1 : num \in nums \/ Beside(num, low, high),
         semunrm(id, low, high), NEW values \in [nums -> Values], SetValues(p, id, values),
         UNCHANGED <<live, seq, sem_base, sem_nsems, semid_lock, pushed>>, DOMAIN start' = Proc,
         \A q \in Proc \ {p} : /\ semid'[q] = semid[q] /\ ops'[q] = ops[q] /\ wait'[q] = wait[q]
                               /\ i'[q] = i[q] /\ start'[q] = start[q]
  PROVE  CallInv'
<1> DEFINE base == sem_base[s]
           set == {SemOf(id, num) : num \in nums}
           at(n) == n - SemOf(id, 0)
           queues == {<<IF values[num] = 0 THEN "semzcnt_wait" ELSE "semncnt_wait", SemOf(id, num)>>
                        : num \in nums}
<1>1. /\ semval' = [n \in Sem |-> IF n \in set THEN values[at(n)] ELSE semval[n]]
      /\ GotoWaking(p, "idle", queues)
      /\ net' = [n \in Sem |-> IF n \in set
           THEN values[at(n)] + Adjustments(un_ent', id, at(n))
           ELSE net[n]]
  BY DEF SetValues
<1>2. Types /\ Ranges /\ BoundInv /\ Values \subseteq 0 .. semvmx
  BY AtOnce, CallAssumption
<1>0. id \in Nat /\ SlotOf(id) = s /\ base \in Nat /\ sem_nsems[s] \in Nat
  BY <1>2, IdOfSlot DEF Types
<1>3. \A num \in Int : SemOf(id, num) = base + num
  BY <1>0 DEF SemOf
<1>4. SemsOf(s) = base .. base + sem_nsems[s] - 1 /\ SemsOf(s) \subseteq Sem /\ Occupied(s)
  BY DEF SemsOf, Occupied, IInv, SetsInv
<1>5. /\ pc'[p] = "idle"
      /\ \A q \in Proc \ {p} : pc'[q] = pc[q] \/ (pc[q] = "asleep" /\ pc'[q] = "again")
      /\ \A q \in Proc \ {p} : pc'[q] = "asleep" => wait[q] \notin queues
  <2>1. "idle" \in Place
    BY DEF Place
  <2> HIDE DEF queues
  <2> QED
    BY <2>1, <1>1, <1>2, Woken
<1>6. Removed(id, low, high)
  BY <1>2, RemovedAdjustments
<1> HIDE DEF base
<1>7. ASSUME NEW num \in 0 .. sem_nsems[s] - 1
      PROVE  /\ num \in Nat /\ base + num \in Sem /\ base + num \in SemsOf(s)
             /\ at(base + num) = num
             /\ base + num \in set <=> num \in nums
  <2>1. num \in Nat /\ base + num \in SemsOf(s)
    BY <1>0, <1>4
  <2>2. at(base + num) = num
    BY <2>1, <1>0, <1>3
  <2>3. ASSUME base + num \in set PROVE num \in nums
    <3>1. PICK k \in nums : base + num = base + k
      BY <2>3, <1>0, <1>3
    <3>2. k \in 0 .. sem_nsems[s] - 1
      OBVIOUS
    <3>3. k = num
      BY <3>1, <3>2, <2>1, <1>0, <1>3
    <3> QED
      BY <3>3
  <2>4. ASSUME num \in nums PROVE base + num \in set
    BY <2>4, <1>0, <1>3
  <2> QED
    BY <2>1, <2>2, <2>3, <2>4, <1>4
<1>8. ASSUME NEW n \in set
      PROVE  \E num \in nums : num \in 0 .. sem_nsems[s] - 1 /\ n = base + num
  BY <1>0, <1>3
<1>9. ASSUME NEW num
      PROVE  Adjustments(un_ent', id, num) \in Int /\ Adjustments(un_ent, id, num) \in Int
  <2> PICK x, y : x = un_ent /\ y = un_ent'
    OBVIOUS
  <2> HIDE DEF Entries
  <2>1. \A q \in Proc : x[q] \in Seq(Entries)
    BY <1>6 DEF Removed
  <2>2. \A q \in Proc : y[q] \in Seq(Entries)
    BY <1>6 DEF Removed
  <2>3. Adjustments(y, id, num) \in Int
    BY <2>2, AdjustmentsInt
  <2>4. Adjustments(x, id, num) \in Int
    BY <2>1, AdjustmentsInt
  <2> QED
    BY <2>3, <2>4
<1> HIDE DEF set, at, queues
<1>10. \A num \in nums : values[num] \in 0 .. semvmx /\ values[num] \in Int
  <2>1. semvmx \in Nat /\ Values \subseteq 0 .. semvmx
    BY <1>2, InfoAssumption
  <2>2. \A num \in nums : values[num] \in Values
    OBVIOUS
  <2>3. \A v \in Values : v \in 0 .. semvmx /\ v \in Int
    BY <2>1
  <2> QED
    BY <2>2, <2>3
<1>11. semval' \in [Sem -> 0 .. semvmx] /\ net' \in [Sem -> Int]
  <2>1. \A n \in set : at(n) \in nums
    BY <1>7, <1>8
  <2>2. \A n \in set : values[at(n)] \in 0 .. semvmx
    BY <2>1, <1>10
  <2>3. \A n \in set : values[at(n)] + Adjustments(un_ent', id, at(n)) \in Int
    <3>1. ASSUME NEW n \in set
          PROVE  values[at(n)] + Adjustments(un_ent', id, at(n)) \in Int
      <4> PICK num \in nums : num = at(n)
        BY <2>1
      <4>1. Adjustments(un_ent', id, num) \in Int /\ values[num] \in Int
        BY <1>9, <1>10
      <4> QED
        BY <4>1
    <3> QED
      BY <3>1
  <2>4. semval \in [Sem -> 0 .. semvmx] /\ net \in [Sem -> Int]
    BY <1>2 DEF Ranges
  <2>5. semval' \in [Sem -> 0 .. semvmx]
    BY <2>2, <2>4, <1>1
  <2>6. net' \in [Sem -> Int]
    BY <2>3, <2>4, <1>1
  <2> QED
    BY <2>5, <2>6
<1>12. \A n \in Sem : n \notin SemsOf(s) => semval'[n] = semval[n] /\ net'[n] = net[n]
  <2>1. \A n \in set : n \in SemsOf(s)
    BY <1>7, <1>8
  <2> QED
    BY <2>1, <1>1
<1>13. \A t \in Slot : t # s => \A q \in Proc : \A num :
         Adjustment(un_ent'[q], IdOf(t), num) = Adjustment(un_ent[q], IdOf(t), num)
  <2>1. \A t \in Slot : SlotOf(IdOf(t)) = t
    BY <1>2, IdOfSlot DEF Types
  <2>2. \A t \in Slot : t # s => IdOf(t) # id
    BY <2>1, <1>0, <1>3
  <2> QED
    BY <2>2, <1>6 DEF Removed
<1>14. ASSUME NEW num \in 0 .. sem_nsems[s] - 1
       PROVE  /\ semval'[base + num] + Adjustments(un_ent', id, num) = net'[base + num]
              /\ Covered(s, num, semval'[base + num], queues)
  <2>1. /\ num \in Nat /\ base + num \in Sem /\ at(base + num) = num
        /\ base + num \in set <=> num \in nums
    BY <1>7
  <2>2. Seen(s, num, semval[base + num]) /\ semval[base + num] \in 0 .. semvmx
    BY <2>1, <1>2 DEF Seen, base, Ranges
  <2>3. CASE num \in nums
    <3> PICK v : v = values[num]
      OBVIOUS
    <3>1. semval'[base + num] = v /\ net'[base + num] = v + Adjustments(un_ent', id, num)
      BY <2>1, <2>3, <1>1
    <3>2. <<IF v = 0 THEN "semzcnt_wait" ELSE "semncnt_wait", base + num>> \in queues
      BY <2>3, <1>0, <1>3 DEF queues
    <3>3. v \in 0 .. semvmx
      BY <2>3, <1>10
    <3>4. Covered(s, num, v, queues)
      <4> HIDE DEF queues
      <4>1. CASE v = 0
        <5>1. v <= semval[base + num]
          BY <4>1, <2>2
        <5> QED
          BY <4>1, <5>1, <3>2, <2>2 DEF Covered, base
      <4>2. CASE v # 0
        BY <4>2, <3>2 DEF Covered, base
      <4> QED
        BY <4>1, <4>2
    <3> QED
      BY <3>1, <3>4
  <2>4. CASE num \notin nums
    <3>1. semval'[base + num] = semval[base + num] /\ net'[base + num] = net[base + num]
      BY <2>1, <2>4, <1>1
    <3>2. Adjustments(un_ent', id, num) = Adjustments(un_ent, id, num)
      <4> PICK x, y : x = un_ent /\ y = un_ent'
        OBVIOUS
      <4> HIDE DEF Entries
      <4>1. \A q \in Proc : x[q] \in Seq(Entries)
        BY <1>6 DEF Removed
      <4>2. \A q \in Proc : y[q] \in Seq(Entries)
        BY <1>6 DEF Removed
      <4>3. Beside(num, low, high)
        BY <2>4
      <4>4. \A q \in Proc : Adjustment(y[q], id, num) = Adjustment(x[q], id, num)
        <5>1. \A q \in Proc : \A id2, n : id2 # id \/ Beside(n, low, high) =>
                Adjustment(un_ent'[q], id2, n) = Adjustment(un_ent[q], id2, n)
          BY <1>6 DEF Removed
        <5>2. \A q \in Proc : Adjustment(un_ent'[q], id, num) = Adjustment(un_ent[q], id, num)
          BY <4>3, <5>1
        <5> QED
          BY <5>2
      <4>5. Adjustments(y, id, num) = Adjustments(x, id, num)
        BY <4>1, <4>2, <4>4, AdjustmentsSame
      <4> QED
        BY <4>5
    <3>3. BalanceAt(s, num)
      BY DEF CallInv, BalanceInv
    <3>4. ForGood(s, num) = 0
      BY DEF ForGood
    <3>5. net[base + num] \in Int
      BY <2>1, <1>2 DEF Ranges
    <3>6. semval[base + num] + Adjustments(un_ent, id, num) = net[base + num]
      BY <3>3, <3>4, <3>5 DEF BalanceAt, base
    <3> QED
      BY <3>1, <3>2, <3>6, <2>2 DEF Covered
  <2> QED
    BY <2>3, <2>4
<1>15. Bystanders(p)
  BY <1>5 DEF Bystanders
<1>16. Sets(p, s, queues)
  <2>1. pc'[p] \notin Working \cup {"asleep", "again"}
    BY <1>5 DEF Working
  <2>2. EntriesGo
    BY <1>6 DEF Removed, EntriesGo
  <2>3. block' = block /\ chain' \subseteq chain
    BY <1>6 DEF Removed
  <2>4. Settled(s, queues)
    BY <1>14 DEF Settled, base
  <2>5. Occupied(s)
    BY <1>4
  <2>6. /\ pc[p] \notin Working /\ DOMAIN start' = Proc
        /\ UNCHANGED <<live, seq, sem_base, sem_nsems, semid_lock, block, pushed>>
    BY <2>3
  <2>7. \A q \in Proc \ {p} : pc'[q] = "asleep" => wait[q] \notin queues
    BY <1>5
  <2>8. s \in Slot => Occupied(s) /\ (live[s] => semid_lock[s] = None)
    BY <2>5
  <2> QED
    BY <2>1, <2>2, <2>3, <2>4, <2>6, <2>7, <2>8, <1>11, <1>12, <1>13, <1>15 DEF Sets
<1> QED
  BY <1>16, SetStep

LEMMA SETVALCall ==
  ASSUME IInv, IInv', CallInv, NEW p \in Proc, SETVAL(p)
  PROVE  CallInv'
<1>1. PICK s \in Slot : \E num \in 0 .. sem_nsems[s] - 1, val \in Values :
        /\ live[s] /\ semconv(IdOf(s))
        /\ semunrm(IdOf(s), num, num)
        /\ SetValues(p, IdOf(s), [k \in {num} |-> val])
  BY DEF SETVAL
<1>2. PICK num \in 0 .. sem_nsems[s] - 1, val \in Values :
        /\ live[s] /\ semconv(IdOf(s))
        /\ semunrm(IdOf(s), num, num)
        /\ SetValues(p, IdOf(s), [k \in {num} |-> val])
  BY <1>1
<1>3. /\ pc[p] \notin Working
      /\ UNCHANGED <<live, seq, sem_base, sem_nsems, semid_lock, semid, ops, i, pushed, wait, start>>
  BY DEF SETVAL, setVars, callVars, Working
<1> PICK id : id = IdOf(s)
  OBVIOUS
<1>4. Types /\ Ranges
  BY AtOnce
<1>5. SlotOf(id) = s /\ semid_lock[s] = None
  BY <1>2, <1>4, IdOfSlot DEF semconv, Types
<1> DEFINE nums == {num}
           values == [k \in nums |-> val]
<1>6. /\ nums \in SUBSET (0 .. sem_nsems[s] - 1)
      /\ values \in [nums -> Values]
      /\ num \in Int /\ \A k \in 0 .. sem_nsems[s] - 1 : k \in nums \/ Beside(k, num, num)
      /\ SetValues(p, id, values)
  <2>1. sem_nsems[s] \in Nat
    BY <1>4 DEF Types
  <2> QED
    BY <2>1, <1>2 DEF Beside
<1>7. DOMAIN start' = Proc
  BY <1>3, <1>4 DEF Ranges
<1> HIDE DEF nums, values
<1>8. semunrm(id, num, num) /\ live[s]
  BY <1>2
<1> QED
  BY <1>3, <1>5, <1>6, <1>7, <1>8, SetValuesCall

LEMMA CopiedCall ==
  ASSUME IInv, IInv', CallInv, NEW p \in Proc, Copied(p)
  PROVE  CallInv'
<1> PICK s, id : s = SlotOf(semid[p]) /\ id = semid[p]
  OBVIOUS
<1>1. /\ pc[p] = "setall" /\ Forget(p) /\ semid_lock[s] = None
      /\ UNCHANGED <<live, seq, sem_base, sem_nsems, semid_lock>>
      /\ \/ \E values \in [0 .. sem_nsems[s] - 1 -> Values] :
              /\ semunrm(id, 0, sem_nsems[s])
              /\ SetValues(p, id, values)
         \/ Goto(p, "idle") /\ UNCHANGED <<semval, un_ent, block, chain, net>>
  BY DEF Copied, undoVars
<1>2. Types /\ Ranges
  BY AtOnce
<1>3. s \in Slot /\ live[s] /\ id = IdOf(s)
  BY <1>1 DEF IInv, ProcInv, SetInv, SlotAt, Exists
<1>4. /\ pushed' = pushed /\ DOMAIN start' = Proc
      /\ \A q \in Proc \ {p} : /\ semid'[q] = semid[q] /\ ops'[q] = ops[q] /\ wait'[q] = wait[q]
                               /\ i'[q] = i[q] /\ start'[q] = start[q]
  BY <1>1, <1>2, LocalsForgotten
<1>7. sem_nsems[s] \in Int
  <2>1. sem_nsems \in [Slot -> Nat] /\ s \in Slot
    BY <1>2, <1>3 DEF Types
  <2> QED
    BY <2>1
<1>5. ASSUME NEW values \in [0 .. sem_nsems[s] - 1 -> Values],
             semunrm(id, 0, sem_nsems[s]), SetValues(p, id, values)
      PROVE  CallInv'
  <2> DEFINE nums == 0 .. sem_nsems[s] - 1
  <2>1. /\ nums \in SUBSET (0 .. sem_nsems[s] - 1) /\ values \in [nums -> Values]
        /\ \A k \in 0 .. sem_nsems[s] - 1 : k \in nums \/ Beside(k, 0, sem_nsems[s])
    OBVIOUS
  <2>2. 0 \in Int
    OBVIOUS
  <2>3. pc[p] \notin Working
    BY <1>1 DEF Working
  <2> HIDE DEF nums
  <2> QED
    BY <2>1, <2>2, <2>3, <1>1, <1>3, <1>4, <1>5, <1>7, SetValuesCall
<1>6. ASSUME Goto(p, "idle"), UNCHANGED <<semval, un_ent, block, chain, net>>
      PROVE  CallInv'
  <2>1. pc'[p] = "idle" /\ \A q \in Proc \ {p} : pc'[q] = pc[q]
    BY <1>2, <1>6, Gone DEF Place
  <2>2. Bystanders(p)
    BY <2>1, <1>4 DEF Bystanders
  <2>3. Rests(p)
    BY <2>1, <2>2, <1>1, <1>2, <1>4, <1>6 DEF Rests, Ranges, Working
  <2> QED
    BY <2>3, RestStep
<1> QED
  BY <1>1, <1>5, <1>6

LEMMA CleanUpCall ==
  ASSUME IInv, IInv', CallInv, NEW p \in Proc, CleanUp(p)
  PROVE  CallInv'
<1> PICK s, id : s = SlotAt(p) /\ id = semid[p]
  OBVIOUS
<1> DEFINE queues == {"semncnt_wait", "semzcnt_wait"} \X SemsOf(s)
<1>1. /\ pc[p] = "rmid"
      /\ semunrm(id, 0, sem_nsems[s])
      /\ semval' = [n \in Sem |-> IF n \in SemsOf(s) THEN 0 ELSE semval[n]]
      /\ GotoWaking(p, "rmfree", queues)
      /\ UNCHANGED <<live, seq, sem_base, sem_nsems, semid_lock, semid, ops, i, pushed, wait, start, net>>
  BY DEF CleanUp, SlotAt, setVars, callVars
<1> HIDE DEF queues
<1>2. Types /\ Ranges /\ BoundInv
  BY AtOnce
<1>3. s \in Slot /\ ~live[s] /\ SlotOf(id) = s
  BY <1>1, CallAssumption DEF IInv, ProcInv, RmInv, Rm, SlotAt
<1>4. Occupied(s)
  BY <1>1 DEF Occupied, Removing, SlotAt
<1>5. /\ pc'[p] = "rmfree"
      /\ \A q \in Proc \ {p} : pc'[q] = pc[q] \/ (pc[q] = "asleep" /\ pc'[q] = "again")
      /\ \A q \in Proc \ {p} : pc'[q] = "asleep" => wait[q] \notin queues
  <2>1. "rmfree" \in Place
    BY DEF Place, Rm
  <2> QED
    BY <2>1, <1>1, <1>2, Woken
<1>6. /\ block' = block /\ chain' \subseteq chain /\ EntriesGo
      /\ \A q \in Proc : \A id2, num : id2 # id =>
                Adjustment(un_ent'[q], id2, num) = Adjustment(un_ent[q], id2, num)
  <2>1. BoundInv /\ semunrm(id, 0, sem_nsems[s])
    BY <1>1, <1>2
  <2>2. Removed(id, 0, sem_nsems[s])
    BY <2>1, RemovedAdjustments
  <2> QED
    BY <2>2 DEF Removed, EntriesGo
<1>7. \A t \in Slot : t # s => IdOf(t) # id
  <2>1. \A t \in Slot : SlotOf(IdOf(t)) = t
    BY <1>2, IdOfSlot DEF Types
  <2> QED
    BY <2>1, <1>3
<1>8. /\ semval' \in [Sem -> 0 .. semvmx] /\ net' \in [Sem -> Int]
      /\ \A n \in Sem : n \notin SemsOf(s) => semval'[n] = semval[n] /\ net'[n] = net[n]
  <2>1. 0 \in 0 .. semvmx
    BY InfoAssumption
  <2> QED
    BY <2>1, <1>1, <1>2 DEF Ranges
<1>9. Bystanders(p) /\ DOMAIN start' = Proc
  BY <1>1, <1>2, <1>5 DEF Bystanders, Ranges
<1>10. Sets(p, s, queues)
  <2>1. pc[p] \notin Working /\ pc'[p] \notin Working \cup {"asleep", "again"}
    BY <1>1, <1>5 DEF Working
  <2> QED
    BY <2>1, <1>1, <1>3, <1>4, <1>5, <1>6, <1>7, <1>8, <1>9 DEF Sets, Settled
<1> QED
  BY <1>10, SetStep

-----------------------------------------------------------------------------
(* The last entry of an exiting process is applied, or dropped. *)

LastGoes(p, e) ==
  /\ e.id \in Nat /\ e.num \in Nat /\ e.aoe \in Int /\ SlotOf(e.id) \in Slot
  /\ Exists(e.id) => e.num < sem_nsems[SlotOf(e.id)]
  /\ \A q \in Proc : un_ent[q] \in Seq(Entries) /\ un_ent'[q] \in Seq(Entries)
  /\ EntriesGo /\ \A q \in Proc \ {p} : un_ent'[q] = un_ent[q]
  /\ Adjustment(un_ent[p], e.id, e.num) = e.aoe /\ Adjustment(un_ent'[p], e.id, e.num) = 0
  /\ \A id, num : ~Matches(e, id, num) => Adjustment(un_ent'[p], id, num) = Adjustment(un_ent[p], id, num)

LEMMA LastEntry ==
  ASSUME IInv, BoundInv, NEW p \in Proc, un_ent[p] # <<>>, un_ent' = [un_ent EXCEPT ![p] = Front(@)],
         NEW e, e = Last(un_ent[p])
  PROVE  LastGoes(p, e)
<1>1. un_ent \in [Proc -> Seq(Entries)] /\ un_ent \in [Proc -> Seq(GoodEntry)]
      /\ \A q \in Proc : Len(un_ent[q]) \in Nat
  BY EntriesTyped DEF IInv, EntryInv
<1>2. e \in GoodEntry
  <2> PICK q \in Seq(GoodEntry) : q = un_ent[p]
    BY <1>1
  <2> HIDE DEF GoodEntry
  <2>1. Len(q) \in Nat \ {0}
    BY EmptySeq, LenProperties
  <2>2. \A k \in 1 .. Len(q) : q[k] \in GoodEntry
    BY ElementOfSeq
  <2> QED
    BY <2>1, <2>2 DEF Last
<1>3. /\ e.id \in Nat /\ e.num \in Nat /\ e.aoe \in Int /\ SlotOf(e.id) \in Slot
      /\ (Exists(e.id) => e.num < sem_nsems[SlotOf(e.id)])
  BY <1>2 DEF GoodEntry, Entries, Known
<1>4. \A q \in Proc : Single(un_ent[q]) /\ Bounded(un_ent[q])
  BY DEF BoundInv
<1> HIDE DEF Entries
<1>5. un_ent'[p] = Front(un_ent[p]) /\ \A q \in Proc \ {p} : un_ent'[q] = un_ent[q]
  BY <1>1
<1>6. LET q == un_ent[p]
          r == Front(q)
          f == Last(q) IN
         /\ r \in Seq(Entries) /\ Single(r) /\ Bounded(r)
         /\ Len(q) \in Nat /\ Len(r) = Len(q) - 1
         /\ Adjustment(q, f.id, f.num) = f.aoe /\ Adjustment(r, f.id, f.num) = 0
         /\ \A id, num : ~Matches(f, id, num) => Adjustment(r, id, num) = Adjustment(q, id, num)
  BY <1>1, <1>4, FrontKeeps
<1>7. /\ un_ent'[p] \in Seq(Entries) /\ Single(un_ent'[p]) /\ Bounded(un_ent'[p])
      /\ Len(un_ent'[p]) <= Len(un_ent[p])
      /\ Adjustment(un_ent[p], e.id, e.num) = e.aoe /\ Adjustment(un_ent'[p], e.id, e.num) = 0
      /\ \A id, num : ~Matches(e, id, num) => Adjustment(un_ent'[p], id, num) = Adjustment(un_ent[p], id, num)
  BY <1>5, <1>6
<1>8. EntriesGo
  <2>1. ASSUME NEW q \in Proc
        PROVE  /\ Single(un_ent'[q]) /\ Bounded(un_ent'[q]) /\ Len(un_ent'[q]) <= Len(un_ent[q])
               /\ un_ent'[q] # <<>> => un_ent[q] # <<>>
    <3>1. CASE q = p
      BY <3>1, <1>7
    <3>2. CASE q # p
      BY <3>2, <1>1, <1>4, <1>5
    <3> QED
      BY <3>1, <3>2
  <2> QED
    BY <2>1 DEF EntriesGo
<1>9. \A q \in Proc : un_ent[q] \in Seq(Entries) /\ un_ent'[q] \in Seq(Entries)
  BY <1>1, <1>5, <1>7
<1> QED
  BY <1>3, <1>5, <1>7, <1>8, <1>9 DEF LastGoes

(* What the adjustments lose. *)
Falls(e, num) ==
  /\ Adjustments(un_ent, e.id, num) \in Int
  /\ num = e.num => Adjustments(un_ent', e.id, num) = Adjustments(un_ent, e.id, num) + (-e.aoe)
  /\ num # e.num => Adjustments(un_ent', e.id, num) = Adjustments(un_ent, e.id, num)

LEMMA LastSums ==
  ASSUME NEW p \in Proc, NEW e, LastGoes(p, e), NEW num
  PROVE  Falls(e, num)
<1> PICK u, v, id : u = un_ent /\ v = un_ent' /\ id = e.id
  OBVIOUS
<1>1. \A q \in Proc : u[q] \in Seq(Entries)
  BY DEF LastGoes
<1>2. \A q \in Proc : v[q] \in Seq(Entries)
  BY DEF LastGoes
<1>3. \A q \in Proc \ {p} : v[q] = u[q]
  BY DEF LastGoes
<1>4. e.aoe \in Int
  BY DEF LastGoes
<1> HIDE DEF Entries
<1>5. Adjustments(u, id, num) \in Int
  BY <1>1, AdjustmentsInt
<1>6. ASSUME num = e.num
      PROVE  Adjustments(v, id, num) = Adjustments(u, id, num) + (-e.aoe)
  <2>1. \A q \in Proc \ {p} : Adjustment(v[q], id, num) = Adjustment(u[q], id, num)
    BY <1>3
  <2>2. Adjustments(v, id, num)
          = Adjustments(u, id, num) + Adjustment(v[p], id, num) - Adjustment(u[p], id, num)
    BY <1>1, <1>2, <2>1, AdjustmentsChange
  <2>3. Adjustment(v[p], id, num) = 0 /\ Adjustment(u[p], id, num) = e.aoe
    BY <1>6 DEF LastGoes
  <2>4. \A a, b, c \in Int : b = a + 0 - c => b = a + (-c)
    OBVIOUS
  <2> QED
    BY <2>2, <2>3, <1>4, <1>5
<1>7. ASSUME num # e.num
      PROVE  Adjustments(v, id, num) = Adjustments(u, id, num)
  <2>1. ~Matches(e, id, num)
    BY <1>7 DEF Matches
  <2>2. \A q \in Proc : Adjustment(v[q], id, num) = Adjustment(u[q], id, num)
    <3>1. \A q \in Proc \ {p} : Adjustment(v[q], id, num) = Adjustment(u[q], id, num)
      BY <1>3
    <3>2. Adjustment(v[p], id, num) = Adjustment(u[p], id, num)
      BY <2>1 DEF LastGoes
    <3> QED
      BY <3>1, <3>2
  <2> QED
    BY <1>1, <1>2, <2>2, AdjustmentsSame
<1> QED
  BY <1>5, <1>6, <1>7 DEF Falls

(* A value moves by x, what it comes to in the end by y. *)
Shifts(n, x, y, aoe, queues, s, num) ==
  /\ x \in Int /\ y \in Int /\ x - y = aoe
  /\ \A k \in Sem : semval'[k] = IF k = n THEN semval[k] + x ELSE semval[k]
  /\ \A k \in Sem : net'[k] = IF k = n THEN net[k] + y ELSE net[k]
  /\ semval[n] + x \in 0 .. semvmx
  /\ x > 0 => <<"semncnt_wait", sem_base[s] + num>> \in queues
  /\ x # 0 /\ semval[n] + x = 0 => <<"semzcnt_wait", sem_base[s] + num>> \in queues

(* Where an entry belongs. *)
EntryAt(e, s, n) == s = SlotOf(e.id) /\ n = sem_base[s] + e.num

LEMMA AdjustAt ==
  ASSUME IInv, IInv', CallInv, NEW p \in Proc, pc[p] = "exit", pc'[p] = "exit", NEW e, LastGoes(p, e),
         semconv(e.id), NEW s, NEW n, EntryAt(e, s, n),
         NEW queues, NEW x, NEW y, Shifts(n, x, y, e.aoe, queues, s, e.num),
         semval' \in [Sem -> Int], net' \in [Sem -> Int],
         Bystanders(p), \A q \in Proc \ {p} : pc'[q] = "asleep" => wait[q] \notin queues,
         UNCHANGED <<live, seq, sem_base, sem_nsems, semid_lock, block, chain, pushed, start>>
  PROVE  CallInv'
<1>1. Types /\ Ranges
  BY AtOnce
<1>2. /\ s \in Slot /\ live[s] /\ semid_lock[s] = None /\ IdOf(s) = e.id /\ Occupied(s)
      /\ SemsOf(s) \subseteq Sem
  BY DEF LastGoes, semconv, Exists, Occupied, IInv, SetsInv, EntryAt
<1>3. sem_base[s] \in Nat /\ sem_nsems[s] \in Nat
  BY <1>1, <1>2 DEF Types
<1>4. e.num \in 0 .. sem_nsems[s] - 1 /\ e.aoe \in Int /\ e.num \in Nat
  <2>1. e.num \in Nat /\ e.num < sem_nsems[s] /\ e.aoe \in Int
    BY DEF LastGoes, semconv, EntryAt
  <2> QED
    BY <2>1, <1>3
<1>0. PICK b, own : b = sem_base[s] /\ own = 0 .. sem_nsems[s] - 1
  OBVIOUS
<1>5. b \in Nat /\ \A num \in own : num \in Nat /\ b + num \in SemsOf(s)
  BY <1>0, <1>3 DEF SemsOf
<1>16. e.num \in own
  BY <1>0, <1>4
<1>6. n = b + e.num /\ n \in SemsOf(s) /\ n \in Sem /\ semval[n] \in 0 .. semvmx
  <2>1. n = b + e.num
    BY <1>0 DEF EntryAt
  <2> QED
    BY <2>1, <1>1, <1>2, <1>5, <1>16 DEF Ranges
<1>7. /\ x \in Int /\ y \in Int /\ x - y = e.aoe /\ semval[n] + x \in 0 .. semvmx
      /\ semval'[n] = semval[n] + x /\ net'[n] = net[n] + y
      /\ \A k \in Sem : k # n => semval'[k] = semval[k] /\ net'[k] = net[k]
  BY <1>6 DEF Shifts
<1>8. /\ x > 0 => <<"semncnt_wait", b + e.num>> \in queues
      /\ x # 0 /\ semval[n] + x = 0 => <<"semzcnt_wait", b + e.num>> \in queues
  BY <1>0 DEF Shifts
<1>9. semval' \in [Sem -> 0 .. semvmx]
  BY <1>1, <1>7 DEF Ranges
<1>10. \A t \in Slot : t # s => \A q \in Proc : \A num :
         Adjustment(un_ent'[q], IdOf(t), num) = Adjustment(un_ent[q], IdOf(t), num)
  <2>1. \A t \in Slot : SlotOf(IdOf(t)) = t
    BY <1>1, IdOfSlot DEF Types
  <2>2. \A t \in Slot : t # s => IdOf(t) # e.id
    BY <2>1 DEF EntryAt
  <2> QED
    BY <2>2 DEF LastGoes, Matches
<1> PICK id : id = e.id
  OBVIOUS
<1>11. \A num \in own : Falls(e, num)
  BY LastSums
<1>12. ASSUME NEW num \in own
       PROVE  semval'[b + num] + Adjustments(un_ent', id, num) = net'[b + num]
  <2>0. PICK total, m : total = Adjustments(un_ent, id, num) /\ m = b + num
    OBVIOUS
  <2>1. m \in Sem /\ semval[m] \in Int /\ net[m] \in Int /\ total \in Int
    BY <2>0, <1>0, <1>1, <1>2, <1>5, <1>11 DEF Ranges, Falls
  <2>2. semval[m] + total = net[m]
    <3>1. BalanceAt(s, num)
      BY <1>0, <1>2 DEF CallInv, BalanceInv
    <3>2. ForGood(s, num) = 0
      BY <1>2 DEF ForGood
    <3> QED
      BY <3>1, <3>2, <2>0, <2>1, <1>0, <1>2 DEF BalanceAt
  <2>3. CASE num = e.num
    <3>1. m = n
      BY <2>0, <2>3, <1>6
    <3>2. Adjustments(un_ent', id, num) = total + (-e.aoe)
      BY <2>0, <2>3, <1>11 DEF Falls
    <3>3. \A val, sum, end, in, out, a \in Int :
            val + sum = end /\ in - out = a => val + in + (sum + (-a)) = end + out
      OBVIOUS
    <3>4. x \in Int /\ y \in Int /\ x - y = e.aoe /\ e.aoe \in Int
      BY <1>4, <1>7
    <3>5. semval[m] + x + (total + (-e.aoe)) = net[m] + y
      <4>1. PICK val \in Int, end \in Int, a \in Int :
              val = semval[m] /\ end = net[m] /\ a = e.aoe
        BY <2>1, <3>4
      <4>2. val + total = end /\ x - y = a /\ total \in Int /\ x \in Int /\ y \in Int
        BY <2>1, <2>2, <3>4, <4>1
      <4>3. val + x + (total + (-a)) = end + y
        BY <3>3, <4>2
      <4> QED
        BY <4>1, <4>3
    <3>6. semval'[m] = semval[m] + x /\ net'[m] = net[m] + y
      BY <3>1, <1>7
    <3> QED
      BY <2>0, <3>2, <3>5, <3>6
  <2>4. CASE num # e.num
    <3>1. m # n
      BY <2>0, <2>4, <1>4, <1>5, <1>6
    <3>2. Adjustments(un_ent', id, num) = total
      BY <2>0, <2>4, <1>11 DEF Falls
    <3> QED
      BY <2>0, <3>1, <3>2, <2>1, <2>2, <1>7
  <2> QED
    BY <2>3, <2>4
<1>13. ASSUME NEW num \in own
       PROVE  Covered(s, num, semval'[b + num], queues)
  <2>1. b + num \in Sem
    BY <1>2, <1>5
  <2>2. Seen(s, num, semval[b + num]) /\ semval[b + num] \in 0 .. semvmx
    BY <1>0, <2>1, <1>1, <1>2 DEF Seen, Ranges
  <2>3. CASE num # e.num \/ x = 0
    <3>1. semval'[b + num] = semval[b + num]
      <4>1. CASE num # e.num
        <5>1. b + num # n
          BY <4>1, <1>4, <1>5, <1>6
        <5> QED
          BY <5>1, <2>1, <1>7
      <4>2. CASE num = e.num /\ x = 0
        BY <4>2, <2>2, <1>6, <1>7
      <4> QED
        BY <2>3, <4>1, <4>2
    <3> QED
      BY <1>0, <3>1, <2>2 DEF Covered
  <2>4. CASE num = e.num /\ x # 0
    <3> PICK v : v = semval'[b + num]
      OBVIOUS
    <3>1. v = semval[n] + x
      BY <2>4, <1>6, <1>7
    <3>2. v # 0 \/ <<"semzcnt_wait", b + num>> \in queues
      BY <3>1, <2>4, <1>8
    <3>3. \/ \E u \in 0 .. semvmx : Seen(s, num, u) /\ v <= u
          \/ <<"semncnt_wait", b + num>> \in queues
      <4>1. CASE x > 0
        BY <4>1, <2>4, <1>8
      <4>2. CASE x < 0
        <5>1. v <= semval[n] /\ semval[n] = semval[b + num]
          BY <4>2, <3>1, <2>4, <1>6, <1>7
        <5> QED
          BY <5>1, <2>2
      <4>3. x > 0 \/ x < 0
        BY <2>4, <1>7
      <4> QED
        BY <4>1, <4>2, <4>3
    <3> QED
      BY <1>0, <3>2, <3>3 DEF Covered
  <2> QED
    BY <2>3, <2>4
<1>14. Settled(s, queues)
  BY <1>0, <1>2, <1>12, <1>13 DEF Settled
<1>15. Sets(p, s, queues)
  <2>1. pc[p] \notin Working /\ pc'[p] \notin Working \cup {"asleep", "again"}
    BY DEF Working
  <2>2. EntriesGo
    BY DEF LastGoes
  <2>3. s \in Slot => Occupied(s) /\ (live[s] => semid_lock[s] = None)
    BY <1>2
  <2>4. \A k \in Sem : k \notin SemsOf(s) => semval'[k] = semval[k] /\ net'[k] = net[k]
    BY <1>6, <1>7
  <2>5. DOMAIN start' = Proc
    BY <1>1 DEF Ranges
  <2>6. chain' \subseteq chain
    OBVIOUS
  <2>7. \A t \in Slot : t # s /\ live[t] => \A q \in Proc : \A num \in Int :
          Adjustment(un_ent'[q], IdOf(t), num) = Adjustment(un_ent[q], IdOf(t), num)
    BY <1>10
  <2>8. \A k \in Sem : s \notin Slot \/ k \notin SemsOf(s) =>
                       semval'[k] = semval[k] /\ net'[k] = net[k]
    BY <2>4, <1>2
  <2>9. \A q \in Proc \ {p} : pc'[q] = "asleep" => wait[q] \notin queues
    OBVIOUS
  <2>10. Bystanders(p)
    OBVIOUS
  <2>11. UNCHANGED <<live, seq, sem_base, sem_nsems, semid_lock, block, pushed>>
    OBVIOUS
  <2>12. semval' \in [Sem -> 0 .. semvmx] /\ net' \in [Sem -> Int]
    BY <1>9
  <2> QED
    BY <2>1, <2>2, <2>3, <2>5, <2>6, <2>7, <2>8, <2>9, <2>10, <2>11, <2>12, <1>14 DEF Sets
<1> QED
  BY <1>15, SetStep

LEMMA AdjustCall ==
  ASSUME IInv, IInv', CallInv, NEW p \in Proc, Adjust(p)
  PROVE  CallInv'
<1>1. PICK e : e = Last(un_ent[p])
  OBVIOUS
<1>2. PICK n : n = SemOf(e.id, e.num)
  OBVIOUS
<1>3. PICK v : v = semval[n] + e.aoe
  OBVIOUS
<1>4. PICK queues : queues = (IF v = 0 THEN {<<"semzcnt_wait", n>>} ELSE {}) \cup
                             (IF e.aoe > 0 THEN {<<"semncnt_wait", n>>} ELSE {})
  OBVIOUS
<1>5. /\ pc[p] = "exit" /\ un_ent[p] # <<>>
      /\ un_ent' = [un_ent EXCEPT ![p] = Front(@)]
      /\ UNCHANGED <<live, seq, sem_base, sem_nsems, semid_lock, block, chain>>
      /\ UNCHANGED <<semid, ops, i, pushed, wait, start>>
  BY DEF Adjust, setVars, callVars
<1>6. \/ ~Exists(e.id) /\ UNCHANGED <<semval, pc, net>>
      \/ /\ semconv(e.id) /\ net' = [net EXCEPT ![n] = @ - e.aoe]
         /\ UNCHANGED <<semval, pc>>
      \/ /\ semconv(e.id) /\ v \in 0 .. semvmx /\ semval' = [semval EXCEPT ![n] = v]
         /\ GotoWaking(p, "exit", queues) /\ net' = net
  BY <1>1, <1>2, <1>3, <1>4 DEF Adjust
<1>7. Types /\ Ranges /\ BoundInv
  BY AtOnce
<1>8. LastGoes(p, e)
  BY <1>1, <1>5, <1>7, LastEntry
<1>9. e.id \in Nat /\ e.num \in Nat /\ e.aoe \in Int /\ SlotOf(e.id) \in Slot
  BY <1>8 DEF LastGoes
<1>10. PICK s : s = SlotOf(e.id)
  OBVIOUS
<1>11. EntryAt(e, s, n)
  BY <1>2, <1>10 DEF EntryAt, SemOf
<1>12. DOMAIN start' = Proc
  BY <1>5, <1>7 DEF Ranges
<1>13. ASSUME ~Exists(e.id), UNCHANGED <<semval, pc, net>> PROVE CallInv'
  <2>1. PICK s0 : s0 = -1
    OBVIOUS
  <2>2. s0 \notin Slot
    BY <2>1 DEF Slot
  <2>3. Bystanders(p)
    BY <1>5, <1>13 DEF Bystanders
  <2>4. \A t \in Slot : live[t] => IdOf(t) # e.id
    <3>1. \A t \in Slot : SlotOf(IdOf(t)) = t
      BY <1>7, IdOfSlot DEF Types
    <3> QED
      BY <3>1, <1>13 DEF Exists
  <2>5. \A t \in Slot : t # s0 /\ live[t] => \A q \in Proc : \A num \in Int :
          Adjustment(un_ent'[q], IdOf(t), num) = Adjustment(un_ent[q], IdOf(t), num)
    BY <2>4, <1>8 DEF LastGoes, Matches
  <2>6. EntriesGo
    BY <1>8 DEF LastGoes
  <2>7. semval' \in [Sem -> 0 .. semvmx] /\ net' \in [Sem -> Int]
        /\ \A k \in Sem : semval'[k] = semval[k] /\ net'[k] = net[k]
    BY <1>7, <1>13 DEF Ranges
  <2>8. pc[p] \notin Working /\ pc'[p] \notin Working \cup {"asleep", "again"}
    BY <1>5, <1>13 DEF Working
  <2>9. Settled(s0, {})
    BY <2>2 DEF Settled
  <2>10. /\ UNCHANGED <<live, seq, sem_base, sem_nsems, semid_lock, block, pushed>>
         /\ chain' \subseteq chain
    BY <1>5
  <2>11. Sets(p, s0, {})
    BY <2>2, <2>3, <2>5, <2>6, <2>7, <2>8, <2>9, <2>10, <1>12 DEF Sets
  <2> QED
    BY <2>11, SetStep
<1>14. ASSUME semconv(e.id)
       PROVE  n \in Sem /\ semval[n] \in 0 .. semvmx /\ semval[n] \in Int /\ net[n] \in Int
  <2>1. e.num < sem_nsems[s] /\ live[s] /\ s \in Slot
    BY <1>8, <1>9, <1>10, <1>14 DEF LastGoes, semconv, Exists
  <2>2. sem_base[s] \in Nat /\ sem_nsems[s] \in Nat
    BY <2>1, <1>7 DEF Types
  <2>3. n \in SemsOf(s)
    BY <2>1, <2>2, <1>9, <1>11 DEF SemsOf, EntryAt
  <2>4. SemsOf(s) \subseteq Sem
    BY <2>1 DEF IInv, SetsInv, Occupied
  <2>5. semvmx \in Nat
    BY InfoAssumption
  <2> QED
    BY <2>3, <2>4, <2>5, <1>7 DEF Ranges
<1>15. PICK aoe \in Int : aoe = e.aoe
  BY <1>9
<1>16. ASSUME semconv(e.id), net' = [net EXCEPT ![n] = @ - e.aoe], UNCHANGED <<semval, pc>>
       PROVE  CallInv'
  <2>1. PICK x \in Int, y \in Int : x = 0 /\ y = -aoe
    OBVIOUS
  <2>2. PICK val \in Int, end \in Int : val = semval[n] /\ end = net[n]
    BY <1>14, <1>16
  <2>3. x - y = aoe /\ end - aoe = end + y /\ val + x = val
    BY <2>1
  <2>4. net' = [net EXCEPT ![n] = end + y]
    BY <2>2, <2>3, <1>15, <1>16
  <2>5. end + y \in Int
    OBVIOUS
  <2>6. /\ net' \in [Sem -> Int] /\ semval' \in [Sem -> Int]
        /\ \A k \in Sem : net'[k] = IF k = n THEN end + y ELSE net[k]
    BY <2>4, <2>5, <1>7, <1>14, <1>16 DEF Ranges, Types
  <2>7. \A k \in Sem : semval'[k] = semval[k]
    BY <1>16
  <2>8. ~(x > 0) /\ x = 0
    BY <2>1
  <2>9. semval[n] + x = val /\ net[n] + y = end + y
    BY <2>2, <2>3
  <2>10. semval[n] + x \in 0 .. semvmx
    BY <2>2, <2>9, <1>14, <1>16
  <2>13. PICK none : none = {}
    OBVIOUS
  <2>11. Shifts(n, x, y, e.aoe, none, s, e.num)
    <3>1. \A k \in Sem : semval'[k] = IF k = n THEN semval[k] + x ELSE semval[k]
      BY <2>2, <2>7, <2>9
    <3>2. \A k \in Sem : net'[k] = IF k = n THEN net[k] + y ELSE net[k]
      BY <2>6, <2>9
    <3>3. x - y = e.aoe
      BY <2>3, <1>15
    <3> QED
      BY <3>1, <3>2, <3>3, <2>8, <2>10 DEF Shifts
  <2>12. pc'[p] = "exit" /\ Bystanders(p) /\ \A q \in Proc \ {p} : pc'[q] = "asleep" => wait[q] \notin none
    BY <2>13, <1>5, <1>16 DEF Bystanders
  <2> QED
    BY <2>6, <2>11, <2>12, <1>5, <1>8, <1>11, <1>16, AdjustAt
<1>17. ASSUME semconv(e.id), v \in 0 .. semvmx, semval' = [semval EXCEPT ![n] = v],
              GotoWaking(p, "exit", queues), net' = net
       PROVE  CallInv'
  <2>1. PICK x \in Int, y \in Int : x = aoe /\ y = 0
    OBVIOUS
  <2>2. PICK val \in Int, end \in Int : val = semval[n] /\ end = net[n]
    BY <1>14, <1>17
  <2>3. x - y = aoe /\ end + y = end /\ v = val + x /\ v \in Int
    <3>1. x - y = aoe /\ end + y = end
      BY <2>1
    <3>2. v = val + x
      BY <2>1, <2>2, <1>3, <1>15
    <3> QED
      BY <3>1, <3>2
  <2>4. /\ net' \in [Sem -> Int] /\ semval' \in [Sem -> Int]
        /\ \A k \in Sem : semval'[k] = IF k = n THEN v ELSE semval[k]
    BY <2>3, <1>7, <1>17 DEF Ranges, Types
  <2>5. \A k \in Sem : net'[k] = net[k]
    BY <1>17
  <2>6. semval[n] + x = v /\ net[n] + y = end
    BY <2>2, <2>3
  <2>7. n = sem_base[s] + e.num
    BY <1>11 DEF EntryAt
  <2>8. /\ x > 0 => <<"semncnt_wait", n>> \in queues
        /\ v = 0 => <<"semzcnt_wait", n>> \in queues
    <3>1. x = e.aoe
      BY <2>1, <1>15
    <3> QED
      BY <3>1, <1>4
  <2>9. Shifts(n, x, y, e.aoe, queues, s, e.num)
    <3>1. \A k \in Sem : semval'[k] = IF k = n THEN semval[k] + x ELSE semval[k]
      BY <2>4, <2>6
    <3>2. \A k \in Sem : net'[k] = IF k = n THEN net[k] + y ELSE net[k]
      BY <2>2, <2>5, <2>6
    <3>3. x - y = e.aoe
      BY <2>3, <1>15
    <3>4. semval[n] + x \in 0 .. semvmx
      BY <2>6, <1>17
    <3>5. /\ x > 0 => <<"semncnt_wait", sem_base[s] + e.num>> \in queues
          /\ semval[n] + x = 0 => <<"semzcnt_wait", sem_base[s] + e.num>> \in queues
      BY <2>6, <2>7, <2>8
    <3> QED
      BY <3>1, <3>2, <3>3, <3>4, <3>5 DEF Shifts
  <2>10. /\ pc'[p] = "exit"
         /\ \A q \in Proc \ {p} : pc'[q] = pc[q] \/ (pc[q] = "asleep" /\ pc'[q] = "again")
         /\ \A q \in Proc \ {p} : pc'[q] = "asleep" => wait[q] \notin queues
    <3>1. "exit" \in Place
      BY DEF Place
    <3> QED
      BY <3>1, <1>7, <1>17, Woken
  <2>11. Bystanders(p)
    BY <2>10, <1>5 DEF Bystanders
  <2> QED
    BY <2>4, <2>9, <2>10, <2>11, <1>5, <1>8, <1>11, <1>17, AdjustAt
<1> QED
  BY <1>6, <1>13, <1>16, <1>17

-----------------------------------------------------------------------------
(* A new set: its semaphores are zero, and nobody knows it. *)

LEMMA NewSet ==
  ASSUME IInv, NEW s \in Slot, ~live[s], NEW num
  PROVE  /\ Adjustments(un_ent, IdOf(s), num) = 0
         /\ \A p \in Proc : pc[p] \in {"asleep", "again"} => semid[p] # IdOf(s)
<1> PICK id, u : id = IdOf(s) /\ u = un_ent
  OBVIOUS
<1>1. SlotOf(id) = s
  BY IdOfSlot DEF IInv, Types
<1>2. ~Known(id)
  BY <1>1 DEF Known
<1>3. \A q \in Proc : u[q] \in Seq(GoodEntry)
  BY DEF IInv, EntryInv
<1>4. \A q \in Proc : u[q] \in Seq(Entries)
  BY EntriesTyped DEF IInv
<1>5. \A e \in GoodEntry : e.id # id
  BY <1>2 DEF GoodEntry
<1> HIDE DEF GoodEntry, Entries
<1>6. ASSUME NEW q \in Proc PROVE Adjustment(u[q], id, num) = 0
  <2>1. Len(u[q]) \in Nat /\ \A k \in 1 .. Len(u[q]) : u[q][k] \in GoodEntry
    BY <1>3, LenProperties, ElementOfSeq
  <2>2. \A k \in 1 .. Len(u[q]) : ~Matches(u[q][k], id, num)
    BY <2>1, <1>5 DEF Matches
  <2> QED
    BY <2>2, <1>4, NoAdjustment
<1>7. Adjustments(u, id, num) = 0
  BY <1>4, <1>6, AdjustmentsZero
<1>8. \A p \in Proc : pc[p] \in {"asleep", "again"} => semid[p] # id
  BY <1>2 DEF IInv, ProcInv, SleepInv
<1> QED
  BY <1>7, <1>8

LEMMA semgetCall ==
  ASSUME IInv, IInv', CallInv, NEW p \in Proc, semget(p)
  PROVE  CallInv'
<1>1. PICK s \in Slot, n \in Sizes :
        LET got == rmalloc(freemap, n) IN
        /\ ~live[s]
        /\ got.addr # 0
        /\ semid_lock[s] = None
        /\ live' = [live EXCEPT ![s] = TRUE]
        /\ sem_base' = [sem_base EXCEPT ![s] = got.addr]
        /\ sem_nsems' = [sem_nsems EXCEPT ![s] = n]
        /\ net' = [m \in Sem |-> IF m \in got.addr .. got.addr + n - 1 THEN 0 ELSE net[m]]
  BY DEF semget
<1>2. PICK addr, units : addr = rmalloc(freemap, n).addr /\ units = addr .. addr + n - 1
  OBVIOUS
<1>3. /\ ~live[s] /\ semid_lock[s] = None
      /\ live' = [live EXCEPT ![s] = TRUE]
      /\ sem_base' = [sem_base EXCEPT ![s] = addr]
      /\ sem_nsems' = [sem_nsems EXCEPT ![s] = n]
      /\ net' = [m \in Sem |-> IF m \in units THEN 0 ELSE net[m]]
  BY <1>1, <1>2
<1>4. /\ pc[p] = "idle"
      /\ UNCHANGED <<seq, semid_lock, semval, un_ent, block, chain, pc>>
      /\ UNCHANGED <<semid, ops, i, pushed, wait, start>>
  BY DEF semget, undoVars, callVars
<1>5. Types /\ Ranges /\ BoundInv /\ BalanceInv
  BY AtOnce DEF CallInv
<1>6. n \in Nat \ {0}
  <2>1. n \in 1 .. semmns
    BY CallAssumption
  <2>2. semmns \in Nat
    BY InfoAssumption
  <2> QED
    BY <2>1, <2>2
<1>7. addr \in Nat \ {0} /\ units \subseteq Units(freemap) /\ units \subseteq Sem
  <2>1. IsMap(freemap) /\ Len(freemap) <= semmap - 2 /\ Units(freemap) \subseteq Sem
    BY DEF IInv, MapInv
  <2>2. addr \in Nat \ {0} /\ units \subseteq Units(freemap)
    BY <2>1, <1>1, <1>2, <1>6, RmallocMap
  <2> QED
    BY <2>1, <2>2
<1>8. \A t \in Slot : t # s => live'[t] = live[t] /\ sem_base'[t] = sem_base[t]
                               /\ sem_nsems'[t] = sem_nsems[t]
  BY <1>3, <1>5 DEF Types
<1>9. live'[s] /\ sem_base'[s] = addr /\ sem_nsems'[s] = n
  BY <1>3, <1>5 DEF Types
<1>10. \A m \in Sem : net'[m] = IF m \in units THEN 0 ELSE net[m]
  BY <1>3
<1>11. Bystanders(p)
  BY <1>4 DEF Bystanders
<1>12. Apart(p, s)
  <2>1. UndoShrinks(p)
    <3>1. \A q \in Proc : Len(un_ent[q]) \in Nat
      BY EntriesTyped DEF IInv
    <3> QED
      BY <3>1, <1>4 DEF UndoShrinks
  <2>2. ASSUME NEW t \in Slot, t # s, live'[t] PROVE Same(t)
    <3>1. live[t]
      BY <2>2, <1>8
    <3>2. SemsOf(t) \subseteq Sem /\ SemsOf(t) \cap Units(freemap) = {}
      BY <3>1 DEF IInv, SetsInv, Occupied
    <3>3. \A m \in SemsOf(t) : net'[m] = net[m]
      BY <3>2, <1>7, <1>10
    <3> QED
      BY <3>1, <3>3, <2>2, <1>4, <1>8 DEF Same
  <2>3. pc[p] \notin Working
    BY <1>4 DEF Working
  <2> QED
    BY <2>1, <2>2, <2>3, <1>3, <1>11 DEF Apart
<1>13. LockAt(p, s)
  BY <1>3, <1>4 DEF LockAt
<1>14. \A q \in Proc : Bounded(un_ent'[q]) /\ Single(un_ent'[q])
  BY <1>4, <1>5 DEF BoundInv
<1>15. RunInv(p)'
  BY <1>4 DEF RunInv, Working
<1>16. PushInv(p)'
  <2>1. PushInv(p)
    BY <1>5 DEF BoundInv
  <2>2. ~pushed[p] /\ (un_ent[p] # <<>> => p \in block)
    BY <2>1, <1>4 DEF PushInv, Working
  <2> QED
    BY <2>2, <1>4 DEF PushInv
<1>17. Ranges'
  <2>1. net' \in [Sem -> Int]
    BY <1>3, <1>5 DEF Ranges
  <2> QED
    BY <2>1, <1>4, <1>5 DEF Ranges
<1>18. ASSUME NEW num \in 0 .. sem_nsems'[s] - 1 PROVE BalanceAt(s, num)'
  <2>1. num \in 0 .. n - 1
    BY <1>9
  <2>2. addr + num \in units
    BY <2>1, <1>2, <1>6, <1>7
  <2>3. semval[addr + num] = 0 /\ net'[addr + num] = 0
    BY <2>2, <1>7, <1>10 DEF IInv, ZeroInv
  <2>4. PICK id : id = IdOf(s)
    OBVIOUS
  <2>5. IdOf(s)' = id
    BY <2>4, <1>4 DEF IdOf
  <2>6. Adjustments(un_ent, id, num) = 0
    BY <2>4, <1>3, NewSet
  <2>7. ForGood(s, num)' = 0
    BY <1>3, <1>4 DEF ForGood
  <2>8. semval'[addr + num] = 0 /\ Adjustments(un_ent', id, num) = 0
    BY <2>3, <2>6, <1>4
  <2>9. 0 + 0 = 0 + 0
    OBVIOUS
  <2>10. sem_base'[s] + num = addr + num
    BY <1>9
  <2> QED
    BY <2>3, <2>5, <2>7, <2>8, <2>9, <2>10 DEF BalanceAt
<1>19. ASSUME NEW q \in Proc \ {p}, pc'[q] = "asleep", SlotAt(q) = s, Exists(semid[q])'
       PROVE  FALSE
  <2>1. pc[q] = "asleep"
    BY <1>4, <1>19
  <2>2. IdOf(s)' = IdOf(s)
    BY <1>4 DEF IdOf
  <2>3. semid[q] = IdOf(s)
    BY <2>2, <1>4, <1>19 DEF Exists, SlotAt, SlotOf
  <2> QED
    BY <2>1, <2>3, <1>3, NewSet
<1>20. WaitInv(p)' /\ pc'[p] \notin Working \cup {"asleep", "again"}
  BY <1>4 DEF WaitInv, Working
<1> QED
  BY <1>12, <1>13, <1>14, <1>15, <1>16, <1>17, <1>18, <1>19, <1>20, CallStep

-----------------------------------------------------------------------------

LEMMA InitCall == Init => CallInv
<1> SUFFICES ASSUME Init PROVE CallInv
  OBVIOUS
<1>1. /\ \A s \in Slot : ~live[s]
      /\ \A p \in Proc : un_ent[p] = <<>> /\ pc[p] = "idle" /\ ~pushed[p] /\ wait[p] = None
  BY DEF Init
<1>2. \A p \in Proc : Bounded(un_ent[p]) /\ Single(un_ent[p])
  <2>1. Bounded(<<>>) /\ Single(<<>>)
    BY InfoAssumption DEF Bounded, Single
  <2> QED
    BY <2>1, <1>1
<1>3. \A p \in Proc : RunInv(p) /\ PushInv(p)
  BY <1>1 DEF RunInv, PushInv, Working
<1>4. LockInv /\ BalanceInv
  BY <1>1 DEF LockInv, BalanceInv
<1>5. Ranges
  <2>1. 0 \in 0 .. semvmx /\ 0 \in 0 .. MaxSeq /\ 0 <= semmnu
    BY InfoAssumption
  <2>2. Cardinality({}) = 0
    BY FS_EmptySet
  <2> QED
    BY <2>1, <2>2 DEF Ranges, Init
<1>6. WakeInv
  BY <1>1 DEF WakeInv, ListInv, WaitInv, Working
<1> QED
  BY <1>2, <1>3, <1>4, <1>5, <1>6 DEF CallInv, BoundInv

LEMMA StillCall ==
  ASSUME IInv, CallInv, UNCHANGED vars
  PROVE  CallInv'
<1>1. /\ live' = live /\ seq' = seq /\ sem_base' = sem_base /\ sem_nsems' = sem_nsems
      /\ semid_lock' = semid_lock /\ semval' = semval /\ net' = net
      /\ un_ent' = un_ent /\ block' = block /\ chain' = chain
      /\ pc' = pc /\ semid' = semid /\ ops' = ops /\ i' = i /\ pushed' = pushed
      /\ wait' = wait /\ start' = start
  BY DEF vars, setVars, undoVars, callVars
<1>2. Ranges' = Ranges
  BY <1>1 DEF Ranges
<1>3. LockInv' = LockInv
  BY <1>1 DEF LockInv, SlotAt, SlotOf
<1>4. \A p \in Proc : PushInv(p)' = PushInv(p)
  BY <1>1 DEF PushInv, Current, CurrentSem, SemOf, SlotOf, CanAdjust
<1>5. /\ \A p, num, k : ValAt(p, num, k)' = ValAt(p, num, k)
      /\ \A p, num, k : AdjAt(p, num, k)' = AdjAt(p, num, k)
      /\ \A p : Own(p)' = Own(p) /\ Done(p)' = Done(p)
      /\ \A id, num : SemOf(id, num)' = SemOf(id, num)
  BY <1>1 DEF ValAt, AdjAt, Own, Done, SlotAt, SlotOf, SemOf
<1>6. \A p, k : Adjusted(p, k)' = Adjusted(p, k)
  BY <1>5 DEF Adjusted
<1>7. ASSUME NEW p, NEW d, Ran(p, d) PROVE Ran(p, d)'
  <2> PICK id : id = semid[p]
    OBVIOUS
  <2>0. semid[p] = id /\ semid'[p] = id
    BY <1>1
  <2>1. d \in 0 .. Len(ops'[p]) /\ start'[p] \in [vals : [Own(p)' -> Int], adj : [Own(p)' -> Int]]
    BY <1>1, <1>5, <1>7 DEF Ran
  <2>2. ASSUME NEW num \in Own(p)'
        PROVE  /\ semval'[SemOf(id, num)'] = ValAt(p, num, d)'
               /\ Adjustment(un_ent'[p], id, num) = AdjAt(p, num, d)'
               /\ \A k \in 0 .. d : ValAt(p, num, k)' \in 0 .. semvmx /\ AdjAt(p, num, k)' \in Aoe
    <3>1. num \in Own(p)
      BY <1>5
    <3>2. /\ semval[SemOf(id, num)] = ValAt(p, num, d)
          /\ Adjustment(un_ent[p], id, num) = AdjAt(p, num, d)
          /\ \A k \in 0 .. d : ValAt(p, num, k) \in 0 .. semvmx /\ AdjAt(p, num, k) \in Aoe
      BY <3>1, <2>0, <1>7 DEF Ran
    <3> QED
      BY <3>2, <1>1, <1>5
  <2>3. \A k \in 0 .. d :
          Len(un_ent'[p]) - Cardinality(Adjusted(p, d)') + Cardinality(Adjusted(p, k)') <= semume
    BY <1>1, <1>6, <1>7 DEF Ran
  <2>4. \A k \in 1 .. d : Undoable(ops'[p][k]) => p \in block' /\ ops'[p][k].op \in Aoe
    BY <1>1, <1>7 DEF Ran
  <2> QED
    BY <2>0, <2>1, <2>2, <2>3, <2>4 DEF Ran, SemOf
<1>8. \A p \in Proc : RunInv(p) => RunInv(p)'
  BY <1>1, <1>5, <1>7 DEF RunInv
<1>9. \A s, num : BalanceAt(s, num)' = BalanceAt(s, num)
  BY <1>1, <1>5 DEF BalanceAt, ForGood, IdOf
<1>10. BalanceInv' = BalanceInv
  BY <1>1, <1>9 DEF BalanceInv
<1>11. \A s, num, v : Seen(s, num, v)' = Seen(s, num, v)
  BY <1>1, <1>5 DEF Seen
<1>12. \A p, k : WaitsFor(p, k)' = WaitsFor(p, k) /\ Before(p, k)' = Before(p, k)
  BY <1>1, <1>5 DEF WaitsFor, Before
<1>13. \A p, s : Sleeps(p, s)' = Sleeps(p, s)
  BY <1>1, <1>11, <1>12 DEF Sleeps
<1>14. \A p : WaitInv(p)' = WaitInv(p)
  BY <1>1, <1>5, <1>12, <1>13 DEF WaitInv, SlotAt, SlotOf, Exists, IdOf
<1>15. WakeInv' = WakeInv
  BY <1>1, <1>14 DEF WakeInv, ListInv
<1>16. BoundInv => BoundInv'
  BY <1>1, <1>2, <1>3, <1>4, <1>8 DEF BoundInv
<1> QED
  BY <1>10, <1>15, <1>16 DEF CallInv, ZeroLists, ZeroFirst

LEMMA NextCall ==
  ASSUME Waiting \cap Removable \cap Reused = {}, IInv, IInv', CallInv, [Next]_vars
  PROVE  CallInv'
<1>1. ASSUME NEW p \in Proc,
             \/ semget(p) \/ semop(p) \/ Again(p) \/ Interrupt(p) \/ PushFirst(p) \/ Do(p)
             \/ Refuse(p) \/ semundo(p) \/ Undone(p) \/ Succeed(p)
             \/ SETVAL(p) \/ SETALL(p) \/ Copied(p)
             \/ IPC_RMID(p) \/ CleanUp(p) \/ FreeSems(p)
             \/ semexit(p) \/ Adjust(p) \/ Exited(p)
      PROVE  CallInv'
  BY <1>1, semgetCall, semopCall, AgainCall, InterruptCall, PushFirstCall, DoCall,
     RefuseCall, semundoCall, UndoneCall, SucceedCall, SETVALCall, SETALLCall, CopiedCall,
     IPC_RMIDCall, CleanUpCall, FreeSemsCall, semexitCall, AdjustCall, ExitedCall
<1> QED
  BY <1>1, StillCall DEF Next

LEMMA CallInvariance ==
  ASSUME Waiting \cap Removable \cap Reused = {}
  PROVE  Spec => [](IInv /\ CallInv)
<1>1. IInv /\ CallInv /\ [Next]_vars => (IInv /\ CallInv)'
  BY NextIInv, NextCall
<1>2. Init => IInv /\ CallInv
  BY InitIInv, InitCall
<1> QED
  BY <1>1, <1>2, PTL DEF Spec

(* The values are in range, the blocks and their entries are within their  *)
(* limits (semvmx, semmnu, semume, semaem), and so is everything else,     *)
(* whatever the processes ask for.                                         *)
THEOREM CallsTyped ==
  ASSUME Waiting \cap Removable \cap Reused = {}
  PROVE  Spec => []TypeOK
<1>1. IInv /\ CallInv => TypeOK
  <2> SUFFICES ASSUME IInv, CallInv PROVE TypeOK
    OBVIOUS
  <2>1. Types /\ Ranges /\ BoundInv /\ Len(freemap) <= semmap - 2
    BY AtOnce DEF IInv, MapInv
  <2>2. ASSUME NEW p \in Proc
        PROVE  /\ Len(un_ent[p]) <= semume
               /\ \A k \in DOMAIN un_ent[p] : un_ent[p][k].aoe \in Aoe \ {0}
    <3>1. un_ent[p] \in Seq(Entries) /\ Bounded(un_ent[p])
      BY <2>1, EntriesTyped DEF IInv, BoundInv
    <3>2. DOMAIN un_ent[p] = 1 .. Len(un_ent[p])
      <4> HIDE DEF Entries
      <4> QED
        BY <3>1, LenProperties
    <3> QED
      BY <3>1, <3>2 DEF Bounded
  <2>3. pc \in [Proc -> Working \cup {"idle", "asleep", "again", "setall", "rmid", "rmfree", "exit"}]
    BY <2>1 DEF Types, Place, Rm
  <2>4. {block, chain} \subseteq SUBSET Proc /\ Cardinality(block) <= semmnu
    BY <2>1 DEF Ranges
  <2> QED
    BY <2>1, <2>2, <2>3, <2>4 DEF Types, Ranges, TypeOK
<1> QED
  BY <1>1, CallInvariance, PTL

(* What the exits of all processes would make of a semaphore is what it    *)
(* has been set to and changed by for good, while nobody has the lock of   *)
(* its set (semop(), semundo(), SETVAL and semexit()).                     *)
THEOREM UndoStaysBalanced ==
  ASSUME Waiting \cap Removable \cap Reused = {}
  PROVE  Spec => []UndoBalanced
<1>1. IInv /\ CallInv => UndoBalanced
  <2> SUFFICES ASSUME IInv, CallInv, NEW s \in Slot, live[s], semid_lock[s] = None,
                      NEW num \in 0 .. sem_nsems[s] - 1
               PROVE  semval[sem_base[s] + num] + Adjustments(un_ent, IdOf(s), num)
                        = net[sem_base[s] + num]
    BY DEF UndoBalanced
  <2>1. BalanceAt(s, num) /\ ForGood(s, num) = 0
    BY DEF CallInv, BalanceInv, ForGood
  <2>2. sem_base[s] \in Nat /\ sem_nsems[s] \in Nat /\ Ranges
    BY AtOnce DEF Types
  <2>3. sem_base[s] + num \in SemsOf(s)
    BY <2>2 DEF SemsOf
  <2>4. SemsOf(s) \subseteq Sem
    BY DEF IInv, SetsInv, Occupied
  <2>5. net[sem_base[s] + num] \in Int
    BY <2>2, <2>3, <2>4 DEF Ranges
  <2> QED
    BY <2>1, <2>5 DEF BalanceAt
<1> QED
  BY <1>1, CallInvariance, PTL

(* Who sleeps on a semaphore that nobody has locked could not do what it   *)
(* sleeps for: every change of a value wakes all it may let pass.  An      *)
(* operation that waits for zero is woken when the value is zero, so in    *)
(* the lists it comes before the others on its semaphore: after one that   *)
(* takes one away it would have to be woken when the value is one.         *)
THEOREM SleepersStillWait ==
  ASSUME Waiting \cap Removable \cap Reused = {}, \A list \in OpLists : ZeroFirst(list)
  PROVE  Spec => []SleepersWait
<1>1. IInv /\ CallInv => SleepersWait
  <2> SUFFICES ASSUME IInv, CallInv, NEW p \in Proc, pc[p] = "asleep", Exists(semid[p]),
                      semid_lock[SlotOf(semid[p])] = None
               PROVE  Blocks(ops[p], SemOf(semid[p], 0))
    BY DEF SleepersWait
  <2>1. PICK s : s = SlotAt(p)
    OBVIOUS
  <2>2. WaitInv(p)
    BY DEF CallInv, ZeroLists, WakeInv
  <2>3. Fits(p) /\ s \in Slot /\ Types /\ Ranges
    BY <2>1, AtOnce DEF IInv, ProcInv, SleepInv, Known, SlotAt
  <2>4. Sleeps(p, s)
    BY <2>1, <2>2, <2>3 DEF WaitInv
  <2>5. PICK k \in DOMAIN ops[p] :
          \A v \in 0 .. semvmx : Seen(s, ops[p][k].num, v) => MustWait(ops[p][k], v + Before(p, k))
    BY <2>4 DEF Sleeps
  <2>6. k \in 1 .. Len(ops[p])
    <3>1. ops[p] \in Seq(Op)
      BY <2>3 DEF Types
    <3> HIDE DEF Op
    <3> QED
      BY <3>1, LenProperties
  <2>7. PICK num : num = ops[p][k].num
    OBVIOUS
  <2>8. num \in Nat /\ num < sem_nsems[s]
    BY <2>1, <2>3, <2>6, <2>7, OpTyped DEF Fits
  <2>9. sem_base[s] \in Nat /\ sem_nsems[s] \in Nat
    BY <2>3 DEF Types
  <2>10. sem_base[s] + num \in SemsOf(s) /\ SemOf(semid[p], 0) + num = sem_base[s] + num
    BY <2>1, <2>8, <2>9 DEF SemsOf, SemOf, SlotAt
  <2>11. live[s] /\ semid_lock[s] = None
    BY <2>1 DEF Exists, SlotAt
  <2>12. semval[sem_base[s] + num] \in 0 .. semvmx
    <3>1. SemsOf(s) \subseteq Sem
      BY <2>3, <2>11 DEF IInv, SetsInv, Occupied
    <3> QED
      BY <3>1, <2>3, <2>10 DEF Ranges
  <2>13. Seen(s, num, semval[sem_base[s] + num])
    BY <2>11 DEF Seen
  <2>14. MustWait(ops[p][k], semval[sem_base[s] + num] + Before(p, k))
    BY <2>5, <2>7, <2>12, <2>13
  <2>15. MustWait(ops[p][k], semval[SemOf(semid[p], 0) + num] + Effects(ops[p], num, BOOLEAN)[k - 1])
    BY <2>7, <2>10, <2>14 DEF Before
  <2> QED
    BY <2>7, <2>15 DEF Blocks
<1> QED
  BY <1>1, CallInvariance, PTL

(* A call is over that has done its operations, or taken them back. *)
LEMMA WholeList ==
  ASSUME IInv, CallInv, NEW p \in Proc, Undone(p) \/ Succeed(p)
  PROVE  Whole(p)
<1>1. PICK s, id, list : s = SlotAt(p) /\ id = semid[p] /\ list = ops[p]
  OBVIOUS
<1>2. Types /\ Ranges /\ BoundInv
  BY AtOnce
<1>3. pc[p] \in Working /\ semval' = semval /\ un_ent' = un_ent
  BY DEF Undone, Succeed, Working, undoVars
<1>4. list \in Seq(Op) /\ Len(list) \in Nat /\ i[p] \in Nat
  <2>1. list \in Seq(Op) /\ i[p] \in Nat
    BY <1>1, <1>2 DEF Types
  <2> HIDE DEF Op
  <2> QED
    BY <2>1, LenProperties
<1>5. PICK d \in 0 .. Len(list) : Done(p) = d /\ Ran(p, d)
  <2>1. RunInv(p)
    BY <1>2 DEF BoundInv
  <2> QED
    BY <2>1, <1>1, <1>3 DEF RunInv
<1>6. ASSUME NEW num, NEW undone
      PROVE  Effects(list, num, undone)[d]
               = IF pc[p] = "ops" THEN Effect(list, num, undone) ELSE 0
  <2>1. CASE Undone(p)
    <3>1. pc[p] = "undo" /\ d = 0
      BY <2>1, <1>5 DEF Undone, Done
    <3>2. Effects(list, num, undone)[0] = 0
      BY <1>4, EffectsAre
    <3> QED
      BY <3>1, <3>2
  <2>2. CASE Succeed(p)
    <3>1. pc[p] = "ops" /\ i[p] > Len(list) /\ d = i[p] - 1
      BY <2>2, <1>1, <1>5 DEF Succeed, Done
    <3>2. d = Len(list)
      BY <3>1, <1>4
    <3> QED
      BY <3>1, <3>2 DEF Effect
  <2> QED
    BY <2>1, <2>2
<1>7. ASSUME NEW num \in 0 .. sem_nsems[s] - 1
      PROVE  /\ semval[sem_base[s] + num] = start[p].vals[num] + Effects(list, num, BOOLEAN)[d]
             /\ Adjustment(un_ent[p], id, num) = start[p].adj[num] - Effects(list, num, {TRUE})[d]
  <2>1. num \in Own(p)
    BY <1>1 DEF Own
  <2>2. SemOf(id, num) = sem_base[s] + num
    BY <1>1 DEF SemOf, SlotAt
  <2>3. /\ semval[SemOf(id, num)] = ValAt(p, num, d)
        /\ Adjustment(un_ent[p], id, num) = AdjAt(p, num, d)
    BY <2>1, <1>1, <1>5 DEF Ran
  <2> QED
    BY <2>2, <2>3, <1>1 DEF ValAt, AdjAt
<1> QED
  BY <1>1, <1>3, <1>6, <1>7 DEF Whole, SlotAt

(* No other step ends a call of semop(). *)
LEMMA CallEnds ==
  ASSUME Types, NEW p \in Proc, pc[p] \in Working, pc'[p] \notin Working, [Next]_vars
  PROVE  Undone(p) \/ Succeed(p)
<1>1. pc' # pc
  OBVIOUS
<1>2. PICK q \in Proc :
             \/ semget(q) \/ semop(q) \/ Again(q) \/ Interrupt(q) \/ PushFirst(q) \/ Do(q)
             \/ Refuse(q) \/ semundo(q) \/ Undone(q) \/ Succeed(q)
             \/ SETVAL(q) \/ SETALL(q) \/ Copied(q)
             \/ IPC_RMID(q) \/ CleanUp(q) \/ FreeSems(q)
             \/ semexit(q) \/ Adjust(q) \/ Exited(q)
  BY <1>1 DEF Next, vars
<1>3. pc \in [Proc -> Place]
  BY DEF Types
<1>4. ASSUME NEW place \in Place, Goto(q, place) PROVE p = q
  BY <1>4, Gone
<1>5. ASSUME NEW place \in Place, NEW queues, GotoWaking(q, place, queues) PROVE p = q
  <2>1. p # q => pc'[p] = pc[p] \/ pc[p] = "asleep"
    BY <1>5, Woken
  <2> QED
    BY <2>1 DEF Working
<1>6. ASSUME NEW place \in Place, Goto(q, place) PROVE pc'[q] = place
  BY <1>6, Gone
<1>7. ASSUME NEW place \in Place, NEW queues, GotoWaking(q, place, queues) PROVE pc'[q] = place
  BY <1>7, Woken
<1>8. /\ {"ops", "undo", "idle", "asleep", "again", "setall", "rmid", "rmfree", "exit"} \subseteq Place
      /\ Working = {"ops", "undo"}
  BY DEF Place, Working, Rm
<1>9. ~semget(q) /\ ~PushFirst(q) /\ ~semundo(q)
  BY <1>1 DEF semget, PushFirst, Push, semundo
<1>10. ~semop(q)
  BY <1>4, <1>6, <1>8 DEF semop, Begin
<1>11. ~Again(q)
  BY <1>4, <1>8 DEF Again, Begin
<1>12. ~Interrupt(q) /\ ~SETALL(q) /\ ~IPC_RMID(q) /\ ~FreeSems(q) /\ ~semexit(q) /\ ~Exited(q)
  BY <1>4, <1>8 DEF Interrupt, SETALL, IPC_RMID, FreeSems, semexit, Exited
<1>13. ~SETVAL(q) /\ ~Copied(q)
  BY <1>4, <1>5, <1>8 DEF SETVAL, Copied, SetValues
<1>14. ~CleanUp(q)
  BY <1>5, <1>8 DEF CleanUp
<1>15. ~Adjust(q)
  BY <1>1, <1>5, <1>8 DEF Adjust
<1>16. ~Do(q)
  <2>1. ASSUME Do(q) PROVE \E queues : GotoWaking(q, "ops", queues)
    BY <2>1 DEF Do
  <2> QED
    BY <2>1, <1>5, <1>7, <1>8
<1>17. ~Refuse(q)
  BY <1>4, <1>6, <1>8 DEF Refuse
<1>18. Undone(q) => p = q
  BY <1>4, <1>8 DEF Undone
<1>19. Succeed(q) => p = q
  BY <1>4, <1>8 DEF Succeed
<1> QED
  BY <1>2, <1>9, <1>10, <1>11, <1>12, <1>13, <1>14, <1>15, <1>16, <1>17, <1>18, <1>19

(* semop() does all its operations or none, with the adjustments of the    *)
(* caller, whichever of them fails or must wait and whoever has taken undo *)
(* blocks in between.                                                      *)
THEOREM CallsAllOrNothing ==
  ASSUME Waiting \cap Removable \cap Reused = {}
  PROVE  Spec => AllOrNothing
<1>1. ASSUME IInv, CallInv, [Next]_vars PROVE [\A p \in Proc : Whole(p)]_vars
  <2>1. ASSUME NEW p \in Proc PROVE Whole(p)
    <3>1. CASE pc[p] \in Working /\ pc'[p] \notin Working
      <4>1. Types
        BY <1>1 DEF IInv
      <4>2. Undone(p) \/ Succeed(p)
        BY <3>1, <4>1, <1>1, CallEnds
      <4> QED
        BY <4>2, <1>1, WholeList
    <3>2. CASE ~(pc[p] \in Working /\ pc'[p] \notin Working)
      BY <3>2 DEF Whole
    <3> QED
      BY <3>1, <3>2
  <2> QED
    BY <2>1
<1> QED
  BY <1>1, CallInvariance, PTL DEF Spec, AllOrNothing
=============================================================================
