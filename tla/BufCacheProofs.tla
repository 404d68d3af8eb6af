--------------------------- MODULE BufCacheProofs ---------------------------
(* The buffer cache: a buffer is in one hand, a block in one buffer, and   *)
(* no contents of a block are lost, for any number of processes, buffers   *)
(* and blocks.                                                             *)
EXTENDS BufCache, QueueLemmas, FiniteSetTheorems, TLAPS

USE NoneAssumption

(* A buffer that is not to be used for its block. *)
IsBad(b) == b_flags[b] \cap Bad # {}
Holds(p, b) == (bp[p] = b /\ pc[p] # "asleep") \/ kept[p] = b
Sleeps(p, b) == bp[p] = b /\ pc[p] = "asleep"

Ins == {"idle", "loop", "nobuf"}
ByBlk == Getters \cup {"blkflush", "blkinval"}

BufTypes ==
  /\ id \in [Buf -> Blk \cup {None}]
  /\ b_flags \in [Buf -> SUBSET Flags]
  /\ iodone \in [Buf -> BOOLEAN]
  /\ io \in [Buf -> {"none", "read", "write"}]
ProcTypes ==
  /\ invals \in Proc \cup {None}
  /\ pc \in [Proc -> Places] /\ call \in [Proc -> Functions \cup {None}]
  /\ blkno \in [Proc -> Blk \cup {None}]
  /\ bp \in [Proc -> Buf \cup {None}] /\ kept \in [Proc -> Buf \cup {None}]
  /\ unchanged \subseteq Proc
DataTypes == current \subseteq Buf /\ written \subseteq Blk
TypeInv == BufTypes /\ ProcTypes /\ DataTypes

ListInv ==
  /\ IsQueue(lru, Buf) /\ IsQueue(age, Buf)
  /\ ToSet(lru) \cap ToSet(age) = {}

QueueInv ==
  /\ DOMAIN b_alloc = Buf
  /\ \A b \in Buf : /\ IsQueue(b_alloc[b], Proc)
                    /\ \A p \in Proc : p \in ToSet(b_alloc[b]) <=> Sleeps(p, b)

(* The place of a process, and what it has. *)
PlaceInv(p) ==
  /\ bp[p] = None <=> pc[p] \in Ins
  /\ pc[p] = "idle" => call[p] = None
  /\ call[p] \in ByBlk => blkno[p] \in Blk
  /\ pc[p] = "biowait" => call[p] \in {"bread", "breada"}
  /\ pc[p] \in {"stolen", "hold"} => call[p] \in Getters \cup {"geteblk"}
  /\ pc[p] = "bwrite" => call[p] \in {None, "baddr", "blkflush"}
  /\ kept[p] # None => /\ call[p] = "breada" /\ pc[p] \in {"loop", "nobuf", "stolen"}
                       /\ bp[p] # kept[p] /\ Ahead[blkno[p]] # None

(* The buffer a process has allocated, as the functions find it. *)
UseInv(p) ==
  /\ pc[p] \in {"biowait", "hold"} /\ call[p] \in Getters =>
       id[bp[p]] = blkno[p] /\ "INVAL" \notin b_flags[bp[p]]
  /\ pc[p] = "hold" /\ call[p] = "geteblk" => "INVAL" \in b_flags[bp[p]]
  /\ pc[p] = "hold" /\ call[p] \in {"bread", "breada"} => iodone[bp[p]]
  /\ kept[p] # None => id[kept[p]] = blkno[p] /\ "INVAL" \notin b_flags[kept[p]]
  /\ pc[p] = "stolen" =>
       /\ id[bp[p]] = IF call[p] = "geteblk" THEN None ELSE Wanted(p)
       /\ bp[p] \notin current /\ "DELWRI" \notin b_flags[bp[p]]
  /\ pc[p] = "bwrite" => id[bp[p]] # None /\ io[bp[p]] # "read"
  /\ pc[p] = "bwrite" /\ call[p] = "blkflush" => id[bp[p]] = blkno[p]

HeldInv(p, b) ==
  /\ b \notin Free
  /\ "ASYNC" \notin b_flags[b]
  /\ io[b] # "none" => kept[p] = b \/ pc[p] \in {"biowait", "bwrite"}

OneHolder(b) == \A p, q \in Proc : Holds(p, b) /\ Holds(q, b) => p = q

BufInv(b) ==
  /\ b \in Free => /\ io[b] = "none" /\ "ASYNC" \notin b_flags[b]
                   /\ id[b] = None <=> IsBad(b)
                   /\ IsBad(b) => "DELWRI" \notin b_flags[b]
                   /\ \A p \in Proc : bp[p] # b /\ kept[p] # b
  /\ b \in Free \/ (io[b] # "none" /\ "ASYNC" \in b_flags[b]) \/ \E p \in Proc : Holds(p, b)
  /\ io[b] # "none" => ~iodone[b] /\ id[b] # None
  /\ io[b] = "write" => b \in current
  /\ "DELWRI" \in b_flags[b] => iodone[b] /\ (id[b] = None \/ ~IsBad(b))
  /\ b \in current => id[b] # None /\ (IsBad(b) => io[b] # "none")
  /\ iodone[b] /\ id[b] # None /\ ~IsBad(b) =>
       b \in current \/ \E p \in Proc : pc[p] = "stolen" /\ bp[p] = b

(* A process that sleeps for a buffer, or was handed one. *)
Match(p) == id[bp[p]] # None /\ (call[p] \in ByBlk => id[bp[p]] = blkno[p])
Awaits(p) ==
  /\ pc[p] \in {"asleep", "got"} => Match(p) \/ (IsBad(bp[p]) /\ io[bp[p]] = "none")
  /\ \A q \in Proc : pc[p] = "asleep" /\ pc[q] = "stolen" /\ bp[q] = bp[p] => Match(p)

Unique == \A b, c \in Buf : id[b] = id[c] /\ id[b] # None => b = c

Flushing(p) ==
  p \in unchanged =>
    /\ call[p] = "blkflush"
    /\ pc[p] \in {"asleep", "got"} /\ IsBad(bp[p]) /\ io[bp[p]] = "none"
         => blkno[p] \in written
    /\ pc[p] = "bwrite" /\ io[bp[p]] = "none" => blkno[p] \in written

IInv ==
  /\ TypeInv /\ ListInv /\ QueueInv
  /\ \A p \in Proc : PlaceInv(p)
  /\ \A p \in Proc : UseInv(p)
  /\ \A p \in Proc, b \in Buf : Holds(p, b) => HeldInv(p, b)
  /\ \A b \in Buf : OneHolder(b)
  /\ \A b \in Buf : BufInv(b)
  /\ \A p \in Proc : Awaits(p)
  /\ Unique
  /\ NoLostWrite
  /\ NoFreeBufMissed
  /\ \A p \in Proc : Flushing(p)
-----------------------------------------------------------------------------
(* The free lists.                                                         *)

LEMMA ConcatQueue ==
  ASSUME NEW S, NEW q, IsQueue(q, S), NEW r, IsQueue(r, S),
         ToSet(q) \cap ToSet(r) = {}
  PROVE  IsQueue(q \o r, S) /\ ToSet(q \o r) = ToSet(q) \cup ToSet(r)
<1>1. /\ q \in Seq(S) /\ r \in Seq(S)
      /\ Len(q) \in Nat /\ DOMAIN q = 1 .. Len(q)
      /\ Len(r) \in Nat /\ DOMAIN r = 1 .. Len(r)
  BY LenProperties DEF IsQueue
<1> DEFINE s == q \o r
<1>2. /\ s \in Seq(S) /\ Len(s) = Len(q) + Len(r)
      /\ \A i \in 1 .. Len(q) + Len(r) : s[i] = IF i <= Len(q) THEN q[i] ELSE r[i - Len(q)]
  BY <1>1, ConcatProperties
<1>3. DOMAIN s = 1 .. Len(q) + Len(r)
  BY <1>2, LenProperties
<1> HIDE DEF s
<1>4. ASSUME NEW i \in 1 .. Len(q) + Len(r)
      PROVE  \/ i \in 1 .. Len(q) /\ s[i] = q[i] /\ s[i] \in ToSet(q)
             \/ i - Len(q) \in 1 .. Len(r) /\ s[i] = r[i - Len(q)] /\ s[i] \in ToSet(r)
  <2>1. CASE i <= Len(q)
    <3>1. i \in 1 .. Len(q) /\ s[i] = q[i]
      BY <2>1, <1>1, <1>2
    <3> QED
      BY <3>1, <1>1 DEF ToSet
  <2>2. CASE ~(i <= Len(q))
    <3>1. i - Len(q) \in 1 .. Len(r) /\ s[i] = r[i - Len(q)]
      BY <2>2, <1>1, <1>2
    <3>2. r[i - Len(q)] \in ToSet(r)
      BY <3>1, <1>1 DEF ToSet
    <3> QED
      BY <3>1, <3>2
  <2> QED
    BY <2>1, <2>2
<1>5. IsInjective(s)
  <2> SUFFICES ASSUME NEW i \in 1 .. Len(q) + Len(r), NEW j \in 1 .. Len(q) + Len(r),
                      s[i] = s[j]
               PROVE  i = j
    BY <1>3 DEF IsInjective
  <2>1. CASE i \in 1 .. Len(q) /\ s[i] = q[i] /\ s[i] \in ToSet(q)
    BY <2>1, <1>4, <1>1 DEF IsQueue, IsInjective
  <2>2. CASE i - Len(q) \in 1 .. Len(r) /\ s[i] = r[i - Len(q)] /\ s[i] \in ToSet(r)
    <3>1. j - Len(q) \in 1 .. Len(r) /\ s[j] = r[j - Len(q)]
      BY <2>2, <1>4
    <3>2. i - Len(q) = j - Len(q)
      BY <2>2, <3>1, <1>1 DEF IsQueue, IsInjective
    <3> QED
      BY <3>2, <1>1
  <2> QED
    BY <2>1, <2>2, <1>4
<1>6. ToSet(s) \subseteq ToSet(q) \cup ToSet(r)
  BY <1>3, <1>4 DEF ToSet
<1>7. ToSet(q) \subseteq ToSet(s)
  BY <1>1, <1>2, <1>3 DEF ToSet
<1>8. ToSet(r) \subseteq ToSet(s)
  <2> SUFFICES ASSUME NEW j \in 1 .. Len(r)
               PROVE  r[j] \in ToSet(s)
    BY <1>1 DEF ToSet
  <2>1. Len(q) + j \in 1 .. Len(q) + Len(r) /\ ~(Len(q) + j <= Len(q))
          /\ (Len(q) + j) - Len(q) = j
    BY <1>1
  <2>2. s[Len(q) + j] = r[j]
    BY <2>1, <1>2
  <2> QED
    BY <2>1, <2>2, <1>3 DEF ToSet
<1>9. IsQueue(s, S)
  BY <1>2, <1>5 DEF IsQueue
<1> QED
  BY <1>6, <1>7, <1>8, <1>9 DEF s

LEMMA SingleQueue ==
  ASSUME NEW S, NEW e \in S
  PROVE  IsQueue(<<e>>, S) /\ ToSet(<<e>>) = {e}
BY DEF IsQueue, IsInjective, ToSet

LEMMA EmptyQueue ==
  ASSUME NEW S
  PROVE  IsQueue(<<>>, S) /\ ToSet(<<>>) = {}
BY DEF IsQueue, IsInjective, ToSet

LEMMA HeadInQueue ==
  ASSUME NEW S, NEW q, IsQueue(q, S), ToSet(q) # {}
  PROVE  q # <<>> /\ Head(q) \in ToSet(q)
<1>1. q # <<>>
  BY EmptyQueue
<1>2. q \in Seq(S) /\ Len(q) > 0
  BY <1>1, EmptySeq DEF IsQueue
<1> QED
  BY <1>1, <1>2, QueueTail

(* notavail() takes a buffer off a list. *)
LEMMA WithoutQueue ==
  ASSUME NEW S, NEW q, IsQueue(q, S), NEW e
  PROVE  IsQueue(Without(q, e), S) /\ ToSet(Without(q, e)) = ToSet(q) \ {e}
<1>1. CASE e \in ToSet(q)
  <2> DEFINE k == CHOOSE j \in DOMAIN q : q[j] = e
  <2>1. k \in DOMAIN q /\ q[k] = e
    BY <1>1 DEF ToSet
  <2>2. Without(q, e) = RemoveAt(q, k)
    BY <1>1 DEF Without
  <2> HIDE DEF k
  <2> QED
    BY <2>1, <2>2, QueueRemoveAt
<1>2. CASE e \notin ToSet(q)
  BY <1>2 DEF Without
<1> QED
  BY <1>1, <1>2

(* Free is what the two lists hold. *)
LEMMA FreeIs ==
  ASSUME ListInv
  PROVE  Free = ToSet(age) \cup ToSet(lru) /\ Free \subseteq Buf
<1>1. Free = ToSet(age) \cup ToSet(lru)
  BY ConcatQueue DEF ListInv, Free
<1>2. \A q : IsQueue(q, Buf) => ToSet(q) \subseteq Buf
  BY ElementOfSeq, LenProperties DEF IsQueue, ToSet
<1> QED
  BY <1>1, <1>2 DEF ListInv

(* The same after a step. *)
LEMMA FreeIsNext ==
  ASSUME ListInv'
  PROVE  Free' = ToSet(age)' \cup ToSet(lru)'
BY ConcatQueue DEF ListInv, Free

LEMMA NotavailLists ==
  ASSUME ListInv, NEW b, notavail(b)
  PROVE  ListInv' /\ Free' = Free \ {b}
<1>1. /\ IsQueue(lru', Buf) /\ ToSet(lru') = ToSet(lru) \ {b}
      /\ IsQueue(age', Buf) /\ ToSet(age') = ToSet(age) \ {b}
  BY WithoutQueue DEF ListInv, notavail
<1>2. ListInv'
  BY <1>1 DEF ListInv
<1> QED
  BY <1>1, <1>2, FreeIs, FreeIsNext

(* The first buffer of the lists. *)
LEMMA HeadFree ==
  ASSUME ListInv, Free # {}
  PROVE  Head(age \o lru) \in Free
<1>1. IsQueue(age \o lru, Buf)
  BY ConcatQueue DEF ListInv
<1> QED
  BY <1>1, HeadInQueue DEF Free
-----------------------------------------------------------------------------
(* A step changes what one process p and one buffer b are, p or b may be   *)
(* None; it may hand the buffer to h, that sleeps for it, and wake others  *)
(* that wait for any buffer.                                               *)

WakesOnly(p, b, h) ==
  \A q \in Proc \ {p} :
    /\ call'[q] = call[q] /\ blkno'[q] = blkno[q]
    /\ bp'[q] = bp[q] /\ kept'[q] = kept[q]
    /\ \/ pc'[q] = pc[q]
       \/ pc[q] = "nobuf" /\ pc'[q] = "loop"
       \/ q = h /\ Sleeps(q, b) /\ pc'[q] = "got"

SameBuf(c) ==
  /\ id'[c] = id[c] /\ b_flags'[c] = b_flags[c]
  /\ iodone'[c] = iodone[c] /\ io'[c] = io[c]
  /\ c \in Free' <=> c \in Free
  /\ c \in current' <=> c \in current

(* The contents of blocks. *)
WritesOnly(b) == \A k \in Blk : (b \in Buf /\ k = id[b]) \/ (k \in written' <=> k \in written)
StillFlushing(p) ==
  \A q \in Proc \ {p} :
    q \in unchanged' => q \in unchanged /\ (blkno[q] \in written => blkno[q] \in written')

Frame(p, b, h) ==
  /\ TypeInv' /\ ListInv' /\ QueueInv' /\ NoFreeBufMissed'
  /\ WakesOnly(p, b, h)
  /\ \A c \in Buf \ {b} : SameBuf(c)
  /\ WritesOnly(b) /\ StillFlushing(p)

(* What the step leaves of process p, *)
Turns(p, b) ==
  /\ PlaceInv(p)' /\ UseInv(p)' /\ Flushing(p)'
  /\ pc[p] # "asleep" /\ pc'[p] # "got"
  /\ pc'[p] = "asleep" => Awaits(p)' /\ bp'[p] \notin Free
  /\ \A c \in Buf \ {b} : pc[p] = "stolen" /\ bp[p] = c <=> pc'[p] = "stolen" /\ bp'[p] = c
  /\ \A c \in Buf : Holds(p, c)' => HeldInv(p, c)'
  /\ \A c \in Buf \ {b} : Holds(p, c)' <=> Holds(p, c)

(* and of buffer b, which no other process has. *)
Settles(p, b, h) ==
  /\ \A q \in Proc \ {p} : ~Holds(q, b)
  /\ BufInv(b)'
  /\ \A c \in Buf \ {b} : id'[b] = id[c] => id'[b] = None
  /\ id[b] # None /\ id[b] \notin written' =>
       /\ b \in current' /\ id'[b] = id[b]
       /\ io'[b] = "write" \/ "DELWRI" \in b_flags'[b]
  /\ \A q \in Proc \ {p} : Sleeps(q, b) =>
       /\ Match(q)' \/ (IsBad(b)' /\ io'[b] = "none")
       /\ p \in Proc /\ pc'[p] = "stolen" => Match(q)'
       /\ q \in unchanged' /\ IsBad(b)' /\ io'[b] = "none" => blkno[q] \in written'
       /\ pc'[q] = "got" => /\ HeldInv(q, b)' /\ io'[b] = "none"
                            /\ p \in Proc => ~Holds(p, b)'

LEMMA LocalStep ==
  ASSUME IInv, NEW p, NEW b, NEW h, Frame(p, b, h),
         p \in Proc => Turns(p, b),
         b \in Buf => Settles(p, b, h)
  PROVE  IInv'
<1> USE DEF IInv
<1>0. TypeInv' /\ ListInv' /\ QueueInv' /\ NoFreeBufMissed' /\ TypeInv
  BY DEF Frame
<1>1. \A q \in Proc \ {p} :
        /\ call'[q] = call[q] /\ blkno'[q] = blkno[q]
        /\ bp'[q] = bp[q] /\ kept'[q] = kept[q]
        /\ \/ pc'[q] = pc[q]
           \/ pc[q] = "nobuf" /\ pc'[q] = "loop"
           \/ q = h /\ Sleeps(q, b) /\ pc'[q] = "got"
  BY DEF Frame, WakesOnly
<1>2. \A c \in Buf \ {b} : SameBuf(c)
  BY DEF Frame
(* The buffers of a process other than p, in a step that does not hand it b. *)
<1>3. \A q \in Proc \ {p}, c \in Buf : Holds(q, c)' <=> Holds(q, c) \/ (Sleeps(q, c) /\ pc'[q] = "got")
  <2> SUFFICES ASSUME NEW q \in Proc \ {p}, NEW c \in Buf
               PROVE  Holds(q, c)' <=> Holds(q, c) \/ (Sleeps(q, c) /\ pc'[q] = "got")
    OBVIOUS
  <2>1. PlaceInv(q)
    OBVIOUS
  <2> QED
    BY <1>1, <2>1 DEF Holds, Sleeps, PlaceInv, Ins
<1>4. \A q \in Proc \ {p}, c \in Buf : Sleeps(q, c) /\ pc'[q] = "got" => c = b /\ q = h /\ b \in Buf
  BY <1>1 DEF Sleeps
<1>5. \A q \in Proc \ {p}, c \in Buf : Sleeps(q, c)' => Sleeps(q, c)
  BY <1>1 DEF Sleeps
<1>6. \A q \in Proc : PlaceInv(q)'
  <2>1. ASSUME NEW q \in Proc \ {p}
        PROVE  PlaceInv(q)'
    <3>1. PlaceInv(q)
      OBVIOUS
    <3> QED
      BY <1>1, <3>1 DEF PlaceInv, Ins, Sleeps
  <2> QED
    BY <2>1 DEF Turns
(* The buffers that another process has or waits for are not b, or it sleeps. *)
<1>7. ASSUME NEW q \in Proc \ {p}
      PROVE  /\ bp[q] \in Buf \cup {None} /\ kept[q] \in Buf \cup {None} /\ None \notin Buf
             /\ b \in Buf => bp[q] # b \/ Sleeps(q, b)
             /\ b \in Buf => kept[q] # b
             /\ pc'[q] = "stolen" => pc[q] = "stolen"
  BY <1>0, <1>1 DEF TypeInv, ProcTypes, Settles, Holds, Sleeps
<1>8. \A q \in Proc : UseInv(q)'
  <2>1. ASSUME NEW q \in Proc \ {p}
        PROVE  UseInv(q)'
    <3>1. UseInv(q) /\ PlaceInv(q)
      OBVIOUS
    <3>2. CASE pc'[q] \in Ins \cup {"asleep", "got"}
      <4>1. kept'[q] = kept[q] /\ blkno'[q] = blkno[q]
        BY <1>1
      <4>2. kept[q] # None => kept[q] \in Buf \ {b}
        BY <1>7
      <4> QED
        BY <4>1, <4>2, <3>1, <3>2, <1>2 DEF UseInv, SameBuf, Ins
    <3>3. CASE pc'[q] \notin Ins \cup {"asleep", "got"}
      <4>1. /\ pc'[q] = pc[q] /\ bp'[q] = bp[q] /\ kept'[q] = kept[q]
            /\ call'[q] = call[q] /\ blkno'[q] = blkno[q]
        BY <1>1, <3>3 DEF Ins
      <4>2. bp[q] \in Buf \ {b} /\ (kept[q] # None => kept[q] \in Buf \ {b})
        BY <1>7, <3>1, <3>3, <4>1 DEF PlaceInv, Sleeps
      <4>3. Wanted(q)' = Wanted(q)
        BY <4>1 DEF Wanted
      <4> QED
        BY <4>1, <4>2, <4>3, <3>1, <1>2 DEF UseInv, SameBuf
    <3> QED
      BY <3>2, <3>3
  <2> QED
    BY <2>1 DEF Turns
<1>9. ASSUME NEW q \in Proc \ {p}, NEW c \in Buf, Holds(q, c)'
      PROVE  HeldInv(q, c)'
  <2>1. CASE Sleeps(q, c) /\ pc'[q] = "got"
    BY <2>1, <1>4, <1>7 DEF Settles
  <2>2. CASE Holds(q, c)
    <3>1. c # b
      BY <2>2 DEF Settles
    <3>2. SameBuf(c) /\ HeldInv(q, c)
      BY <3>1, <2>2, <1>2
    <3>3. kept'[q] = kept[q] /\ (pc[q] \in {"biowait", "bwrite"} => pc'[q] = pc[q])
      BY <1>1 DEF Sleeps
    <3> QED
      BY <3>2, <3>3 DEF HeldInv, SameBuf
  <2> QED
    BY <2>1, <2>2, <1>3, <1>9 DEF Holds, Sleeps
<1>10. \A q \in Proc, c \in Buf : Holds(q, c)' => HeldInv(q, c)'
  BY <1>9 DEF Turns
<1>11. ASSUME NEW c \in Buf, NEW q \in Proc, NEW r \in Proc, Holds(q, c)', Holds(r, c)'
       PROVE  q = r
  <2>1. CASE c = b
    <3>1. \A x \in Proc \ {p} : Holds(x, b)' => x = h /\ Sleeps(x, b) /\ pc'[x] = "got"
      BY <2>1, <1>3, <1>4 DEF Settles
    <3>2. \A x \in Proc \ {p} : Sleeps(x, b) /\ pc'[x] = "got" /\ p \in Proc => ~Holds(p, b)'
      BY <2>1 DEF Settles
    <3> QED
      BY <2>1, <3>1, <3>2, <1>11 DEF Holds
  <2>2. CASE c # b
    <3>1. Holds(q, c) /\ Holds(r, c)
      BY <2>2, <1>3, <1>4, <1>11 DEF Turns, Holds, Sleeps
    <3> QED
      BY <3>1 DEF OneHolder
  <2> QED
    BY <2>1, <2>2
<1>12. \A c \in Buf : OneHolder(c)'
  BY <1>11 DEF OneHolder
<1>13. ASSUME NEW c \in Buf, c # b
       PROVE  BufInv(c)'
  <2>1. SameBuf(c) /\ BufInv(c)
    BY <1>2, <1>13
  <2>2. ASSUME c \in Free'
        PROVE  \A q \in Proc : bp'[q] # c /\ kept'[q] # c
    <3>1. \A q \in Proc : bp[q] # c /\ kept[q] # c
      BY <2>1, <2>2 DEF SameBuf, BufInv
    <3>2. p \in Proc => bp'[p] # c /\ kept'[p] # c
      BY <2>1, <2>2, <3>1, <1>13 DEF Turns, Holds, SameBuf
    <3> QED
      BY <3>1, <3>2, <1>1
  <2>3. (\E q \in Proc : Holds(q, c)) => \E q \in Proc : Holds(q, c)'
    BY <1>3, <1>13 DEF Turns, Holds
  <2>4. (\E q \in Proc : pc[q] = "stolen" /\ bp[q] = c)
          => \E q \in Proc : pc'[q] = "stolen" /\ bp'[q] = c
    BY <1>1, <1>13 DEF Turns, Sleeps
  <2> QED
    BY <2>1, <2>2, <2>3, <2>4 DEF BufInv, SameBuf, IsBad
<1>14. \A c \in Buf : BufInv(c)'
  BY <1>13 DEF Settles
<1>15. \A q \in Proc : Awaits(q)'
  <2>1. ASSUME NEW q \in Proc \ {p}, pc'[q] \in {"asleep", "got"}
        PROVE  Awaits(q)'
    <3>1. /\ pc[q] \in {"asleep", "got"} /\ bp'[q] = bp[q] /\ call'[q] = call[q]
          /\ blkno'[q] = blkno[q] /\ bp[q] \in Buf
          /\ pc'[q] = "asleep" => pc[q] = "asleep"
      BY <1>1, <1>7, <2>1 DEF Sleeps, PlaceInv, Ins
    <3>2. Awaits(q)
      OBVIOUS
    <3>3. CASE bp[q] # b
      <4>1. SameBuf(bp[q])
        BY <3>1, <3>3, <1>2
      <4>2. \A r \in Proc : pc'[r] = "stolen" /\ bp'[r] = bp[q] => pc[r] = "stolen" /\ bp[r] = bp[q]
        <5>1. p \in Proc /\ pc'[p] = "stolen" /\ bp'[p] = bp[q] => pc[p] = "stolen" /\ bp[p] = bp[q]
          BY <3>1, <3>3 DEF Turns
        <5> QED
          BY <5>1, <1>1
      <4> QED
        BY <3>1, <3>2, <4>1, <4>2 DEF Awaits, Match, IsBad, SameBuf
    <3>4. CASE bp[q] = b
      <4>1. Sleeps(q, b) /\ b \in Buf
        BY <1>7, <3>1, <3>4
      <4>2. /\ Match(q)' \/ (IsBad(b)' /\ io'[b] = "none")
            /\ p \in Proc /\ pc'[p] = "stolen" => Match(q)'
        BY <4>1 DEF Settles
      <4>3. \A r \in Proc : pc'[r] = "stolen" /\ bp'[r] = b => r = p
        <5>1. \A r \in Proc \ {p} : pc'[r] = "stolen" => bp[r] # b
          BY <1>7, <4>1 DEF Sleeps
        <5> QED
          BY <5>1, <1>1
      <4> QED
        BY <3>1, <3>4, <4>2, <4>3 DEF Awaits, IsBad
    <3> QED
      BY <3>3, <3>4
  <2>2. ASSUME p \in Proc
        PROVE  Awaits(p)'
    BY <2>2 DEF Turns, Awaits
  <2>3. ASSUME NEW q \in Proc \ {p}, pc'[q] \notin {"asleep", "got"}
        PROVE  Awaits(q)'
    BY <2>3 DEF Awaits
  <2> QED
    BY <2>1, <2>2, <2>3
<1>16. Unique'
  <2>1. ASSUME NEW c \in Buf, NEW d \in Buf, c # d, id'[c] = id'[d], id'[c] # None
        PROVE  FALSE
    <3>1. CASE c # b /\ d # b
      BY <2>1, <3>1, <1>2 DEF SameBuf, Unique
    <3>2. CASE c = b
      BY <2>1, <3>2, <1>2 DEF SameBuf, Settles
    <3>3. CASE d = b
      BY <2>1, <3>3, <1>2 DEF SameBuf, Settles
    <3> QED
      BY <3>1, <3>2, <3>3
  <2> QED
    BY <2>1 DEF Unique
<1>17. NoLostWrite'
  <2> SUFFICES ASSUME NEW k \in Blk, k \notin written'
               PROVE  \E c \in current' : id'[c] = k /\ (io'[c] = "write" \/ "DELWRI" \in b_flags'[c])
    BY DEF NoLostWrite
  <2>1. CASE b \in Buf /\ k = id[b]
    BY <2>1 DEF Settles
  <2>2. CASE ~(b \in Buf /\ k = id[b])
    <3>1. k \notin written
      BY <2>2 DEF Frame, WritesOnly
    <3>2. PICK c \in current : id[c] = k /\ (io[c] = "write" \/ "DELWRI" \in b_flags[c])
      BY <3>1 DEF NoLostWrite
    <3>3. c \in Buf /\ c # b
      BY <3>2, <2>2, <1>0 DEF TypeInv, DataTypes
    <3> QED
      BY <3>2, <3>3, <1>2 DEF SameBuf
  <2> QED
    BY <2>1, <2>2
<1>18. \A q \in Proc : Flushing(q)'
  <2>1. ASSUME NEW q \in Proc \ {p}, q \in unchanged'
        PROVE  Flushing(q)'
    <3>1. /\ call'[q] = call[q] /\ blkno'[q] = blkno[q] /\ bp'[q] = bp[q]
          /\ \/ pc'[q] = pc[q]
             \/ pc'[q] = "loop"
             \/ Sleeps(q, b) /\ pc'[q] = "got"
      BY <1>1
    <3>2. q \in unchanged /\ (blkno[q] \in written => blkno[q] \in written')
      BY <2>1 DEF Frame, StillFlushing
    <3>3. Flushing(q) /\ PlaceInv(q)
      OBVIOUS
    <3>4. CASE pc'[q] \in {"asleep", "got", "bwrite"}
      <4>1. bp[q] \in Buf
        BY <3>1, <3>3, <3>4, <1>7 DEF PlaceInv, Ins, Sleeps
      <4>2. CASE bp[q] # b
        <5>1. SameBuf(bp[q]) /\ pc'[q] = pc[q]
          BY <3>1, <3>4, <4>1, <4>2, <1>2 DEF Sleeps
        <5> QED
          BY <5>1, <3>1, <3>2, <3>3 DEF Flushing, SameBuf, IsBad
      <4>3. CASE bp[q] = b
        <5>1. Sleeps(q, b) /\ b \in Buf
          BY <1>7, <4>1, <4>3
        <5>2. IsBad(b)' /\ io'[b] = "none" => blkno[q] \in written'
          BY <2>1, <5>1 DEF Settles
        <5> QED
          BY <5>1, <5>2, <4>3, <3>1, <3>2, <3>3 DEF Flushing, IsBad, Sleeps
      <4> QED
        BY <4>2, <4>3
    <3> QED
      BY <3>1, <3>2, <3>3, <3>4 DEF Flushing
  <2> QED
    BY <2>1 DEF Turns, Flushing
<1> QED
  BY <1>0, <1>6, <1>8, <1>10, <1>12, <1>14, <1>15, <1>16, <1>17, <1>18
-----------------------------------------------------------------------------
(* Steps of a process that change no buffer.                               *)

LEMMA SameQueues ==
  ASSUME QueueInv, b_alloc' = b_alloc,
         \A q \in Proc, c \in Buf : Sleeps(q, c)' <=> Sleeps(q, c)
  PROVE  QueueInv'
BY DEF QueueInv

OthersSame(p) ==
  \A q \in Proc \ {p} : /\ pc'[q] = pc[q] /\ call'[q] = call[q] /\ blkno'[q] = blkno[q]
                        /\ bp'[q] = bp[q] /\ kept'[q] = kept[q]

LEMMA ProcListStep ==
  ASSUME IInv, NEW p \in Proc,
         UNCHANGED <<id, b_flags, iodone, io, b_alloc, current, written>>,
         ListInv', Free' = Free,
         ProcTypes', OthersSame(p), unchanged' \subseteq unchanged \cup {p},
         PlaceInv(p)', UseInv(p)', Flushing(p)',
         pc[p] \notin {"asleep", "stolen"}, pc'[p] \notin {"asleep", "got", "stolen"},
         \A c \in Buf : Holds(p, c)' => Holds(p, c) /\ HeldInv(p, c)',
         \A c \in Buf : Holds(p, c) => Holds(p, c)',
         pc'[p] = "nobuf" => Free = {}
  PROVE  IInv'
<1>1. TypeInv'
  BY DEF IInv, TypeInv, BufTypes, DataTypes
<1>2. Free' = Free
  OBVIOUS
<1>3. QueueInv'
  <2>1. ASSUME NEW q \in Proc, NEW c \in Buf
        PROVE  Sleeps(q, c)' <=> Sleeps(q, c)
    BY DEF OthersSame, Sleeps
  <2> QED
    BY <2>1, SameQueues DEF IInv
<1>4. NoFreeBufMissed'
  BY <1>2 DEF IInv, NoFreeBufMissed, OthersSame
<1>5. Frame(p, None, None)
  BY <1>1, <1>2, <1>3, <1>4 DEF Frame, WakesOnly, OthersSame, SameBuf, WritesOnly, StillFlushing
<1>6. Turns(p, None)
  BY DEF Turns
<1> QED
  BY <1>5, <1>6, LocalStep

LEMMA SameLists ==
  ASSUME ListInv, UNCHANGED <<lru, age>>
  PROVE  ListInv' /\ Free' = Free
BY DEF ListInv, Free

LEMMA ProcStep ==
  ASSUME IInv, NEW p \in Proc,
         UNCHANGED <<id, b_flags, iodone, io, lru, age, b_alloc, current, written>>,
         ProcTypes', OthersSame(p), unchanged' \subseteq unchanged \cup {p},
         PlaceInv(p)', UseInv(p)', Flushing(p)',
         pc[p] \notin {"asleep", "stolen"}, pc'[p] \notin {"asleep", "got", "stolen"},
         \A c \in Buf : Holds(p, c)' => Holds(p, c) /\ HeldInv(p, c)',
         \A c \in Buf : Holds(p, c) => Holds(p, c)',
         pc'[p] = "nobuf" => Free = {}
  PROVE  IInv'
<1>1. ListInv' /\ Free' = Free
  BY SameLists DEF IInv
<1> QED
  BY <1>1, ProcListStep

(* What the invariant says of a process that looks for its buffer. *)
LEMMA NoBuffer ==
  ASSUME IInv, NEW p \in Proc, pc[p] \in Ins
  PROVE  /\ bp[p] = None /\ \A c \in Buf : Holds(p, c) <=> kept[p] = c
         /\ kept[p] # None =>
              /\ pc[p] # "idle" /\ kept[p] \in Buf /\ HeldInv(p, kept[p])
              /\ call[p] = "breada"
              /\ id[kept[p]] = blkno[p] /\ "INVAL" \notin b_flags[kept[p]]
BY NoneAssumption DEF IInv, PlaceInv, UseInv, Holds, Ins, TypeInv, ProcTypes

LEMMA CallStep ==
  ASSUME IInv, NEW p \in Proc, Call(p)
  PROVE  IInv'
<1>1. PICK f \in Calls[p] :
        /\ call' = [call EXCEPT ![p] = f]
        /\ IF f \in {"geteblk", "bflush", "binval", "binvalfree"}
           THEN UNCHANGED blkno
           ELSE \E k \in Blk : blkno' = [blkno EXCEPT ![p] = k]
        /\ IF f \in {"bflush", "binval"} THEN invals = None /\ invals' = p
           ELSE UNCHANGED invals
        /\ unchanged' = IF f = "blkflush" THEN unchanged \cup {p} ELSE unchanged
  BY DEF Call
<1>2. /\ pc[p] = "idle" /\ pc' = [pc EXCEPT ![p] = "loop"]
      /\ UNCHANGED <<id, b_flags, iodone, io, lru, age, b_alloc, bp, kept, current, written>>
  BY DEF Call, Goto, lists
<1>3. ProcTypes /\ f \in Functions
  BY CallsAssumption DEF IInv, TypeInv
<1>4. bp[p] = None /\ kept[p] = None /\ \A c \in Buf : ~Holds(p, c)
  BY <1>2, NoBuffer DEF Ins, Holds
<1>5. ProcTypes' /\ OthersSame(p) /\ pc'[p] = "loop" /\ call'[p] = f
  BY <1>1, <1>2, <1>3 DEF ProcTypes, OthersSame, Places
<1>6. f \in ByBlk => blkno'[p] \in Blk
  BY <1>1, <1>3 DEF ByBlk, Getters, ProcTypes
<1>7. p \in unchanged' => f = "blkflush"
  <2>1. p \notin unchanged
    BY <1>2 DEF IInv, Flushing, PlaceInv, Functions
  <2> QED
    BY <1>1, <2>1
<1>8. PlaceInv(p)' /\ UseInv(p)' /\ Flushing(p)'
  BY <1>2, <1>4, <1>5, <1>6, <1>7 DEF PlaceInv, UseInv, Flushing, Ins
<1>9. \A c \in Buf : ~Holds(p, c)'
  BY <1>2, <1>4 DEF Holds
<1> QED
  BY <1>1, <1>2, <1>4, <1>5, <1>8, <1>9, ProcStep

LEMMA NoBufStep ==
  ASSUME IInv, NEW p \in Proc, NoBuf(p)
  PROVE  IInv'
<1>1. /\ pc[p] = "loop" /\ Free = {} /\ pc' = [pc EXCEPT ![p] = "nobuf"]
      /\ UNCHANGED <<id, b_flags, iodone, io, lru, age, b_alloc, invals,
                     call, blkno, bp, kept, current, written, unchanged>>
  BY DEF NoBuf, Misses, Goto, lists, data
<1>2. ProcTypes' /\ OthersSame(p) /\ pc'[p] = "nobuf"
  BY <1>1 DEF IInv, TypeInv, ProcTypes, OthersSame, Places
<1>3. \A c \in Buf : (Holds(p, c)' <=> kept[p] = c) /\ (Holds(p, c) <=> kept[p] = c)
  BY <1>1, <1>2, NoBuffer DEF Holds, Ins
<1>4. PlaceInv(p)' /\ UseInv(p)' /\ Flushing(p)'
  BY <1>1, <1>2 DEF IInv, PlaceInv, UseInv, Flushing, Ins
<1>5. Free' = Free
  BY <1>1 DEF Free
<1>6. \A c \in Buf : Holds(p, c)' => Holds(p, c) /\ HeldInv(p, c)'
  BY <1>1, <1>3, <1>5 DEF IInv, HeldInv
<1> QED
  BY <1>1, <1>2, <1>3, <1>4, <1>6, ProcStep

(* A process leaves a function without a buffer. *)
LEMMA LeaveStep ==
  ASSUME IInv, NEW p \in Proc, pc[p] = "loop", call[p] # "breada",
         pc' = Goto(p, "idle"), Leave(p), invals' \in Proc \cup {None},
         UNCHANGED <<id, b_flags, iodone, io, b_alloc, current, written>>,
         ListInv', Free' = Free
  PROVE  IInv'
<1>1. /\ pc' = [pc EXCEPT ![p] = "idle"] /\ call' = [call EXCEPT ![p] = None]
      /\ blkno' = [blkno EXCEPT ![p] = None] /\ bp' = [bp EXCEPT ![p] = None]
      /\ kept' = kept /\ unchanged' = unchanged \ {p}
  BY DEF Goto, Leave
<1>2. ProcTypes' /\ OthersSame(p) /\ pc'[p] = "idle" /\ call'[p] = None /\ bp'[p] = None
  BY <1>1 DEF IInv, TypeInv, ProcTypes, OthersSame, Places
<1>3. kept[p] = None /\ bp[p] = None
  BY NoBuffer DEF Ins
<1>4. \A c \in Buf : ~Holds(p, c)' /\ ~Holds(p, c)
  BY <1>1, <1>2, <1>3 DEF Holds
<1>5. None \notin ByBlk
  BY DEF ByBlk, Getters, Functions
<1>6. PlaceInv(p)' /\ UseInv(p)' /\ Flushing(p)'
  BY <1>1, <1>2, <1>3, <1>5 DEF PlaceInv, UseInv, Flushing, Ins
<1> QED
  BY <1>1, <1>2, <1>4, <1>6, ProcListStep

LEMMA DoneStep ==
  ASSUME IInv, NEW p \in Proc, pc[p] = "loop", call[p] # "breada", Done(p)
  PROVE  IInv'
<1>1. invals' \in Proc \cup {None}
  BY DEF Done, IInv, TypeInv, ProcTypes
<1>2. ListInv' /\ Free' = Free
  BY SameLists DEF Done, lists, IInv
<1> QED
  BY <1>1, <1>2, LeaveStep DEF Done

LEMMA AbsentStep ==
  ASSUME IInv, NEW p \in Proc, Absent(p)
  PROVE  IInv'
<1>1. invals' \in Proc \cup {None}
  BY DEF Absent, IInv, TypeInv, ProcTypes
<1>2. ListInv' /\ Free' = Free
  BY SameLists DEF Absent, lists, IInv
<1> QED
  BY <1>1, <1>2, LeaveStep DEF Absent, InGetblk

LEMMA biowaitStep ==
  ASSUME IInv, NEW p \in Proc, biowait(p)
  PROVE  IInv'
<1>1. /\ pc[p] = "biowait" /\ iodone[bp[p]] /\ pc' = [pc EXCEPT ![p] = "hold"]
      /\ UNCHANGED <<id, b_flags, iodone, io, lru, age, b_alloc, invals,
                     call, blkno, bp, kept, current, written, unchanged>>
  BY DEF biowait, Goto, lists, data
<1>2. ProcTypes' /\ OthersSame(p) /\ pc'[p] = "hold"
  BY <1>1 DEF IInv, TypeInv, ProcTypes, OthersSame, Places
<1>3. call[p] \in {"bread", "breada"} /\ bp[p] \in Buf /\ kept[p] = None
  BY <1>1 DEF IInv, PlaceInv, TypeInv, ProcTypes, Ins
<1>4. \A c \in Buf : (Holds(p, c)' <=> bp[p] = c) /\ (Holds(p, c) <=> bp[p] = c)
  BY <1>1, <1>2, <1>3 DEF Holds
<1>5. PlaceInv(p)' /\ UseInv(p)' /\ Flushing(p)'
  BY <1>1, <1>2, <1>3 DEF IInv, PlaceInv, UseInv, Flushing, Ins, Getters
<1>6. Free' = Free /\ io[bp[p]] = "none"
  BY <1>1, <1>3 DEF Free, IInv, BufInv
<1>7. \A c \in Buf : Holds(p, c)' => Holds(p, c) /\ HeldInv(p, c)'
  BY <1>1, <1>4, <1>6 DEF IInv, HeldInv
<1> QED
  BY <1>1, <1>2, <1>4, <1>5, <1>7, ProcStep

(* getblk() finds the block it is to read ahead, and waits for the first. *)
LEMMA NoHitStep ==
  ASSUME IInv, NEW p \in Proc, pc[p] = "loop", NEW b \in Buf, kept[p] = b,
         ReadDone(p, b, iodone[b]),
         UNCHANGED <<id, b_flags, iodone, io, lru, age, b_alloc, invals,
                     call, blkno, current, written, unchanged>>
  PROVE  IInv'
<1>1. /\ pc' = [pc EXCEPT ![p] = IF iodone[b] THEN "hold" ELSE "biowait"]
      /\ bp' = [bp EXCEPT ![p] = b] /\ kept' = [kept EXCEPT ![p] = None]
  BY DEF ReadDone, Goto
<1>2. /\ ProcTypes' /\ OthersSame(p) /\ bp'[p] = b /\ kept'[p] = None
      /\ pc'[p] = IF iodone[b] THEN "hold" ELSE "biowait"
  BY <1>1 DEF IInv, TypeInv, ProcTypes, OthersSame, Places
<1>3. /\ bp[p] = None /\ call[p] = "breada" /\ HeldInv(p, b)
      /\ id[b] = blkno[p] /\ "INVAL" \notin b_flags[b]
  BY NoBuffer, NoneAssumption DEF Ins
<1>4. \A c \in Buf : (Holds(p, c)' <=> b = c) /\ (Holds(p, c) <=> b = c)
  BY <1>2, <1>3 DEF Holds
<1>5. PlaceInv(p)' /\ UseInv(p)' /\ Flushing(p)'
  BY <1>2, <1>3 DEF IInv, PlaceInv, UseInv, Flushing, Ins, Getters
<1>6. Free' = Free /\ (io[b] # "none" => ~iodone[b])
  BY <1>3 DEF Free, IInv, BufInv
<1>7. HeldInv(p, b)'
  BY <1>2, <1>3, <1>6 DEF HeldInv
<1> QED
  BY <1>2, <1>4, <1>5, <1>7, ProcStep

(* A process queues for a buffer it finds in use. *)
LEMMA SleepStep ==
  ASSUME IInv, NEW p \in Proc, NEW b \in Buf, pc[p] = "loop", kept[p] = None,
         b \notin Free, id[b] # None, call[p] \in ByBlk => id[b] = blkno[p],
         SleepFor(p, b)
  PROVE  IInv'
<1>1. /\ b_alloc' = [b_alloc EXCEPT ![b] = Append(b_alloc[b], p)]
      /\ bp' = [bp EXCEPT ![p] = b] /\ pc' = [pc EXCEPT ![p] = "asleep"]
      /\ UNCHANGED <<id, b_flags, iodone, io, lru, age, invals, call, blkno,
                     kept, current, written, unchanged>>
  BY DEF SleepFor, Goto, lists, data
<1>2. ProcTypes' /\ OthersSame(p) /\ bp'[p] = b /\ pc'[p] = "asleep"
  BY <1>1 DEF IInv, TypeInv, ProcTypes, OthersSame, Places
<1>3. Free' = Free /\ TypeInv' /\ ListInv' /\ bp[p] = None
  BY <1>1, <1>2, NoBuffer DEF Free, IInv, TypeInv, BufTypes, DataTypes, ListInv, Ins
<1>4. QueueInv'
  <2>1. \A q \in Proc, c \in Buf : Sleeps(q, c)' <=> Sleeps(q, c) \/ (q = p /\ c = b)
    BY <1>2, <1>3 DEF OthersSame, Sleeps
  <2>2. QueueInv /\ p \notin ToSet(b_alloc[b])
    BY <1>3 DEF IInv, QueueInv, Sleeps
  <2>3. IsQueue(b_alloc'[b], Proc) /\ ToSet(b_alloc'[b]) = ToSet(b_alloc[b]) \cup {p}
    BY <1>1, <2>2, QueueAppend DEF QueueInv
  <2>4. DOMAIN b_alloc' = Buf /\ \A c \in Buf \ {b} : b_alloc'[c] = b_alloc[c]
    BY <1>1, <2>2 DEF QueueInv
  <2> QED
    BY <2>1, <2>2, <2>3, <2>4 DEF QueueInv
<1>5. NoFreeBufMissed'
  BY <1>2, <1>3 DEF IInv, NoFreeBufMissed, OthersSame
<1>6. Frame(p, None, None)
  BY <1>1, <1>2, <1>3, <1>4, <1>5
  DEF Frame, WakesOnly, OthersSame, SameBuf, WritesOnly, StillFlushing
<1>7. PlaceInv(p)' /\ UseInv(p)'
  BY <1>1, <1>2 DEF IInv, PlaceInv, UseInv, Ins
<1>8. Awaits(p)'
  BY <1>1, <1>2 DEF Awaits, Match
<1>9. Flushing(p)'
  <2>1. SUFFICES ASSUME p \in unchanged, IsBad(b), io[b] = "none"
                 PROVE  blkno[p] \in written
    BY <1>1, <1>2 DEF IInv, Flushing, IsBad
  <2>2. id[b] = blkno[p] /\ blkno[p] \in Blk
    BY <2>1 DEF IInv, Flushing, ByBlk, PlaceInv
  <2>3. b \notin current /\ Unique /\ NoLostWrite /\ current \subseteq Buf
    BY <2>1 DEF IInv, BufInv, TypeInv, DataTypes
  <2> QED
    BY <2>2, <2>3 DEF Unique, NoLostWrite
<1>10. \A c \in Buf : ~Holds(p, c) /\ ~Holds(p, c)'
  BY <1>1, <1>2, NoBuffer DEF Holds, Ins
<1>11. Turns(p, None)
  BY <1>2, <1>3, <1>7, <1>8, <1>9, <1>10 DEF Turns
<1> QED
  BY <1>6, <1>11, LocalStep
-----------------------------------------------------------------------------
(* getblk() and geteblk() return a buffer.                                 *)

(* The buffer b with flags f that a process gets. *)
Fit(p, b, f, done) ==
  /\ f \subseteq Flags \ {"ASYNC"} /\ done \in BOOLEAN
  /\ io[b] = "none"
  /\ \A q \in Proc \ {p} : ~Holds(q, b)
  /\ IF call[p] = "geteblk" THEN id[b] = None /\ f = {"INVAL"}
     ELSE /\ call[p] \in Getters /\ f \cap Bad = {}
          /\ id[b] = Wanted(p) /\ id[b] # None
  /\ "DELWRI" \in f => done
  /\ b \in current => id[b] # None
  /\ done /\ id[b] # None => b \in current
  /\ id[b] # None /\ id[b] \notin written => b \in current /\ "DELWRI" \in f
  /\ \A q \in Proc : Sleeps(q, b) => Match(q)

LEMMA GotBlkStep ==
  ASSUME IInv, NEW p \in Proc, NEW b \in Buf, NEW f, NEW done,
         \/ pc[p] = "loop" /\ kept[p] = None
         \/ pc[p] = "got" /\ bp[p] = b
         \/ pc[p] = "stolen" /\ bp[p] = b /\ ~(kept[p] # None /\ done),
         Fit(p, b, f, done), GotBlk(p, b, f, done),
         ListInv', Free' = Free \ {b},
         UNCHANGED <<id, b_alloc, invals, current, written, unchanged>>
  PROVE  IInv'
<1>1. /\ UNCHANGED <<id, b_alloc, invals, current, written, unchanged, call, blkno>>
      /\ iodone' = [iodone EXCEPT ![b] = done]
  BY DEF GotBlk
<1>2. /\ PlaceInv(p) /\ UseInv(p) /\ ProcTypes /\ BufTypes /\ DataTypes
      /\ call[p] \in Getters \cup {"geteblk"} /\ kept[p] # b
      /\ kept[p] # None => pc[p] = "stolen"
      /\ pc[p] = "loop" => bp[p] = None
      /\ \A c \in Buf : Holds(p, c) => HeldInv(p, c)
  <2>1. /\ PlaceInv(p) /\ UseInv(p) /\ ProcTypes /\ BufTypes /\ DataTypes
        /\ \A c \in Buf : Holds(p, c) => HeldInv(p, c)
    BY DEF IInv, TypeInv
  <2> QED
    BY <2>1 DEF Fit, PlaceInv, Ins
<1>3. p \notin unchanged
  BY <1>2 DEF IInv, Flushing, Getters
<1>4. (* what becomes of p and b *)
      \/ /\ kept[p] # None
         /\ b_flags' = [b_flags EXCEPT ![b] = f \cup {"ASYNC"}]
         /\ io' = [io EXCEPT ![b] = "read"]
         /\ pc' = [pc EXCEPT ![p] = IF iodone[kept[p]] THEN "hold" ELSE "biowait"]
         /\ bp' = [bp EXCEPT ![p] = kept[p]]
         /\ kept' = [kept EXCEPT ![p] = None]
      \/ /\ kept[p] = None /\ call[p] = "breada" /\ Ahead[blkno[p]] # None
         /\ b_flags' = [b_flags EXCEPT ![b] = f]
         /\ io' = [io EXCEPT ![b] = IF done THEN io[b] ELSE "read"]
         /\ pc' = [pc EXCEPT ![p] = "loop"]
         /\ bp' = [bp EXCEPT ![p] = None]
         /\ kept' = [kept EXCEPT ![p] = b]
      \/ /\ kept[p] = None /\ call[p] \in {"bread", "breada"}
         /\ b_flags' = [b_flags EXCEPT ![b] = f]
         /\ io' = [io EXCEPT ![b] = IF done THEN io[b] ELSE "read"]
         /\ pc' = [pc EXCEPT ![p] = IF done THEN "hold" ELSE "biowait"]
         /\ bp' = [bp EXCEPT ![p] = b]
         /\ kept' = [kept EXCEPT ![p] = None]
      \/ /\ kept[p] = None /\ call[p] \notin {"bread", "breada"}
         /\ b_flags' = [b_flags EXCEPT ![b] = f]
         /\ io' = [io EXCEPT ![b] = io[b]]
         /\ pc' = [pc EXCEPT ![p] = "hold"]
         /\ bp' = [bp EXCEPT ![p] = b]
         /\ kept' = kept
  BY DEF GotBlk, ReadDone, Goto
<1>5. ProcTypes' /\ OthersSame(p)
  BY <1>1, <1>2, <1>4 DEF ProcTypes, OthersSame, Places
<1>6. TypeInv'
  <2>1. "ASYNC" \in Flags /\ f \subseteq Flags /\ done \in BOOLEAN
    BY DEF Flags, Fit
  <2>2. b_flags' \in [Buf -> SUBSET Flags] /\ io' \in [Buf -> {"none", "read", "write"}]
    BY <1>2, <1>4, <2>1 DEF BufTypes
  <2> QED
    BY <1>1, <1>2, <1>5, <2>1, <2>2 DEF TypeInv, BufTypes, DataTypes
<1>7. /\ pc'[p] \in {"hold", "biowait", "loop"} /\ pc[p] # "asleep"
      /\ \A c \in Buf : ~Sleeps(p, c) /\ ~Sleeps(p, c)'
  BY <1>2, <1>4 DEF Sleeps, ProcTypes
<1>8. QueueInv'
  <2>1. ASSUME NEW q \in Proc, NEW c \in Buf
        PROVE  Sleeps(q, c)' <=> Sleeps(q, c)
    BY <1>5, <1>7 DEF OthersSame, Sleeps
  <2> QED
    BY <1>1, <2>1, SameQueues DEF IInv
<1>9. NoFreeBufMissed'
  BY <1>5, <1>7 DEF IInv, NoFreeBufMissed, OthersSame
<1>10. \A c \in Buf \ {b} : SameBuf(c)
  BY <1>1, <1>2, <1>4 DEF SameBuf, BufTypes
<1>11. Frame(p, b, None)
  BY <1>1, <1>5, <1>6, <1>8, <1>9, <1>10 DEF Frame, WakesOnly, OthersSame, WritesOnly, StillFlushing
(* What p has, and that b is not in the hands of another one. *)
<1>12. /\ iodone'[b] = done /\ id' = id /\ b \notin Free'
       /\ b_flags'[b] = IF kept[p] # None THEN f \cup {"ASYNC"} ELSE f
       /\ io'[b] \in {"none", "read"}
       /\ call[p] \notin {"bread", "breada"} => io'[b] = "none"
       /\ io'[b] # "none" => ~done
       /\ kept[p] # None => io'[b] = "read"
  BY <1>1, <1>2, <1>4 DEF Fit, BufTypes, Getters, PlaceInv
<1>13. /\ \A q \in Proc \ {p} : ~Holds(q, b)
       /\ f \subseteq Flags \ {"ASYNC"} /\ done \in BOOLEAN
       /\ IF call[p] = "geteblk" THEN id[b] = None /\ f = {"INVAL"}
          ELSE call[p] \in Getters /\ f \cap Bad = {} /\ id[b] = Wanted(p) /\ id[b] # None
       /\ "DELWRI" \in f => done
       /\ b \in current => id[b] # None
       /\ done /\ id[b] # None => b \in current
       /\ id[b] # None /\ id[b] \notin written => b \in current /\ "DELWRI" \in f
       /\ \A q \in Proc : Sleeps(q, b) => Match(q)
       /\ kept[p] # None => ~done
  BY <1>2 DEF Fit
<1>14. IsBad(b)' <=> call[p] = "geteblk"
  <2>1. "geteblk" \notin Getters /\ {"INVAL"} \cap Bad = {"INVAL"} /\ "ASYNC" \notin Bad
    BY DEF Getters, Bad
  <2>2. call[p] = "geteblk" => kept[p] = None
    BY <1>2 DEF PlaceInv
  <2> QED
    BY <1>12, <1>13, <2>1, <2>2 DEF IsBad
<1>15. Holds(p, b)' \/ (io'[b] # "none" /\ "ASYNC" \in b_flags'[b])
  BY <1>2, <1>4, <1>12, <1>7 DEF Holds, ProcTypes
<1>16. BufInv(b)'
  BY <1>1, <1>12, <1>13, <1>14, <1>15 DEF BufInv
<1>17. Settles(p, b, None)
  <2>1. ASSUME NEW q \in Proc \ {p}, Sleeps(q, b)
        PROVE  Match(q)' /\ pc'[q] # "got" /\ ~IsBad(b)'
    <3>1. Match(q) /\ bp[q] = b /\ pc'[q] = "asleep" /\ bp'[q] = b
          /\ call'[q] = call[q] /\ blkno'[q] = blkno[q]
      BY <1>5, <1>13, <2>1 DEF Sleeps, OthersSame
    <3> QED
      BY <3>1, <1>12, <1>13, <1>14 DEF Match
  <2>2. \A c \in Buf \ {b} : id'[b] = id[c] => id'[b] = None
    BY <1>12 DEF IInv, Unique
  <2>3. id[b] # None /\ id[b] \notin written' =>
          b \in current' /\ id'[b] = id[b] /\ "DELWRI" \in b_flags'[b]
    BY <1>1, <1>12, <1>13
  <2> QED
    BY <1>13, <1>16, <2>1, <2>2, <2>3, <1>7 DEF Settles
<1>18. /\ pc[p] = "stolen" => bp[p] = b
       /\ p \notin unchanged'
       /\ blkno' = blkno /\ call' = call
  BY <1>1, <1>2, <1>3, <1>4 DEF Getters
(* The buffers p has are b, or the first buffer of breada(). *)
<1>19. CASE kept[p] # None
  <2>1. PICK a \in Buf \ {b} : a = kept[p]
    BY <1>2, <1>19 DEF ProcTypes
  <2>2. /\ pc'[p] = IF iodone[a] THEN "hold" ELSE "biowait"
        /\ bp'[p] = a /\ kept'[p] = None
    BY <2>1, <1>19, <1>4, <1>2 DEF ProcTypes
  <2>3. HeldInv(p, a) /\ call[p] = "breada" /\ id[a] = blkno[p] /\ "INVAL" \notin b_flags[a]
        /\ (io[a] # "none" => ~iodone[a]) /\ bp[p] = b
    BY <2>1, <1>2, <1>18, <1>19 DEF Holds, PlaceInv, UseInv, IInv, BufInv
  <2>4. SameBuf(a)
    BY <2>1, <1>10
  <2>5. PlaceInv(p)' /\ UseInv(p)' /\ HeldInv(p, a)'
    BY <2>1, <2>2, <2>3, <2>4, <1>2, <1>18 DEF PlaceInv, UseInv, HeldInv, SameBuf, Ins
  <2>6. \A c \in Buf : (Holds(p, c)' <=> c = a) /\ (c # b => (Holds(p, c) <=> c = a))
    BY <2>1, <2>2, <2>3, <1>7 DEF Holds
  <2>7. Turns(p, b)
    BY <2>2, <2>5, <2>6, <1>7, <1>18 DEF Turns, Flushing
  <2> QED
    BY <2>7, <1>11, <1>17, LocalStep
<1>20. CASE kept[p] = None
  <2>1. \A c \in Buf : (Holds(p, c)' <=> c = b) /\ (c # b => ~Holds(p, c))
    BY <1>2, <1>4, <1>7, <1>18, <1>20 DEF Holds, ProcTypes
  <2>2. \/ /\ call[p] = "breada" /\ Ahead[blkno[p]] # None
           /\ pc'[p] = "loop" /\ bp'[p] = None /\ kept'[p] = b
        \/ /\ call[p] \in {"bread", "breada"} /\ pc'[p] = IF done THEN "hold" ELSE "biowait"
           /\ bp'[p] = b /\ kept'[p] = None
        \/ /\ call[p] \notin {"bread", "breada"} /\ pc'[p] = "hold"
           /\ bp'[p] = b /\ kept'[p] = None
    BY <1>2, <1>4, <1>20 DEF ProcTypes
  <2>3. b_flags'[b] = f /\ (call[p] \in Getters => id[b] = blkno[p] /\ "INVAL" \notin f)
    BY <1>12, <1>13, <1>20 DEF Wanted, Getters, Bad
  <2>4. HeldInv(p, b)'
    BY <2>2, <2>3, <1>12, <1>13 DEF HeldInv
  <2>5. PlaceInv(p)'
    BY <2>2, <1>2, <1>18 DEF PlaceInv, Ins
  <2>6. UseInv(p)'
    BY <2>2, <2>3, <1>2, <1>12, <1>13, <1>18 DEF UseInv, Getters
  <2>7. Turns(p, b)
    BY <2>1, <2>4, <2>5, <2>6, <1>7, <1>18, <1>20 DEF Turns, Flushing
  <2> QED
    BY <2>7, <1>11, <1>17, LocalStep
<1> QED
  BY <1>19, <1>20

(* A block has contents that are not on the disk only in its buffer. *)
LEMMA Unwritten ==
  ASSUME IInv, NEW b \in Buf, id[b] # None, id[b] \notin written
  PROVE  b \in current /\ (io[b] = "write" \/ "DELWRI" \in b_flags[b])
<1>1. id[b] \in Blk
  BY DEF IInv, TypeInv, BufTypes
<1>2. PICK c \in current : id[c] = id[b] /\ (io[c] = "write" \/ "DELWRI" \in b_flags[c])
  BY <1>1 DEF IInv, NoLostWrite
<1> QED
  BY <1>2 DEF IInv, Unique, TypeInv, DataTypes

(* A buffer of the block, free or handed over. *)
LEMMA OldFit ==
  ASSUME IInv, NEW p \in Proc, NEW b \in Buf,
         call[p] \in Getters, kept[p] = None, id[b] = blkno[p], ~IsBad(b),
         io[b] = "none", "ASYNC" \notin b_flags[b],
         \A q \in Proc \ {p} : ~Holds(q, b),
         pc[p] # "stolen"
  PROVE  Fit(p, b, b_flags[b], iodone[b])
<1>1. /\ b_flags[b] \subseteq Flags \ {"ASYNC"} /\ iodone[b] \in BOOLEAN
      /\ BufInv(b) /\ "geteblk" \notin Getters
  BY DEF IInv, TypeInv, BufTypes, Getters
<1>2. id[b] = Wanted(p) /\ id[b] # None
  BY DEF IInv, PlaceInv, ByBlk, Wanted
<1>3. \A q \in Proc : pc[q] = "stolen" => bp[q] # b
  BY DEF Holds
<1>4. ASSUME NEW q \in Proc, Sleeps(q, b)
      PROVE  Match(q)
  BY <1>4 DEF IInv, Awaits, Sleeps
<1>5. id[b] \notin written => b \in current /\ "DELWRI" \in b_flags[b]
  BY <1>2, Unwritten
<1> QED
  BY <1>1, <1>2, <1>3, <1>4, <1>5 DEF Fit, BufInv, IsBad

LEMMA HitStep ==
  ASSUME IInv, NEW p \in Proc, Hit(p)
  PROVE  IInv'
<1>1. pc[p] = "loop" /\ call[p] \in Getters /\ bp[p] = None
  BY NoBuffer DEF Hit, InGetblk, Ins
<1>2. PICK b \in Hits(p) :
        \/ /\ kept[p] # None
           /\ ReadDone(p, kept[p], iodone[kept[p]])
           /\ UNCHANGED <<id, b_flags, iodone, io, lists, b_alloc, invals, call, blkno, data>>
        \/ kept[p] = None /\ b \notin Free /\ SleepFor(p, b)
        \/ /\ kept[p] = None /\ b \in Free
           /\ notavail(b)
           /\ GotBlk(p, b, b_flags[b], iodone[b])
           /\ UNCHANGED <<id, b_alloc, invals, data>>
  BY DEF Hit
<1>3. b \in Buf /\ id[b] = Wanted(p)
  BY DEF Hits
<1>4. CASE /\ kept[p] # None
           /\ ReadDone(p, kept[p], iodone[kept[p]])
           /\ UNCHANGED <<id, b_flags, iodone, io, lists, b_alloc, invals, call, blkno, data>>
  <2>1. kept[p] \in Buf
    BY <1>4 DEF IInv, TypeInv, ProcTypes
  <2> QED
    BY <1>1, <1>4, <2>1, NoHitStep DEF lists, data
<1>5. ASSUME kept[p] = None
      PROVE  id[b] = blkno[p] /\ id[b] # None
  BY <1>1, <1>3, <1>5 DEF Wanted, IInv, PlaceInv, ByBlk
<1>6. CASE kept[p] = None /\ b \notin Free /\ SleepFor(p, b)
  BY <1>1, <1>3, <1>5, <1>6, SleepStep
<1>7. CASE /\ kept[p] = None /\ b \in Free
           /\ notavail(b)
           /\ GotBlk(p, b, b_flags[b], iodone[b])
           /\ UNCHANGED <<id, b_alloc, invals, data>>
  <2>1. /\ io[b] = "none" /\ "ASYNC" \notin b_flags[b] /\ ~IsBad(b)
        /\ \A q \in Proc : ~Holds(q, b)
    BY <1>3, <1>5, <1>7 DEF IInv, BufInv, Holds
  <2>2. Fit(p, b, b_flags[b], iodone[b])
    BY <1>1, <1>3, <1>5, <1>7, <2>1, OldFit
  <2>3. ListInv' /\ Free' = Free \ {b}
    BY <1>7, NotavailLists DEF IInv
  <2> QED
    BY <1>1, <1>3, <1>7, <2>2, <2>3, GotBlkStep DEF data
<1> QED
  BY <1>2, <1>4, <1>6, <1>7

(* getblk() has slept, and the buffer is still one of the block. *)
LEMMA WokenGotStep ==
  ASSUME IInv, NEW p \in Proc, NEW b \in Buf, InGetblk(p, "got"), bp[p] = b,
         ~IsBad(b), GotBlk(p, b, b_flags[b], iodone[b]),
         UNCHANGED <<id, lists, b_alloc, invals, data>>
  PROVE  IInv'
<1>1. pc[p] = "got" /\ call[p] \in Getters /\ kept[p] = None
  BY DEF InGetblk, IInv, PlaceInv
<1>2. Holds(p, b) /\ HeldInv(p, b) /\ \A q \in Proc \ {p} : ~Holds(q, b)
  BY <1>1 DEF Holds, IInv, OneHolder
<1>3. io[b] = "none" /\ "ASYNC" \notin b_flags[b] /\ b \notin Free
  BY <1>1, <1>2 DEF HeldInv
<1>4. id[b] = blkno[p]
  BY <1>1 DEF IInv, Awaits, Match, ByBlk
<1>5. Fit(p, b, b_flags[b], iodone[b])
  BY <1>1, <1>2, <1>3, <1>4, OldFit
<1>6. ListInv' /\ Free' = Free \ {b}
  BY <1>3 DEF IInv, ListInv, lists, Free
<1> QED
  BY <1>1, <1>5, <1>6, GotBlkStep DEF data

LEMMA StolenStep ==
  ASSUME IInv, NEW p \in Proc, Stolen(p)
  PROVE  IInv'
<1>1. pc[p] = "stolen" /\ UNCHANGED <<id, lru, age, b_alloc, invals, current, written, unchanged>>
  BY DEF Stolen, lists, data
<1>2. PICK b \in Buf : b = bp[p]
  BY <1>1 DEF IInv, TypeInv, ProcTypes, PlaceInv, Ins
<1> DEFINE f == IF call[p] = "geteblk" THEN {"INVAL"} ELSE {}
           done == call[p] = "geteblk" /\ iodone[b]
<1>3. GotBlk(p, b, f, done)
  BY <1>2 DEF Stolen, IInv, TypeInv, BufTypes
<1>4. /\ call[p] \in Getters \cup {"geteblk"}
      /\ id[b] = IF call[p] = "geteblk" THEN None ELSE Wanted(p)
      /\ b \notin current
  BY <1>1, <1>2 DEF IInv, PlaceInv, UseInv
<1>5. Holds(p, b) /\ HeldInv(p, b) /\ \A q \in Proc \ {p} : ~Holds(q, b)
  BY <1>1, <1>2 DEF Holds, IInv, OneHolder
<1>6. kept[p] # b /\ (kept[p] # None => call[p] = "breada" /\ Ahead[blkno[p]] # None)
  BY <1>1, <1>2 DEF IInv, PlaceInv
<1>7. call[p] # "geteblk" => call[p] \in Getters /\ id[b] = Wanted(p) /\ id[b] # None
  BY <1>4, <1>6 DEF Wanted, IInv, PlaceInv, ByBlk
<1>8. ASSUME NEW q \in Proc, Sleeps(q, b)
      PROVE  Match(q)
  BY <1>1, <1>2, <1>8 DEF IInv, Awaits, Sleeps
<1>9. id[b] # None => id[b] \in written
  BY <1>4, Unwritten
<1>10. b \notin Free /\ io[b] = "none"
  BY <1>1, <1>5, <1>6 DEF HeldInv
<1>11. Fit(p, b, f, done)
  <2>1. f \subseteq Flags \ {"ASYNC"} /\ done \in BOOLEAN /\ "DELWRI" \notin f
        /\ (call[p] # "geteblk" => f \cap Bad = {} /\ ~done)
    BY DEF Flags
  <2> HIDE DEF f, done
  <2>2. done => id[b] = None
    BY <1>4, <2>1
  <2> QED
    BY <1>4, <1>5, <1>7, <1>8, <1>9, <1>10, <2>1, <2>2 DEF Fit, f
<1>12. ListInv' /\ Free' = Free \ {b}
  BY <1>1, <1>10 DEF IInv, ListInv, Free
<1>13. ~(kept[p] # None /\ done)
  BY <1>6
<1> HIDE DEF f, done
<1> QED
  BY <1>1, <1>2, <1>3, <1>11, <1>12, <1>13, GotBlkStep

LEMMA StealStep ==
  ASSUME IInv, NEW p \in Proc, Steal(p)
  PROVE  IInv'
<1>1. PICK b \in Free :
        /\ "DELWRI" \notin b_flags[b] /\ notavail(b)
        /\ id' = [id EXCEPT ![b] = IF call[p] = "geteblk" THEN None ELSE Wanted(p)]
        /\ bp' = [bp EXCEPT ![p] = b]
        /\ pc' = [pc EXCEPT ![p] = "stolen"]
        /\ current' = current \ {b}
  BY HeadFree DEF Steal, Goto, IInv
<1>2. /\ pc[p] = "loop"
      /\ call[p] = "geteblk" \/ (call[p] \in Getters /\ Hits(p) = {})
      /\ UNCHANGED <<b_flags, iodone, io, b_alloc, invals, call, blkno, kept, written, unchanged>>
  BY DEF Steal, Misses
<1>3. b \in Buf /\ ListInv' /\ Free' = Free \ {b}
  BY <1>1, NotavailLists, FreeIs DEF IInv
<1>4. bp[p] = None /\ ProcTypes /\ BufTypes /\ DataTypes
  BY <1>2, NoBuffer DEF Ins, IInv, TypeInv
<1>5. ProcTypes' /\ OthersSame(p) /\ bp'[p] = b /\ pc'[p] = "stolen"
  BY <1>1, <1>2, <1>3, <1>4 DEF ProcTypes, OthersSame, Places
<1>6. call[p] # "geteblk" => Wanted(p) \in Blk \cup {None}
  <2>1. call[p] # "geteblk" => blkno[p] \in Blk
    BY <1>2 DEF IInv, PlaceInv, ByBlk
  <2> QED
    BY <2>1, AheadAssumption DEF Wanted
<1>7. TypeInv'
  BY <1>1, <1>2, <1>4, <1>5, <1>6 DEF TypeInv, BufTypes, DataTypes
<1>8. QueueInv'
  <2>1. ASSUME NEW q \in Proc, NEW c \in Buf
        PROVE  Sleeps(q, c)' <=> Sleeps(q, c)
    BY <1>2, <1>5 DEF OthersSame, Sleeps
  <2> QED
    BY <1>2, <2>1, SameQueues DEF IInv
<1>9. NoFreeBufMissed'
  BY <1>3, <1>5 DEF IInv, NoFreeBufMissed, OthersSame
<1>10. Frame(p, b, None)
  BY <1>1, <1>2, <1>3, <1>4, <1>5, <1>7, <1>8, <1>9
  DEF Frame, WakesOnly, OthersSame, SameBuf, WritesOnly, StillFlushing, BufTypes
<1>11. /\ io[b] = "none" /\ "ASYNC" \notin b_flags[b]
       /\ \A q \in Proc : bp[q] # b /\ kept[q] # b
  BY <1>1, <1>3 DEF IInv, BufInv
<1>12. id'[b] = IF call[p] = "geteblk" THEN None ELSE Wanted(p)
  BY <1>1, <1>3, <1>4 DEF BufTypes
<1>13. BufInv(b)'
  BY <1>1, <1>2, <1>3, <1>5, <1>11 DEF BufInv, Holds
<1>14. Settles(p, b, None)
  <2>1. \A c \in Buf \ {b} : id'[b] = id[c] => id'[b] = None
    BY <1>2, <1>12 DEF Hits
  <2>2. id[b] # None => id[b] \in written'
    BY <1>1, <1>2, <1>3, <1>11, Unwritten
  <2>3. \A q \in Proc : ~Holds(q, b) /\ ~Sleeps(q, b)
    BY <1>11 DEF Holds, Sleeps
  <2> QED
    BY <1>13, <2>1, <2>2, <2>3 DEF Settles
<1>15. PlaceInv(p)' /\ UseInv(p)'
  <2>1. kept'[p] # None => kept[p] \in Buf \ {b} /\ kept'[p] = kept[p] /\ id'[kept[p]] = id[kept[p]]
    BY <1>1, <1>2, <1>4, <1>11 DEF ProcTypes, BufTypes
  <2>2. PlaceInv(p) /\ UseInv(p) /\ Wanted(p)' = Wanted(p)
    BY <1>2 DEF IInv, Wanted
  <2> QED
    BY <1>1, <1>2, <1>3, <1>5, <1>12, <2>1, <2>2 DEF PlaceInv, UseInv, Ins
<1>16. \A c \in Buf : (Holds(p, c)' <=> c = b \/ kept[p] = c) /\ (Holds(p, c) <=> kept[p] = c)
  BY <1>2, <1>3, <1>4, <1>5 DEF Holds
<1>17. \A c \in Buf : Holds(p, c)' => HeldInv(p, c)'
  BY <1>2, <1>3, <1>11, <1>16 DEF HeldInv, IInv
<1>18. p \notin unchanged'
  BY <1>2 DEF IInv, Flushing, Getters
<1>19. Turns(p, b)
  BY <1>2, <1>5, <1>15, <1>16, <1>17, <1>18, <1>11 DEF Turns, Flushing
<1> QED
  BY <1>10, <1>14, <1>19, LocalStep
-----------------------------------------------------------------------------
(* A buffer is given to the driver to be written.                          *)

(* A dirty buffer has the contents of its block. *)
LEMMA Dirty ==
  ASSUME IInv, NEW b \in Buf, "DELWRI" \in b_flags[b], id[b] # None,
         \A q \in Proc : ~(pc[q] = "stolen" /\ bp[q] = b)
  PROVE  b \in current /\ ~IsBad(b)
BY DEF IInv, BufInv

LEMMA BwriteStep ==
  ASSUME IInv, NEW p, NEW b \in Buf, NEW f, f \subseteq Flags, bwrite(b, f),
         io[b] = "none", id[b] # None, b \in current',
         \A q \in Proc \ {p} : ~Holds(q, b),
         \A q \in Proc : Sleeps(q, b) => Match(q),
         UNCHANGED <<id, b_alloc, invals>>, ListInv', Free' = Free \ {b},
         current' \subseteq Buf, \A c \in Buf \ {b} : c \in current' <=> c \in current,
         written' \subseteq Blk, WritesOnly(b), StillFlushing(p),
         OthersSame(p), ProcTypes',
         \A q \in Proc, c \in Buf : Sleeps(q, c)' <=> Sleeps(q, c),
         p \in Proc =>
           /\ PlaceInv(p)' /\ Flushing(p)' /\ pc[p] \notin {"asleep", "stolen"}
           /\ pc'[p] \in {"idle", "bwrite"} /\ kept'[p] = None
           /\ \A c \in Buf \ {b} : ~Holds(p, c)
           /\ pc'[p] = "bwrite" =>
                /\ bp'[p] = b /\ "ASYNC" \notin f
                /\ call'[p] = "blkflush" => id[b] = blkno'[p],
         \/ p \in Proc /\ pc'[p] = "bwrite"
         \/ "ASYNC" \in f
  PROVE  IInv'
<1>1. BufTypes /\ ProcTypes /\ QueueInv
  BY DEF IInv, TypeInv
<1>2. /\ b_flags' = [b_flags EXCEPT ![b] = b_flags'[b]]
      /\ b_flags'[b] \subseteq Flags /\ "DELWRI" \notin b_flags'[b]
      /\ "ASYNC" \in b_flags'[b] <=> "ASYNC" \in f
      /\ iodone' = [iodone EXCEPT ![b] = FALSE] /\ io' = [io EXCEPT ![b] = "write"]
  <2> DEFINE g == (f \ {"ERROR", "DELWRI"}) \cup (IF "DELWRI" \in f THEN {"AGE"} ELSE {})
  <2>1. /\ b_flags' = [b_flags EXCEPT ![b] = g]
        /\ iodone' = [iodone EXCEPT ![b] = FALSE] /\ io' = [io EXCEPT ![b] = "write"]
    BY DEF bwrite
  <2>2. g \subseteq Flags /\ "DELWRI" \notin g /\ ("ASYNC" \in g <=> "ASYNC" \in f)
    BY DEF Flags
  <2> HIDE DEF g
  <2>3. b_flags'[b] = g
    BY <1>1, <2>1 DEF BufTypes
  <2> QED
    BY <2>1, <2>2, <2>3
<1>3. /\ iodone'[b] = FALSE /\ io'[b] = "write" /\ id'[b] = id[b] /\ b \notin Free'
      /\ \A c \in Buf \ {b} : SameBuf(c)
  BY <1>1, <1>2 DEF BufTypes, SameBuf
<1>4. TypeInv'
  BY <1>1, <1>2 DEF TypeInv, BufTypes, DataTypes
<1>5. QueueInv'
  BY <1>1, SameQueues
<1>6. NoFreeBufMissed'
  BY DEF IInv, NoFreeBufMissed, OthersSame
<1>7. Frame(p, b, None)
  BY <1>3, <1>4, <1>5, <1>6 DEF Frame, WakesOnly, OthersSame
<1>8. BufInv(b)'
  BY <1>2, <1>3 DEF BufInv, Holds
<1>9. Settles(p, b, None)
  <2>1. ASSUME NEW q \in Proc \ {p}, Sleeps(q, b)
        PROVE  Match(q)' /\ pc'[q] # "got"
    BY <2>1 DEF Match, OthersSame, Sleeps
  <2>2. \A c \in Buf \ {b} : id'[b] = id[c] => id'[b] = None
    BY <1>3 DEF IInv, Unique
  <2> QED
    BY <1>3, <1>8, <2>1, <2>2 DEF Settles
<1>10. ASSUME p \in Proc
       PROVE  Turns(p, b)
  <2>1. UseInv(p)'
    BY <1>3, <1>10 DEF UseInv
  <2>2. \A c \in Buf : Holds(p, c)' => c = b /\ pc'[p] = "bwrite"
    BY <1>10 DEF Holds, PlaceInv, Ins
  <2>3. \A c \in Buf : Holds(p, c)' => HeldInv(p, c)'
    BY <2>2, <1>2, <1>3, <1>10 DEF HeldInv
  <2> QED
    BY <2>1, <2>2, <2>3, <1>10 DEF Turns
<1> QED
  BY <1>7, <1>9, <1>10, LocalStep

(* A buffer that nobody has. *)
LEMMA Unheld ==
  ASSUME IInv, NEW b \in Buf, b \in Free
  PROVE  /\ io[b] = "none" /\ "ASYNC" \notin b_flags[b]
         /\ id[b] = None <=> IsBad(b)
         /\ IsBad(b) => "DELWRI" \notin b_flags[b]
         /\ \A q \in Proc : bp[q] # b /\ kept[q] # b /\ ~Holds(q, b) /\ ~Sleeps(q, b)
BY DEF IInv, BufInv, Holds, Sleeps

(* The one process that has a buffer. *)
LEMMA Held ==
  ASSUME IInv, NEW p \in Proc, pc[p] \in {"got", "hold", "bwrite", "biowait"}
  PROVE  /\ bp[p] \in Buf /\ kept[p] = None /\ Holds(p, bp[p]) /\ HeldInv(p, bp[p])
         /\ pc[p] \in {"got", "hold"} => io[bp[p]] = "none"
         /\ \A q \in Proc \ {p} : ~Holds(q, bp[p])
         /\ \A q \in Proc : ~(pc[q] = "stolen" /\ bp[q] = bp[p])
         /\ \A c \in Buf \ {bp[p]} : ~Holds(p, c)
<1>1. bp[p] \in Buf /\ kept[p] = None
  BY DEF IInv, PlaceInv, TypeInv, ProcTypes, Ins
<1>2. Holds(p, bp[p])
  BY DEF Holds
<1>3. HeldInv(p, bp[p]) /\ \A q \in Proc \ {p} : ~Holds(q, bp[p])
  BY <1>1, <1>2 DEF IInv, OneHolder
<1> QED
  BY <1>1, <1>2, <1>3 DEF HeldInv, Holds

LEMMA WriteAsyncStep ==
  ASSUME IInv, NEW b \in Buf, b \in Free, "DELWRI" \in b_flags[b], WriteAsync(b)
  PROVE  IInv'
<1> DEFINE f == b_flags[b] \cup {"ASYNC"}
<1>1. /\ notavail(b) /\ bwrite(b, f)
      /\ UNCHANGED <<id, b_alloc, invals, pc, call, blkno, bp, kept, current, written, unchanged>>
  BY DEF WriteAsync, procs, data
<1>2. ListInv' /\ Free' = Free \ {b}
  BY <1>1, NotavailLists DEF IInv
<1>3. io[b] = "none" /\ id[b] # None /\ \A q \in Proc : ~Holds(q, b) /\ ~Sleeps(q, b) /\ bp[q] # b
  BY Unheld
<1>4. b \in current
  BY <1>3, Dirty
<1>5. f \subseteq Flags /\ "ASYNC" \in f
  BY DEF IInv, TypeInv, BufTypes, Flags
<1>6. ProcTypes' /\ current \subseteq Buf /\ written \subseteq Blk
  BY <1>1 DEF IInv, TypeInv, ProcTypes, DataTypes
<1>7. OthersSame(None) /\ WritesOnly(b) /\ StillFlushing(None)
      /\ \A q \in Proc, c \in Buf : Sleeps(q, c)' <=> Sleeps(q, c)
  BY <1>1 DEF OthersSame, WritesOnly, StillFlushing, Sleeps
<1>8. None \notin Proc
  BY NoneAssumption
<1> HIDE DEF f
<1> QED
  BY <1>1, <1>2, <1>3, <1>4, <1>5, <1>6, <1>7, <1>8, BwriteStep

LEMMA CleanStep ==
  ASSUME IInv, NEW p \in Proc, Clean(p)
  PROVE  IInv'
<1>1. PICK b \in Free : "DELWRI" \in b_flags[b] /\ WriteAsync(b)
  BY HeadFree DEF Clean, IInv, WriteAsync
<1> QED
  BY <1>1, FreeIs, WriteAsyncStep DEF IInv

LEMMA WriteSyncStep ==
  ASSUME IInv, NEW p \in Proc, NEW b \in Buf, call[p] = "blkflush",
         "DELWRI" \in b_flags[b], id[b] = blkno[p], WriteSync(p, b),
         ListInv', Free' = Free \ {b},
         \/ pc[p] = "loop" /\ b \in Free
         \/ pc[p] = "got" /\ bp[p] = b
  PROVE  IInv'
<1>1. /\ bwrite(b, b_flags[b])
      /\ bp' = [bp EXCEPT ![p] = b] /\ pc' = [pc EXCEPT ![p] = "bwrite"]
      /\ UNCHANGED <<id, b_alloc, invals, call, blkno, kept, current, written, unchanged>>
  BY DEF WriteSync, Goto, data
<1>2. id[b] # None /\ kept[p] = None
  BY DEF IInv, PlaceInv, ByBlk
<1>3. ProcTypes' /\ OthersSame(p) /\ bp'[p] = b /\ pc'[p] = "bwrite"
  BY <1>1 DEF IInv, TypeInv, ProcTypes, OthersSame, Places
<1>4. /\ io[b] = "none" /\ "ASYNC" \notin b_flags[b]
      /\ \A q \in Proc \ {p} : ~Holds(q, b)
      /\ \A q \in Proc : ~(pc[q] = "stolen" /\ bp[q] = b)
      /\ \A c \in Buf \ {b} : ~Holds(p, c)
      /\ \A c \in Buf : ~Sleeps(p, c)
  <2>1. CASE pc[p] = "loop" /\ b \in Free
    BY <2>1, <1>2, Unheld, NoBuffer DEF Ins, Sleeps
  <2>2. CASE pc[p] = "got" /\ bp[p] = b
    BY <2>2, Held DEF HeldInv, Sleeps
  <2> QED
    BY <2>1, <2>2
<1>5. b \in current /\ ~IsBad(b)
  BY <1>2, <1>4, Dirty
<1>6. ASSUME NEW q \in Proc, Sleeps(q, b)
      PROVE  Match(q)
  BY <1>5, <1>6 DEF IInv, Awaits, Sleeps
<1>7. b_flags[b] \subseteq Flags /\ current \subseteq Buf /\ written \subseteq Blk
  BY DEF IInv, TypeInv, BufTypes, DataTypes
<1>8. WritesOnly(b) /\ StillFlushing(p)
  BY <1>1 DEF WritesOnly, StillFlushing
<1>9. ASSUME NEW q \in Proc, NEW c \in Buf
      PROVE  Sleeps(q, c)' <=> Sleeps(q, c)
  BY <1>3, <1>4 DEF OthersSame, Sleeps
<1>10. PlaceInv(p)'
  BY <1>1, <1>2, <1>3 DEF IInv, PlaceInv, Ins
<1>11. io'[b] = "write"
  BY <1>1 DEF bwrite, IInv, TypeInv, BufTypes
<1>12. Flushing(p)'
  BY <1>1, <1>3, <1>11 DEF Flushing
<1>13. pc[p] \notin {"asleep", "stolen"}
  OBVIOUS
<1> QED
  BY <1>1, <1>2, <1>3, <1>4, <1>5, <1>6, <1>7, <1>8, <1>9, <1>10, <1>12, <1>13, BwriteStep

LEMMA WriteBackStep ==
  ASSUME IInv, NEW p \in Proc, WriteBack(p)
  PROVE  IInv'
<1>1. PICK b \in Buf : b = bp[p] /\ pc[p] = "hold" /\ call[p] = "baddr"
  BY Held DEF WriteBack
<1> DEFINE f == b_flags[b] \cup {"INVAL"}
<1>2. /\ "DELWRI" \in b_flags[b] /\ bwrite(b, f) /\ pc' = [pc EXCEPT ![p] = "bwrite"]
      /\ UNCHANGED <<id, lru, age, b_alloc, invals, call, blkno, bp, kept, current, written, unchanged>>
  BY <1>1 DEF WriteBack, Goto, lists, data
<1>3. ProcTypes' /\ OthersSame(p) /\ bp'[p] = b /\ pc'[p] = "bwrite" /\ kept'[p] = None
  BY <1>1, <1>2, Held DEF IInv, TypeInv, ProcTypes, OthersSame, Places
<1>4. /\ io[b] = "none" /\ "ASYNC" \notin b_flags[b] /\ b \notin Free
      /\ \A q \in Proc \ {p} : ~Holds(q, b)
      /\ \A q \in Proc : ~(pc[q] = "stolen" /\ bp[q] = b)
      /\ \A c \in Buf \ {b} : ~Holds(p, c)
  BY <1>1, Held DEF HeldInv
<1>5. id[b] # None
  BY <1>1 DEF IInv, UseInv, PlaceInv, ByBlk, Getters
<1>6. b \in current /\ ~IsBad(b)
  BY <1>2, <1>4, <1>5, Dirty
<1>7. ASSUME NEW q \in Proc, Sleeps(q, b)
      PROVE  Match(q)
  BY <1>6, <1>7 DEF IInv, Awaits, Sleeps
<1>8. /\ f \subseteq Flags /\ "ASYNC" \notin f
      /\ current \subseteq Buf /\ written \subseteq Blk
  BY <1>4 DEF IInv, TypeInv, BufTypes, DataTypes, Flags
<1>9. WritesOnly(b) /\ StillFlushing(p)
  BY <1>2 DEF WritesOnly, StillFlushing
<1>10. ASSUME NEW q \in Proc, NEW c \in Buf
       PROVE  Sleeps(q, c)' <=> Sleeps(q, c)
  BY <1>1, <1>2, <1>3 DEF OthersSame, Sleeps
<1>11. PlaceInv(p)' /\ Flushing(p)' /\ call'[p] # "blkflush"
  BY <1>1, <1>2, <1>3 DEF IInv, PlaceInv, Flushing, Ins
<1>12. ListInv' /\ Free' = Free \ {b}
  BY <1>2, <1>4, SameLists DEF IInv
<1> HIDE DEF f
<1> QED
  BY <1>1, <1>2, <1>3, <1>4, <1>5, <1>6, <1>7, <1>8, <1>9, <1>10, <1>11, <1>12, BwriteStep

(* A process has put new contents into its buffer. *)
LEMMA Changes ==
  ASSUME IInv, NEW p \in Proc, NEW b, b = bp[p], Change(p)
  PROVE  /\ b \in Buf /\ pc[p] = "hold" /\ kept[p] = None /\ kept' = kept
         /\ io[b] = "none" /\ "ASYNC" \notin b_flags[b] /\ b \notin Free
         /\ id[b] = blkno[p] /\ id[b] # None /\ ~IsBad(b)
         /\ call' = [call EXCEPT ![p] = None] /\ blkno' = [blkno EXCEPT ![p] = None]
         /\ current' = current \cup {b} /\ written' = written \ {id[b]}
         /\ p \notin unchanged' /\ unchanged' \subseteq unchanged
         /\ WritesOnly(b) /\ StillFlushing(p)
         /\ \A q \in Proc : Sleeps(q, b) => Match(q)
<1>1. /\ pc[p] = "hold" /\ call[p] \in {"bread", "getblk"} /\ "ERROR" \notin b_flags[b]
      /\ current' = (current \ {c \in Buf : id[c] = id[b]}) \cup {b}
      /\ written' = written \ {id[b]}
      /\ call' = [call EXCEPT ![p] = None] /\ blkno' = [blkno EXCEPT ![p] = None]
      /\ unchanged' = unchanged \ Changed(id[b])
      /\ kept' = kept
  BY DEF Change
<1>2. /\ b \in Buf /\ kept[p] = None /\ io[b] = "none"
      /\ "ASYNC" \notin b_flags[b] /\ b \notin Free
  BY <1>1, Held DEF HeldInv
<1>3. id[b] = blkno[p] /\ id[b] # None /\ "INVAL" \notin b_flags[b]
  BY <1>1 DEF IInv, UseInv, PlaceInv, ByBlk, Getters
<1>4. ~IsBad(b)
  BY <1>1, <1>3 DEF IsBad, Bad
<1>5. current' = current \cup {b}
  BY <1>1, <1>2, <1>3 DEF IInv, Unique
<1>6. p \notin unchanged'
  BY <1>1 DEF IInv, Flushing
<1>7. WritesOnly(b)
  BY <1>1, <1>2 DEF WritesOnly
<1>8. StillFlushing(p) /\ unchanged' \subseteq unchanged
  BY <1>1 DEF StillFlushing, Changed
<1>9. ASSUME NEW q \in Proc, Sleeps(q, b)
      PROVE  Match(q)
  BY <1>4, <1>9 DEF IInv, Awaits, Sleeps
<1> QED
  BY <1>1, <1>2, <1>3, <1>4, <1>5, <1>6, <1>7, <1>8, <1>9

(* bwrite() of changed contents, and bawrite(). *)
LEMMA BwriteChanged ==
  ASSUME IInv, NEW p \in Proc, NEW b, b = bp[p], Change(p),
         NEW f, f \subseteq Flags, bwrite(b, f), NEW place, pc' = Goto(p, place),
         UNCHANGED <<id, lru, age, b_alloc, invals>>,
         \/ place = "bwrite" /\ bp' = bp /\ "ASYNC" \notin f
         \/ place = "idle" /\ bp' = [bp EXCEPT ![p] = None] /\ "ASYNC" \in f
  PROVE  IInv'
<1>1. /\ b \in Buf /\ pc[p] = "hold" /\ kept[p] = None /\ kept' = kept
      /\ io[b] = "none" /\ b \notin Free /\ id[b] # None
      /\ call' = [call EXCEPT ![p] = None] /\ blkno' = [blkno EXCEPT ![p] = None]
      /\ current' = current \cup {b} /\ written' = written \ {id[b]}
      /\ p \notin unchanged' /\ unchanged' \subseteq unchanged
      /\ WritesOnly(b) /\ StillFlushing(p)
      /\ \A q \in Proc : Sleeps(q, b) => Match(q)
  BY Changes
<1>2. pc' = [pc EXCEPT ![p] = place]
  BY DEF Goto
<1>3. ProcTypes' /\ OthersSame(p) /\ pc'[p] = place /\ call'[p] = None
      /\ bp'[p] = IF place = "bwrite" THEN b ELSE None
  BY <1>1, <1>2 DEF IInv, TypeInv, ProcTypes, OthersSame, Places
<1>4. /\ \A q \in Proc \ {p} : ~Holds(q, b)
      /\ \A c \in Buf \ {b} : ~Holds(p, c)
  BY <1>1, Held
<1>5. /\ current' \subseteq Buf /\ written' \subseteq Blk
      /\ \A c \in Buf \ {b} : c \in current' <=> c \in current
  BY <1>1 DEF IInv, TypeInv, DataTypes
<1>6. ASSUME NEW q \in Proc, NEW c \in Buf
      PROVE  Sleeps(q, c)' <=> Sleeps(q, c)
  BY <1>1, <1>3 DEF OthersSame, Sleeps
<1>7. None \notin ByBlk /\ None # "blkflush"
  BY DEF ByBlk, Getters, Functions
<1>8. PlaceInv(p)' /\ Flushing(p)'
  BY <1>1, <1>3, <1>7 DEF PlaceInv, Flushing, Ins
<1>9. ListInv' /\ Free' = Free \ {b}
  BY <1>1, SameLists DEF IInv
<1> QED
  BY <1>1, <1>3, <1>4, <1>5, <1>6, <1>7, <1>8, <1>9, BwriteStep

LEMMA BwriteOwnStep ==
  ASSUME IInv, NEW p \in Proc, Bwrite(p)
  PROVE  IInv'
<1>1. Change(p) /\ bwrite(bp[p], b_flags[bp[p]]) /\ pc' = Goto(p, "bwrite")
      /\ UNCHANGED <<id, lru, age, b_alloc, invals, bp>>
  BY DEF Bwrite, lists
<1>2. bp[p] \in Buf /\ "ASYNC" \notin b_flags[bp[p]]
  BY <1>1, Changes
<1>3. b_flags[bp[p]] \subseteq Flags
  BY <1>2 DEF IInv, TypeInv, BufTypes
<1> QED
  BY <1>1, <1>2, <1>3, BwriteChanged

LEMMA bawriteStep ==
  ASSUME IInv, NEW p \in Proc, bawrite(p)
  PROVE  IInv'
<1> DEFINE f == b_flags[bp[p]] \cup {"ASYNC", "AGE"}
<1>1. Change(p) /\ bwrite(bp[p], f) /\ pc' = Goto(p, "idle")
      /\ bp' = [bp EXCEPT ![p] = None]
      /\ UNCHANGED <<id, lru, age, b_alloc, invals>>
  BY DEF bawrite, lists
<1>2. bp[p] \in Buf
  BY <1>1, Changes
<1>3. f \subseteq Flags /\ "ASYNC" \in f
  BY <1>2 DEF IInv, TypeInv, BufTypes, Flags
<1> HIDE DEF f
<1> QED
  BY <1>1, <1>3, BwriteChanged
-----------------------------------------------------------------------------
(* A buffer is released.                                                   *)

(* A buffer comes to a free list: to the head of age, or to a tail. *)
LEMMA FreedLists ==
  ASSUME ListInv, NEW b \in Buf, b \notin Free,
         \/ age' = <<b>> \o age /\ lru' = lru
         \/ age' = Append(age, b) /\ lru' = lru
         \/ lru' = Append(lru, b) /\ age' = age
  PROVE  ListInv' /\ Free' = Free \cup {b}
<1>1. /\ IsQueue(lru, Buf) /\ IsQueue(age, Buf) /\ ToSet(lru) \cap ToSet(age) = {}
      /\ Free = ToSet(age) \cup ToSet(lru)
      /\ b \notin ToSet(age) /\ b \notin ToSet(lru)
  BY FreeIs DEF ListInv
<1>2. /\ IsQueue(Append(age, b), Buf) /\ ToSet(Append(age, b)) = ToSet(age) \cup {b}
      /\ IsQueue(Append(lru, b), Buf) /\ ToSet(Append(lru, b)) = ToSet(lru) \cup {b}
  BY <1>1, QueueAppend
<1>3. IsQueue(<<b>> \o age, Buf) /\ ToSet(<<b>> \o age) = {b} \cup ToSet(age)
  <2>1. IsQueue(<<b>>, Buf) /\ ToSet(<<b>>) = {b}
    BY SingleQueue
  <2> QED
    BY <1>1, <2>1, ConcatQueue
<1>4. /\ IsQueue(lru', Buf) /\ IsQueue(age', Buf) /\ ToSet(lru') \cap ToSet(age') = {}
      /\ ToSet(age') \cup ToSet(lru') = Free \cup {b}
  <2>1. CASE age' = <<b>> \o age /\ lru' = lru
    BY <2>1, <1>1, <1>3
  <2>2. CASE age' = Append(age, b) /\ lru' = lru
    BY <2>2, <1>1, <1>2
  <2>3. CASE lru' = Append(lru, b) /\ age' = age
    BY <2>3, <1>1, <1>2
  <2> QED
    BY <2>1, <2>2, <2>3
<1>5. ListInv'
  BY <1>4 DEF ListInv
<1> QED
  BY <1>4, <1>5, FreeIsNext

(* What brelse() does. *)
LEMMA BrelseFacts ==
  ASSUME BufTypes, ListInv, QueueInv, NEW b \in Buf, b \notin Free,
         NEW f, f \subseteq Flags, NEW next, brelse(b, f, next)
  PROVE  /\ id' = [id EXCEPT ![b] = IF f \cap Bad # {} THEN None ELSE id[b]]
         /\ b_flags' = [b_flags EXCEPT ![b] = b_flags'[b]]
         /\ b_flags'[b] \subseteq f /\ "ASYNC" \notin b_flags'[b]
         /\ IsBad(b)' <=> f \cap Bad # {}
         /\ f \cap Bad = {} /\ "DELWRI" \in f => "DELWRI" \in b_flags'[b]
         /\ ListInv'
         /\ \/ /\ b_alloc[b] = <<>> /\ b_alloc' = b_alloc /\ pc' = WakeAll(next)
               /\ Free' = Free \cup {b}
               /\ f \cap Bad # {} => "DELWRI" \notin b_flags'[b]
            \/ /\ b_alloc[b] # <<>> /\ b_alloc' = [b_alloc EXCEPT ![b] = Tail(b_alloc[b])]
               /\ pc' = [next EXCEPT ![Head(b_alloc[b])] = "got"]
               /\ Free' = Free
<1> DEFINE bad == f \cap Bad # {}
           off == {"ASYNC", "AGE"}
           g == IF b_alloc[b] # <<>> THEN f \ off
                ELSE f \ (off \cup IF bad THEN {"DELWRI"} ELSE {})
<1>1. /\ id' = [id EXCEPT ![b] = IF bad THEN None ELSE id[b]]
      /\ b_flags' = [b_flags EXCEPT ![b] = g]
  BY DEF brelse
<1>2. /\ g \subseteq f /\ "ASYNC" \notin g /\ (g \cap Bad # {} <=> bad)
      /\ ~bad /\ "DELWRI" \in f => "DELWRI" \in g
      /\ b_alloc[b] = <<>> /\ bad => "DELWRI" \notin g
  BY DEF Bad
<1> HIDE DEF g
<1>3. b_flags'[b] = g
  BY <1>1 DEF BufTypes
<1>4. CASE b_alloc[b] = <<>>
  <2>1. /\ b_alloc' = b_alloc /\ pc' = WakeAll(next)
        /\ \/ age' = <<b>> \o age /\ lru' = lru
           \/ age' = Append(age, b) /\ lru' = lru
           \/ lru' = Append(lru, b) /\ age' = age
    BY <1>4 DEF brelse
  <2>2. ListInv' /\ Free' = Free \cup {b}
    BY <2>1, FreedLists
  <2> QED
    BY <1>1, <1>2, <1>3, <1>4, <2>1, <2>2 DEF IsBad
<1>5. CASE b_alloc[b] # <<>>
  <2>1. /\ b_alloc' = [b_alloc EXCEPT ![b] = Tail(b_alloc[b])]
        /\ pc' = [next EXCEPT ![Head(b_alloc[b])] = "got"]
        /\ UNCHANGED <<lru, age>>
    BY <1>5 DEF brelse, lists
  <2>2. ListInv' /\ Free' = Free
    BY <2>1, SameLists
  <2> QED
    BY <1>1, <1>2, <1>3, <1>5, <2>1, <2>2 DEF IsBad
<1> QED
  BY <1>4, <1>5

(* The data of a buffer that is released with flags f. *)
Releasable(p, b, f) ==
  /\ f \cap Bad = {} => id[b] # None
  /\ b \in current' => f \cap Bad = {}
  /\ iodone'[b] /\ f \cap Bad = {} => b \in current'
  /\ "DELWRI" \in f => iodone'[b]
  /\ id[b] # None /\ id[b] \notin written' => b \in current' /\ "DELWRI" \in f
  /\ \A q \in Proc \ {p} : Sleeps(q, b) =>
       /\ f \cap Bad = {} => Match(q)
       /\ f \cap Bad # {} /\ q \in unchanged' => blkno[q] \in written'

(* The process that releases it, if it is not the driver. *)
Releases(p, b, next) ==
  /\ pc[p] \in {"got", "hold", "bwrite"} /\ bp[p] = b
  /\ bp'[p] = None /\ kept'[p] = None /\ p \notin unchanged'
  /\ \/ next[p] = "idle" /\ call'[p] = None
     \/ next[p] = "loop" /\ call'[p] = call[p] /\ blkno'[p] = blkno[p]

ReleaseFrame(p, b, next) ==
  /\ iodone' \in [Buf -> BOOLEAN] /\ \A c \in Buf \ {b} : iodone'[c] = iodone[c]
  /\ io' = [io EXCEPT ![b] = "none"]
  /\ next \in [Proc -> Places] /\ \A q \in Proc \ {p} : next[q] = pc[q]
  /\ invals' \in Proc \cup {None}
  /\ call' \in [Proc -> Functions \cup {None}] /\ blkno' \in [Proc -> Blk \cup {None}]
  /\ bp' \in [Proc -> Buf \cup {None}] /\ kept' \in [Proc -> Buf \cup {None}]
  /\ \A q \in Proc \ {p} : /\ call'[q] = call[q] /\ blkno'[q] = blkno[q]
                           /\ bp'[q] = bp[q] /\ kept'[q] = kept[q]
  /\ unchanged' \subseteq Proc /\ StillFlushing(p)
  /\ current' \subseteq Buf /\ \A c \in Buf \ {b} : c \in current' <=> c \in current
  /\ written' \subseteq Blk /\ WritesOnly(b)

LEMMA BrelseStep ==
  ASSUME IInv, NEW p, NEW b \in Buf, b \notin Free, NEW f, f \subseteq Flags,
         NEW next, brelse(b, f, next), ReleaseFrame(p, b, next),
         \A q \in Proc \ {p} : ~Holds(q, b),
         Releasable(p, b, f), p \in Proc => Releases(p, b, next)
  PROVE  IInv'
<1>1. BufTypes /\ ProcTypes /\ DataTypes /\ ListInv /\ QueueInv /\ Unique
  BY DEF IInv, TypeInv
<1> DEFINE bad == f \cap Bad # {}
           Freed == /\ b_alloc[b] = <<>> /\ b_alloc' = b_alloc /\ pc' = WakeAll(next)
                    /\ Free' = Free \cup {b}
                    /\ bad => "DELWRI" \notin b_flags'[b]
           Handed == /\ b_alloc[b] # <<>> /\ b_alloc' = [b_alloc EXCEPT ![b] = Tail(b_alloc[b])]
                     /\ pc' = [next EXCEPT ![Head(b_alloc[b])] = "got"]
                     /\ Free' = Free
<1>2. /\ id' = [id EXCEPT ![b] = IF bad THEN None ELSE id[b]]
      /\ b_flags' = [b_flags EXCEPT ![b] = b_flags'[b]]
      /\ b_flags'[b] \subseteq f /\ "ASYNC" \notin b_flags'[b]
      /\ IsBad(b)' <=> bad
      /\ ~bad /\ "DELWRI" \in f => "DELWRI" \in b_flags'[b]
      /\ ListInv' /\ (Freed \/ Handed)
  BY <1>1, BrelseFacts
<1>3. id'[b] = (IF bad THEN None ELSE id[b]) /\ io'[b] = "none"
  BY <1>1, <1>2 DEF BufTypes, ReleaseFrame
<1> HIDE DEF Freed, Handed
<1>4. \A c \in Buf \ {b} : SameBuf(c)
  <2>1. \A c \in Buf \ {b} : c \in Free' <=> c \in Free
    BY <1>2 DEF Freed, Handed
  <2> QED
    BY <1>1, <1>2, <2>1 DEF SameBuf, BufTypes, ReleaseFrame
<1>5. /\ \A c \in Buf \ {b} : id'[b] = id[c] => id'[b] = None
      /\ id[b] # None /\ id[b] \notin written' =>
           b \in current' /\ id'[b] = id[b] /\ "DELWRI" \in b_flags'[b]
  BY <1>1, <1>2, <1>3 DEF Unique, Releasable
<1>6. ASSUME NEW h, WakesOnly(p, b, h), pc' \in [Proc -> Places], QueueInv', NoFreeBufMissed'
      PROVE  Frame(p, b, h)
  <2>1. ProcTypes'
    BY <1>6 DEF ProcTypes, ReleaseFrame
  <2>2. BufTypes'
    BY <1>1, <1>2 DEF BufTypes, ReleaseFrame
  <2>3. DataTypes'
    BY DEF DataTypes, ReleaseFrame
  <2> QED
    BY <1>2, <1>4, <1>6, <2>1, <2>2, <2>3 DEF Frame, TypeInv, ReleaseFrame
<1>7. ASSUME p \in Proc, pc'[p] = next[p]
      PROVE  Turns(p, b)
  <2>1. PlaceInv(p) /\ None \notin ByBlk
    BY <1>7 DEF IInv, ByBlk, Getters, Functions
  <2>2. /\ pc[p] \in {"got", "hold", "bwrite"} /\ bp[p] = b
        /\ bp'[p] = None /\ kept'[p] = None /\ p \notin unchanged'
        /\ \/ pc'[p] = "idle" /\ call'[p] = None
           \/ pc'[p] = "loop" /\ call'[p] = call[p] /\ blkno'[p] = blkno[p]
    BY <1>7 DEF Releases
  <2>3. PlaceInv(p)' /\ UseInv(p)' /\ Flushing(p)'
    BY <2>1, <2>2 DEF PlaceInv, UseInv, Flushing, Ins
  <2>4. \A c \in Buf : ~Holds(p, c)' /\ (c # b => ~Holds(p, c))
    BY <2>1, <2>2 DEF Holds, PlaceInv
  <2> QED
    BY <2>2, <2>3, <2>4 DEF Turns
<1>8. CASE Freed
  <2>1. /\ b_alloc' = b_alloc /\ Free' = Free \cup {b}
        /\ bad => "DELWRI" \notin b_flags'[b]
        /\ \A q \in Proc : pc'[q] = IF next[q] = "nobuf" THEN "loop" ELSE next[q]
        /\ pc' \in [Proc -> Places] /\ b_alloc[b] = <<>>
    BY <1>8 DEF Freed, WakeAll, ReleaseFrame, Places
  <2>2. p \in Proc => pc'[p] = next[p]
    BY <2>1 DEF Releases
  <2>3. WakesOnly(p, b, None)
    BY <2>1 DEF WakesOnly, ReleaseFrame
  <2>4. \A q \in Proc : ~Sleeps(q, b)
    BY <1>1, <2>1, EmptyQueue DEF QueueInv
  <2>5. ASSUME NEW q \in Proc, NEW c \in Buf
        PROVE  Sleeps(q, c)' <=> Sleeps(q, c)
    <3>1. CASE q = p
      BY <3>1, <2>1 DEF Releases, Sleeps
    <3>2. CASE q # p
      BY <3>2, <2>1 DEF ReleaseFrame, Sleeps
    <3> QED
      BY <3>1, <3>2
  <2>6. QueueInv' /\ NoFreeBufMissed'
    <3>1. QueueInv'
      BY <1>1, <2>1, <2>5, SameQueues
    <3>2. NoFreeBufMissed'
      BY <2>1 DEF NoFreeBufMissed
    <3> QED
      BY <3>1, <3>2
  <2>7. \A q \in Proc : bp'[q] # b /\ kept'[q] # b
    <3>1. \A q \in Proc \ {p} : bp[q] # b /\ kept[q] # b
      BY <2>4 DEF Holds, Sleeps
    <3> QED
      BY <3>1, NoneAssumption DEF Releases, ReleaseFrame
  <2>8. BufInv(b)'
    <3>1. /\ ~bad => id[b] # None
          /\ b \in current' => ~bad
          /\ iodone'[b] /\ ~bad => b \in current'
          /\ "DELWRI" \in b_flags'[b] => iodone'[b]
      BY <1>2 DEF Releasable
    <3>2. b \in Free' /\ "ASYNC" \notin b_flags'[b] /\ (IsBad(b)' <=> bad)
      BY <1>2, <2>1
    <3> HIDE DEF bad
    <3> QED
      BY <1>3, <2>1, <2>7, <3>1, <3>2 DEF BufInv
  <2>9. Settles(p, b, None)
    BY <1>5, <2>4, <2>8 DEF Settles
  <2> QED
    BY <1>6, <1>7, <2>1, <2>2, <2>3, <2>6, <2>9, LocalStep
<1>9. CASE Handed
  <2>1. PICK h : h = Head(b_alloc[b])
    OBVIOUS
  <2>2. /\ IsQueue(Tail(b_alloc[b]), Proc) /\ h \in ToSet(b_alloc[b]) /\ h \in Proc
        /\ ToSet(Tail(b_alloc[b])) = ToSet(b_alloc[b]) \ {h}
    <3>1. IsQueue(b_alloc[b], Proc) /\ b_alloc[b] # <<>>
      BY <1>1, <1>9 DEF QueueInv, Handed
    <3>2. Len(b_alloc[b]) > 0
      BY <3>1, EmptySeq DEF IsQueue
    <3> QED
      BY <2>1, <3>1, <3>2, QueueTail
  <2>3. Sleeps(h, b) /\ h # p
    BY <1>1, <2>2 DEF QueueInv, Sleeps, Releases
  <2>4. /\ b_alloc' = [b_alloc EXCEPT ![b] = Tail(b_alloc[b])] /\ Free' = Free
        /\ pc' = [next EXCEPT ![h] = "got"]
    BY <1>9, <2>1 DEF Handed
  <2>5. /\ pc' \in [Proc -> Places] /\ pc'[h] = "got"
        /\ \A q \in Proc \ {h} : pc'[q] = next[q]
    BY <2>2, <2>4 DEF ReleaseFrame, Places
  <2>6. p \in Proc => pc'[p] = next[p]
    BY <2>3, <2>5
  <2>7. WakesOnly(p, b, h)
    BY <2>3, <2>5 DEF WakesOnly, ReleaseFrame
  <2>8. ASSUME NEW q \in Proc, NEW c \in Buf
        PROVE  Sleeps(q, c)' <=> Sleeps(q, c) /\ q # h
    <3>1. CASE q = p
      BY <3>1, <2>6 DEF Releases, Sleeps
    <3>2. CASE q # p /\ q # h
      BY <3>2, <2>5 DEF ReleaseFrame, Sleeps
    <3>3. CASE q = h
      BY <3>3, <2>5 DEF Sleeps
    <3> QED
      BY <3>1, <3>2, <3>3
  <2>9. QueueInv'
    <3>1. /\ DOMAIN b_alloc' = Buf /\ b_alloc'[b] = Tail(b_alloc[b])
          /\ \A c \in Buf \ {b} : b_alloc'[c] = b_alloc[c] /\ h \notin ToSet(b_alloc[c])
      BY <1>1, <2>2, <2>3, <2>4 DEF QueueInv, Sleeps
    <3>2. ASSUME NEW c \in Buf
          PROVE  /\ IsQueue(b_alloc'[c], Proc)
                 /\ ToSet(b_alloc'[c]) = ToSet(b_alloc[c]) \ {h}
      BY <1>1, <2>2, <3>1 DEF QueueInv
    <3>3. ASSUME NEW c \in Buf, NEW q \in Proc
          PROVE  q \in ToSet(b_alloc'[c]) <=> Sleeps(q, c)'
      <4>1. q \in ToSet(b_alloc[c]) <=> Sleeps(q, c)
        BY <1>1 DEF QueueInv
      <4> QED
        BY <4>1, <3>2, <2>8
    <3> QED
      BY <3>1, <3>2, <3>3 DEF QueueInv
  <2>10. NoFreeBufMissed'
    BY <2>4, <2>5 DEF IInv, NoFreeBufMissed, ReleaseFrame, Releases
  <2>11. bp'[h] = b /\ call'[h] = call[h] /\ blkno'[h] = blkno[h]
    BY <2>2, <2>3 DEF ReleaseFrame, Sleeps
  <2>12. Holds(h, b)' /\ HeldInv(h, b)'
    BY <1>2, <1>3, <2>4, <2>5, <2>11 DEF Holds, HeldInv
  <2>13. BufInv(b)'
    <3>1. /\ ~bad => id[b] # None
          /\ b \in current' => ~bad
          /\ iodone'[b] /\ ~bad => b \in current'
          /\ "DELWRI" \in b_flags'[b] => iodone'[b]
      BY <1>2 DEF Releasable
    <3>2. b \notin Free' /\ (IsBad(b)' <=> bad) /\ \E q \in Proc : Holds(q, b)'
      BY <1>2, <2>2, <2>4, <2>12
    <3> HIDE DEF bad
    <3> QED
      BY <1>3, <3>1, <3>2 DEF BufInv
  <2>14. ASSUME NEW q \in Proc \ {p}, Sleeps(q, b)
         PROVE  /\ Match(q)' \/ IsBad(b)'
                /\ q \in unchanged' /\ IsBad(b)' => blkno[q] \in written'
                /\ pc'[q] = "got" => HeldInv(q, b)'
    <3>1. /\ bp'[q] = b /\ bp[q] = b /\ call'[q] = call[q] /\ blkno'[q] = blkno[q]
      BY <2>14 DEF ReleaseFrame, Sleeps
    <3>2. /\ ~bad => Match(q)
          /\ bad /\ q \in unchanged' => blkno[q] \in written'
      BY <2>14 DEF Releasable
    <3>3. pc'[q] = "got" => q = h
      BY <2>5, <2>14 DEF ReleaseFrame, Sleeps
    <3> HIDE DEF bad
    <3>4. ~bad => Match(q)'
      BY <1>3, <3>1, <3>2 DEF Match
    <3> QED
      BY <1>2, <2>12, <3>2, <3>3, <3>4
  <2>15. p \in Proc => ~Holds(p, b)' /\ pc'[p] # "stolen"
    BY <2>6, NoneAssumption DEF Releases, Holds
  <2>16. Settles(p, b, h)
    BY <1>3, <1>5, <2>13, <2>14, <2>15 DEF Settles
  <2> QED
    BY <1>6, <1>7, <2>5, <2>6, <2>7, <2>9, <2>10, <2>16, LocalStep
<1> QED
  BY <1>2, <1>8, <1>9

(* A process releases its buffer, and returns or goes on. *)
LEMMA ReleaseStep ==
  ASSUME IInv, NEW p \in Proc, NEW b, b = bp[p], pc[p] \in {"got", "hold", "bwrite"},
         io[b] = "none", io' = io,
         NEW f, f \subseteq Flags, NEW place, brelse(b, f, Goto(p, place)),
         Releasable(p, b, f),
         iodone' \in [Buf -> BOOLEAN], \A c \in Buf \ {b} : iodone'[c] = iodone[c],
         \/ /\ place = "idle"
            /\ call' = [call EXCEPT ![p] = None] /\ blkno' = [blkno EXCEPT ![p] = None]
         \/ place = "loop" /\ UNCHANGED <<call, blkno>>,
         bp' = [bp EXCEPT ![p] = None], kept' = kept,
         invals' \in Proc \cup {None},
         p \notin unchanged', unchanged' \subseteq unchanged, StillFlushing(p),
         current' \subseteq Buf, \A c \in Buf \ {b} : c \in current' <=> c \in current,
         written' \subseteq Blk, WritesOnly(b)
  PROVE  IInv'
<1>1. ProcTypes /\ BufTypes
  BY DEF IInv, TypeInv
<1>2. /\ b \in Buf /\ kept[p] = None /\ b \notin Free
      /\ \A q \in Proc \ {p} : ~Holds(q, b)
  BY Held DEF HeldInv
<1> DEFINE next == Goto(p, place)
<1>3. /\ next \in [Proc -> Places] /\ next[p] = place
      /\ \A q \in Proc \ {p} : next[q] = pc[q]
  BY <1>1 DEF Goto, ProcTypes, Places
<1> HIDE DEF next
<1>4. io' = [io EXCEPT ![b] = "none"]
  BY <1>1, <1>2 DEF BufTypes
<1>5. ReleaseFrame(p, b, next)
  BY <1>1, <1>3, <1>4 DEF ReleaseFrame, ProcTypes
<1>6. Releases(p, b, next)
  BY <1>1, <1>2, <1>3 DEF Releases, ProcTypes
<1>7. brelse(b, f, next)
  BY DEF next
<1> QED
  BY <1>2, <1>5, <1>6, <1>7, BrelseStep

(* A buffer released as it is. *)
LEMMA AsItIs ==
  ASSUME IInv, NEW p \in Proc, NEW b, b = bp[p], pc[p] \in {"got", "hold", "bwrite"},
         io[b] = "none", NEW f,
         f \cap Bad = b_flags[b] \cap Bad, "DELWRI" \in f <=> "DELWRI" \in b_flags[b],
         unchanged' \subseteq unchanged, UNCHANGED <<iodone, current, written>>
  PROVE  Releasable(p, b, f)
<1>1. /\ b \in Buf /\ \A q \in Proc : ~(pc[q] = "stolen" /\ bp[q] = b)
  BY Held
<1>2. BufInv(b) /\ (IsBad(b) <=> f \cap Bad # {})
  BY <1>1 DEF IInv, IsBad
<1>3. ~IsBad(b) => id[b] # None
  <2>1. CASE pc[p] = "got"
    BY <2>1 DEF IInv, Awaits, Match
  <2>2. CASE pc[p] = "bwrite"
    BY <2>2 DEF IInv, UseInv
  <2>3. CASE pc[p] = "hold" /\ call[p] = "geteblk"
    BY <2>3 DEF IInv, UseInv, IsBad, Bad
  <2>4. CASE pc[p] = "hold" /\ call[p] # "geteblk"
    BY <2>4 DEF IInv, UseInv, PlaceInv, ByBlk
  <2> QED
    BY <2>1, <2>2, <2>3, <2>4
<1>4. id[b] # None /\ id[b] \notin written => b \in current /\ "DELWRI" \in b_flags[b]
  BY <1>1, Unwritten
<1>5. ASSUME NEW q \in Proc, Sleeps(q, b)
      PROVE  /\ ~IsBad(b) => Match(q)
             /\ IsBad(b) /\ q \in unchanged => blkno[q] \in written
  BY <1>5 DEF IInv, Awaits, Flushing, Sleeps
<1> QED
  BY <1>1, <1>2, <1>3, <1>4, <1>5 DEF Releasable, BufInv

(* A buffer given up. *)
LEMMA GivenUp ==
  ASSUME IInv, NEW p, NEW b \in Buf, NEW f, f \cap Bad # {},
         "DELWRI" \in f => iodone'[b],
         b \notin current', written \subseteq written', id[b] # None => id[b] \in written',
         unchanged' \subseteq unchanged
  PROVE  Releasable(p, b, f)
<1>1. ASSUME NEW q \in Proc, Sleeps(q, b), q \in unchanged
      PROVE  blkno[q] \in written'
  <2>1. call[q] = "blkflush" /\ (IsBad(b) /\ io[b] = "none" => blkno[q] \in written)
    BY <1>1 DEF IInv, Flushing, Sleeps
  <2>2. Match(q) \/ (IsBad(b) /\ io[b] = "none")
    BY <1>1 DEF IInv, Awaits, Sleeps
  <2>3. Match(q) => id[b] # None /\ id[b] = blkno[q]
    BY <1>1, <2>1 DEF Match, Sleeps, ByBlk
  <2> QED
    BY <2>1, <2>2, <2>3
<1> QED
  BY <1>1 DEF Releasable

(* Discard(), and InvalClean() of a clean buffer, lose nothing. *)
LEMMA Discards ==
  ASSUME IInv, NEW b \in Buf,
         Discard(b) \/ (InvalClean(b) /\ "DELWRI" \notin b_flags[b] /\ io[b] = "none")
  PROVE  /\ b \notin current' /\ current' \subseteq Buf
         /\ \A c \in Buf \ {b} : c \in current' <=> c \in current
         /\ written \subseteq written' /\ written' \subseteq Blk /\ WritesOnly(b)
         /\ id[b] # None => id[b] \in written'
<1>1. /\ current \subseteq Buf /\ written \subseteq Blk
      /\ id[b] \in Blk \cup {None} /\ (b \in current => id[b] # None)
  BY DEF IInv, TypeInv, BufTypes, DataTypes, BufInv
<1>2. current' = current \ {b}
  BY DEF Discard, InvalClean
<1>3. written' = written \/ (b \in current /\ written' = written \cup {id[b]})
  BY DEF Discard, InvalClean
<1>4. WritesOnly(b)
  BY <1>3 DEF WritesOnly
<1>5. id[b] # None => id[b] \in written'
  <2>1. CASE Discard(b)
    BY <2>1, Unwritten DEF Discard
  <2>2. CASE InvalClean(b) /\ "DELWRI" \notin b_flags[b] /\ io[b] = "none"
    BY <2>2, Unwritten DEF InvalClean
  <2> QED
    BY <2>1, <2>2
<1> QED
  BY <1>1, <1>2, <1>3, <1>4, <1>5

(* brelse() of a buffer as it is, by a process that returns. *)
LEMMA ReturnStep ==
  ASSUME IInv, NEW p \in Proc, NEW b, b = bp[p], pc[p] \in {"got", "hold", "bwrite"},
         io[b] = "none", NEW f, f \subseteq Flags,
         f \cap Bad = b_flags[b] \cap Bad, "DELWRI" \in f <=> "DELWRI" \in b_flags[b],
         brelse(b, f, Goto(p, "idle")), Leave(p),
         invals' \in Proc \cup {None}, UNCHANGED <<iodone, io, current, written>>
  PROVE  IInv'
<1>1. /\ call' = [call EXCEPT ![p] = None] /\ blkno' = [blkno EXCEPT ![p] = None]
      /\ bp' = [bp EXCEPT ![p] = None] /\ kept' = kept
      /\ p \notin unchanged' /\ unchanged' \subseteq unchanged
  BY DEF Leave
<1>2. Releasable(p, b, f)
  BY <1>1, AsItIs
<1>3. /\ iodone' \in [Buf -> BOOLEAN] /\ \A c \in Buf \ {b} : iodone'[c] = iodone[c]
      /\ current' \subseteq Buf /\ \A c \in Buf \ {b} : c \in current' <=> c \in current
      /\ written' \subseteq Blk /\ WritesOnly(b) /\ StillFlushing(p)
  BY <1>1 DEF IInv, TypeInv, BufTypes, DataTypes, WritesOnly, StillFlushing
<1> QED
  BY <1>1, <1>2, <1>3, ReleaseStep

LEMMA FlagsOf ==
  ASSUME IInv, NEW b \in Buf
  PROVE  /\ b_flags[b] \subseteq Flags /\ b_flags[b] \cup {"AGE"} \subseteq Flags
         /\ b_flags[b] \cup {"INVAL"} \subseteq Flags /\ b_flags[b] \cup {"DELWRI"} \subseteq Flags
         /\ b_flags[b] \cup {"ERROR"} \subseteq Flags
         /\ invals \in Proc \cup {None}
BY DEF IInv, TypeInv, BufTypes, ProcTypes, Flags

LEMMA WrittenStep ==
  ASSUME IInv, NEW p \in Proc, Written(p)
  PROVE  IInv'
<1>1. PICK b \in Buf : b = bp[p]
  BY Held DEF Written
<1>2. /\ pc[p] = "bwrite" /\ iodone[b] /\ brelse(b, b_flags[b], Goto(p, "idle")) /\ Leave(p)
      /\ UNCHANGED <<iodone, io, invals, current, written>>
  BY <1>1 DEF Written
<1>3. io[b] = "none"
  BY <1>1, <1>2 DEF IInv, BufInv
<1> QED
  BY <1>1, <1>2, <1>3, FlagsOf, ReturnStep

LEMMA HoldsBuffer ==
  ASSUME IInv, NEW p \in Proc, pc[p] \in {"got", "hold"}
  PROVE  bp[p] \in Buf /\ io[bp[p]] = "none"
BY Held

LEMMA UserReleaseStep ==
  ASSUME IInv, NEW p \in Proc, Release(p)
  PROVE  IInv'
<1>1. pc[p] = "hold"
  BY DEF Release
<1>2. PICK b \in Buf : b = bp[p] /\ io[b] = "none"
  BY <1>1, HoldsBuffer
<1>3. PICK g \in {{}, {"AGE"}} : brelse(b, b_flags[b] \cup g, Goto(p, "idle"))
  BY <1>2 DEF Release
<1>4. Leave(p) /\ UNCHANGED <<iodone, io, invals, current, written>>
  BY DEF Release
<1> DEFINE f == b_flags[b] \cup g
<1>5. /\ f \subseteq Flags /\ f \cap Bad = b_flags[b] \cap Bad
      /\ "DELWRI" \in f <=> "DELWRI" \in b_flags[b]
      /\ invals \in Proc \cup {None}
  BY FlagsOf DEF Bad
<1> HIDE DEF f
<1>6. brelse(b, f, Goto(p, "idle"))
  BY <1>3 DEF f
<1> QED
  BY <1>1, <1>2, <1>4, <1>5, <1>6, ReturnStep

LEMMA WokenStep ==
  ASSUME IInv, NEW p \in Proc, Woken(p)
  PROVE  IInv'
<1>1. pc[p] = "got" /\ call[p] \in Getters
  BY DEF Woken, InGetblk
<1>2. PICK b \in Buf : b = bp[p] /\ io[b] = "none"
  BY <1>1, HoldsBuffer
<1>3. CASE ~IsBad(b)
  <2>1. GotBlk(p, b, b_flags[b], iodone[b]) /\ UNCHANGED <<id, lists, b_alloc, invals, data>>
    BY <1>2, <1>3 DEF Woken, IsBad
  <2> QED
    BY <1>2, <1>3, <2>1, WokenGotStep DEF Woken
<1>4. CASE IsBad(b)
  <2>1. /\ brelse(b, b_flags[b], Goto(p, "loop")) /\ bp' = [bp EXCEPT ![p] = None]
        /\ UNCHANGED <<iodone, io, invals, call, blkno, kept, current, written, unchanged>>
    BY <1>2, <1>4 DEF Woken, IsBad, data
  <2>2. Releasable(p, b, b_flags[b])
    BY <1>1, <1>2, <2>1, AsItIs
  <2>3. p \notin unchanged
    BY <1>1 DEF IInv, Flushing, Getters
  <2>4. /\ iodone' \in [Buf -> BOOLEAN] /\ \A c \in Buf \ {b} : iodone'[c] = iodone[c]
        /\ current' \subseteq Buf /\ \A c \in Buf \ {b} : c \in current' <=> c \in current
        /\ written' \subseteq Blk /\ WritesOnly(b) /\ StillFlushing(p)
    BY <2>1 DEF IInv, TypeInv, BufTypes, DataTypes, WritesOnly, StillFlushing
  <2> QED
    BY <1>1, <1>2, <2>1, <2>2, <2>3, <2>4, FlagsOf, ReleaseStep
<1> QED
  BY <1>3, <1>4

(* A process gives up the contents of its buffer. *)
LEMMA InvalStep ==
  ASSUME IInv, NEW p \in Proc, NEW b, b = bp[p], pc[p] \in {"got", "hold"},
         Discard(b) \/ (InvalClean(b) /\ "DELWRI" \notin b_flags[b]),
         NEW place, brelse(b, b_flags[b] \cup {"INVAL"}, Goto(p, place)),
         \/ place = "idle" /\ Leave(p)
         \/ /\ place = "loop" /\ bp' = [bp EXCEPT ![p] = None] /\ p \notin unchanged
            /\ UNCHANGED <<call, blkno, kept, unchanged>>,
         UNCHANGED <<iodone, io, invals>>
  PROVE  IInv'
<1>1. b \in Buf /\ io[b] = "none"
  BY HoldsBuffer
<1> DEFINE f == b_flags[b] \cup {"INVAL"}
<1>2. /\ f \subseteq Flags /\ f \cap Bad # {} /\ invals \in Proc \cup {None}
      /\ "DELWRI" \in f <=> "DELWRI" \in b_flags[b]
  BY <1>1, FlagsOf DEF Bad
<1> HIDE DEF f
<1>3. /\ b \notin current' /\ current' \subseteq Buf
      /\ \A c \in Buf \ {b} : c \in current' <=> c \in current
      /\ written \subseteq written' /\ written' \subseteq Blk /\ WritesOnly(b)
      /\ id[b] # None => id[b] \in written'
  BY <1>1, Discards
<1>4. "DELWRI" \in f => iodone'[b]
  BY <1>1, <1>2 DEF IInv, BufInv
<1>5. /\ bp' = [bp EXCEPT ![p] = None] /\ kept' = kept
      /\ p \notin unchanged' /\ unchanged' \subseteq unchanged
      /\ \/ /\ place = "idle"
            /\ call' = [call EXCEPT ![p] = None] /\ blkno' = [blkno EXCEPT ![p] = None]
         \/ place = "loop" /\ UNCHANGED <<call, blkno>>
  BY DEF Leave
<1>6. Releasable(p, b, f)
  BY <1>1, <1>2, <1>3, <1>4, <1>5, GivenUp
<1>7. StillFlushing(p)
  BY <1>3, <1>5 DEF StillFlushing
<1>8. iodone' \in [Buf -> BOOLEAN] /\ \A c \in Buf \ {b} : iodone'[c] = iodone[c]
  BY DEF IInv, TypeInv, BufTypes
<1>9. brelse(b, f, Goto(p, place))
  BY DEF f
<1> QED
  BY <1>1, <1>2, <1>3, <1>5, <1>6, <1>7, <1>8, <1>9, ReleaseStep

LEMMA InvalidateStep ==
  ASSUME IInv, NEW p \in Proc, Invalidate(p)
  PROVE  IInv'
BY InvalStep DEF Invalidate

LEMMA blkinvalWokenStep ==
  ASSUME IInv, NEW p \in Proc, blkinvalWoken(p)
  PROVE  IInv'
<1>1. p \notin unchanged
  BY DEF blkinvalWoken, In, IInv, Flushing
<1> QED
  BY <1>1, InvalStep DEF blkinvalWoken, In, Inval

LEMMA binvalWokenStep ==
  ASSUME IInv, NEW p \in Proc, binvalWoken(p)
  PROVE  IInv'
<1>1. pc[p] = "got" /\ call[p] = "binval"
  BY DEF binvalWoken, In
<1>2. PICK b \in Buf : b = bp[p] /\ io[b] = "none"
  BY <1>1, HoldsBuffer
<1>3. CASE "DELWRI" \in b_flags[b]
  BY <1>1, <1>2, <1>3, FlagsOf, ReturnStep DEF binvalWoken
<1>4. CASE "DELWRI" \notin b_flags[b]
  <2>1. p \notin unchanged
    BY <1>1 DEF IInv, Flushing
  <2> QED
    BY <1>1, <1>2, <1>4, <2>1, InvalStep DEF binvalWoken, Inval
<1> QED
  BY <1>3, <1>4

LEMMA bdwriteStep ==
  ASSUME IInv, NEW p \in Proc, bdwrite(p)
  PROVE  IInv'
<1>1. PICK b : b = bp[p]
  OBVIOUS
<1> DEFINE f == b_flags[b] \cup {"DELWRI"}
<1>2. /\ Change(p) /\ iodone' = [iodone EXCEPT ![b] = TRUE]
      /\ brelse(b, f, Goto(p, "idle")) /\ bp' = [bp EXCEPT ![p] = None]
      /\ UNCHANGED <<io, invals>>
  BY <1>1 DEF bdwrite
<1>3. /\ b \in Buf /\ pc[p] = "hold" /\ kept' = kept
      /\ io[b] = "none" /\ id[b] # None /\ ~IsBad(b)
      /\ call' = [call EXCEPT ![p] = None] /\ blkno' = [blkno EXCEPT ![p] = None]
      /\ current' = current \cup {b} /\ written' = written \ {id[b]}
      /\ p \notin unchanged' /\ unchanged' \subseteq unchanged
      /\ WritesOnly(b) /\ StillFlushing(p)
      /\ \A q \in Proc : Sleeps(q, b) => Match(q)
  BY <1>1, <1>2, Changes
<1>4. f \subseteq Flags /\ f \cap Bad = {} /\ "DELWRI" \in f /\ invals \in Proc \cup {None}
  BY <1>3, FlagsOf DEF IsBad, Bad
<1> HIDE DEF f
<1>5. /\ iodone' \in [Buf -> BOOLEAN] /\ iodone'[b] = TRUE
      /\ \A c \in Buf \ {b} : iodone'[c] = iodone[c]
      /\ current' \subseteq Buf /\ \A c \in Buf \ {b} : c \in current' <=> c \in current
      /\ written' \subseteq Blk
  BY <1>2, <1>3 DEF IInv, TypeInv, BufTypes, DataTypes
<1>6. Releasable(p, b, f)
  BY <1>3, <1>4, <1>5 DEF Releasable
<1> QED
  BY <1>1, <1>2, <1>3, <1>4, <1>5, <1>6, ReleaseStep

LEMMA blkflushWokenStep ==
  ASSUME IInv, NEW p \in Proc, blkflushWoken(p)
  PROVE  IInv'
<1>1. pc[p] = "got" /\ call[p] = "blkflush"
  BY DEF blkflushWoken, In
<1>2. PICK b \in Buf : b = bp[p] /\ io[b] = "none"
  BY <1>1, HoldsBuffer
<1>3. CASE b_flags[b] \cap Bad = {} /\ "DELWRI" \in b_flags[b]
  <2>1. WriteSync(p, b) /\ UNCHANGED <<lru, age>>
    BY <1>2, <1>3 DEF blkflushWoken, lists
  <2>2. b \notin Free
    BY <1>1, <1>2, Held DEF HeldInv
  <2>3. ListInv' /\ Free' = Free \ {b}
    BY <2>1, <2>2, SameLists DEF IInv
  <2>4. id[b] = blkno[p]
    BY <1>1, <1>2, <1>3 DEF IInv, Awaits, Match, IsBad, ByBlk
  <2> QED
    BY <1>1, <1>2, <1>3, <2>1, <2>3, <2>4, WriteSyncStep
<1>4. CASE ~(b_flags[b] \cap Bad = {} /\ "DELWRI" \in b_flags[b])
  BY <1>1, <1>2, <1>4, FlagsOf, ReturnStep DEF blkflushWoken
<1> QED
  BY <1>3, <1>4

LEMMA blkflushStep ==
  ASSUME IInv, NEW p \in Proc, blkflush(p)
  PROVE  IInv'
<1>1. pc[p] = "loop" /\ call[p] = "blkflush" /\ kept[p] = None /\ blkno[p] # None
  BY DEF blkflush, In, IInv, PlaceInv, ByBlk
<1>2. \/ Done(p)
      \/ \E b \in Buf \ Free : id[b] = blkno[p] /\ SleepFor(p, b)
      \/ \E b \in Buf : /\ id[b] = blkno[p] /\ b \in Free /\ "DELWRI" \in b_flags[b]
                        /\ notavail(b) /\ WriteSync(p, b)
  BY DEF blkflush
<1>3. CASE Done(p)
  BY <1>1, <1>3, DoneStep
<1>4. ASSUME NEW b \in Buf \ Free, id[b] = blkno[p], SleepFor(p, b)
      PROVE  IInv'
  BY <1>1, <1>4, SleepStep
<1>5. ASSUME NEW b \in Buf, id[b] = blkno[p], b \in Free, "DELWRI" \in b_flags[b],
             notavail(b), WriteSync(p, b)
      PROVE  IInv'
  <2>1. ListInv' /\ Free' = Free \ {b}
    BY <1>5, NotavailLists DEF IInv
  <2> QED
    BY <1>1, <1>5, <2>1, WriteSyncStep
<1> QED
  BY <1>2, <1>3, <1>4, <1>5

(* A free buffer is invalidated where it is. *)
LEMMA FreeInvalStep ==
  ASSUME IInv, NEW b \in Buf, b \in Free, FreeInval(b),
         Discard(b) \/ (InvalClean(b) /\ "DELWRI" \notin b_flags[b])
  PROVE  IInv'
<1>1. /\ b_flags' = [b_flags EXCEPT ![b] = {"INVAL"}] /\ id' = [id EXCEPT ![b] = None]
      /\ lru' = Without(lru, b) /\ age' = <<b>> \o Without(age, b)
      /\ UNCHANGED <<iodone, io, b_alloc, invals, pc, call, blkno, bp, kept, unchanged>>
  BY DEF FreeInval, procs
<1>2. /\ io[b] = "none" /\ \A q \in Proc : bp[q] # b /\ kept[q] # b /\ ~Holds(q, b) /\ ~Sleeps(q, b)
  BY Unheld
<1>3. /\ b \notin current' /\ current' \subseteq Buf
      /\ \A c \in Buf \ {b} : c \in current' <=> c \in current
      /\ written \subseteq written' /\ written' \subseteq Blk /\ WritesOnly(b)
      /\ id[b] # None => id[b] \in written'
  BY <1>2, Discards
<1>4. ListInv' /\ Free' = Free
  <2> DEFINE q == Without(age, b)
             r == Without(lru, b)
  <2>1. /\ IsQueue(q, Buf) /\ ToSet(q) = ToSet(age) \ {b}
        /\ IsQueue(r, Buf) /\ ToSet(r) = ToSet(lru) \ {b}
        /\ ToSet(lru) \cap ToSet(age) = {}
    BY WithoutQueue DEF IInv, ListInv
  <2>2. IsQueue(<<b>>, Buf) /\ ToSet(<<b>>) = {b}
    BY SingleQueue
  <2> HIDE DEF q, r
  <2>3. IsQueue(<<b>> \o q, Buf) /\ ToSet(<<b>> \o q) = {b} \cup ToSet(q)
    BY <2>1, <2>2, ConcatQueue
  <2>4. /\ IsQueue(lru', Buf) /\ IsQueue(age', Buf) /\ ToSet(lru') \cap ToSet(age') = {}
        /\ ToSet(age') \cup ToSet(lru') = (ToSet(age) \cup ToSet(lru)) \cup {b}
    BY <1>1, <2>1, <2>3 DEF q, r
  <2>5. ListInv'
    BY <2>4 DEF ListInv
  <2>6. Free' = ToSet(age') \cup ToSet(lru') /\ Free = ToSet(age) \cup ToSet(lru)
    BY <2>5, FreeIs, FreeIsNext DEF IInv
  <2> QED
    BY <2>4, <2>5, <2>6
<1>5. /\ BufTypes /\ id'[b] = None /\ b_flags'[b] = {"INVAL"} /\ IsBad(b)'
      /\ \A c \in Buf \ {b} : SameBuf(c)
  BY <1>1, <1>3, <1>4 DEF IInv, TypeInv, BufTypes, SameBuf, IsBad, Bad
<1>6. TypeInv'
  BY <1>1, <1>3, <1>5 DEF IInv, TypeInv, BufTypes, ProcTypes, DataTypes, Flags
<1>7. QueueInv'
  BY <1>1, SameQueues DEF IInv, Sleeps
<1>8. NoFreeBufMissed'
  BY <1>1, <1>4 DEF IInv, NoFreeBufMissed
<1>9. Frame(None, b, None)
  BY <1>1, <1>3, <1>4, <1>5, <1>6, <1>7, <1>8 DEF Frame, WakesOnly, StillFlushing
<1>10. BufInv(b)'
  BY <1>1, <1>2, <1>3, <1>4, <1>5 DEF BufInv
<1>11. Settles(None, b, None)
  BY <1>2, <1>3, <1>5, <1>10 DEF Settles
<1>12. None \notin Proc
  BY NoneAssumption
<1> QED
  BY <1>9, <1>11, <1>12, LocalStep

LEMMA blkinvalStep ==
  ASSUME IInv, NEW p \in Proc, blkinval(p)
  PROVE  IInv'
<1>1. pc[p] = "loop" /\ call[p] = "blkinval" /\ kept[p] = None /\ blkno[p] # None
  BY DEF blkinval, In, IInv, PlaceInv, ByBlk
<1>2. \/ Done(p)
      \/ \E b \in Buf \ Free : id[b] = blkno[p] /\ SleepFor(p, b)
      \/ \E b \in Buf : b \in Free /\ FreeInval(b) /\ Discard(b)
  BY DEF blkinval
<1>3. CASE Done(p)
  BY <1>1, <1>3, DoneStep
<1>4. ASSUME NEW b \in Buf \ Free, id[b] = blkno[p], SleepFor(p, b)
      PROVE  IInv'
  BY <1>1, <1>4, SleepStep
<1>5. ASSUME NEW b \in Buf, b \in Free, FreeInval(b), Discard(b)
      PROVE  IInv'
  BY <1>5, FreeInvalStep
<1> QED
  BY <1>2, <1>3, <1>4, <1>5

LEMMA bflushStep ==
  ASSUME IInv, NEW p \in Proc, bflush(p)
  PROVE  IInv'
<1>1. pc[p] = "loop" /\ call[p] = "bflush"
  BY DEF bflush, In
<1>2. Free \subseteq Buf
  BY FreeIs DEF IInv
<1> QED
  BY <1>1, <1>2, DoneStep, WriteAsyncStep DEF bflush

(* The first buffer of the lists that has a block. *)
LEMMA binvalfreeStep ==
  ASSUME IInv, NEW p \in Proc, binvalfree(p)
  PROVE  IInv'
<1>1. pc[p] = "loop" /\ call[p] = "binvalfree"
  BY DEF binvalfree, In
<1> DEFINE all == lru \o age
<1>2. \A k \in DOMAIN all : all[k] \in Free
  <2>1. ToSet(all) = Free
    BY ConcatQueue, FreeIs DEF IInv, ListInv
  <2> HIDE DEF all
  <2> QED
    BY <2>1 DEF ToSet
<1>3. \/ Done(p)
      \/ \E b \in Free : \/ "DELWRI" \in b_flags[b] /\ WriteAsync(b)
                         \/ "DELWRI" \notin b_flags[b] /\ FreeInval(b) /\ InvalClean(b)
  BY <1>2 DEF binvalfree
<1>4. Free \subseteq Buf
  BY FreeIs DEF IInv
<1> QED
  BY <1>1, <1>3, <1>4, DoneStep, WriteAsyncStep, FreeInvalStep

LEMMA binvalStep ==
  ASSUME IInv, NEW p \in Proc, binval(p)
  PROVE  IInv'
<1>1. pc[p] = "loop" /\ call[p] = "binval" /\ call[p] \notin ByBlk /\ kept[p] = None
  BY DEF binval, In, IInv, PlaceInv, ByBlk, Getters
<1> DEFINE Reorder(b) == /\ lru' = Append(Without(lru, b), b)
                         /\ age' = Without(age, b)
                         /\ invals' = None
                         /\ pc' = Goto(p, "idle")
                         /\ Leave(p)
                         /\ UNCHANGED <<id, b_flags, iodone, io, b_alloc, current, written>>
<1>2. \/ Done(p)
      \/ \E b \in Buf \ Free : id[b] # None /\ SleepFor(p, b)
      \/ \E b \in Buf : /\ b \in Free
                        /\ \/ Reorder(b)
                           \/ "DELWRI" \notin b_flags[b] /\ FreeInval(b) /\ InvalClean(b)
  BY DEF binval
<1>3. CASE Done(p)
  BY <1>1, <1>3, DoneStep
<1>4. ASSUME NEW b \in Buf \ Free, id[b] # None, SleepFor(p, b)
      PROVE  IInv'
  BY <1>1, <1>4, SleepStep
<1>5. ASSUME NEW b \in Buf, b \in Free, Reorder(b)
      PROVE  IInv'
  <2> DEFINE q == Without(lru, b)
             r == Without(age, b)
  <2>1. /\ IsQueue(q, Buf) /\ ToSet(q) = ToSet(lru) \ {b}
        /\ IsQueue(r, Buf) /\ ToSet(r) = ToSet(age) \ {b}
        /\ ToSet(lru) \cap ToSet(age) = {}
    BY WithoutQueue DEF IInv, ListInv
  <2> HIDE DEF q, r
  <2>2. IsQueue(Append(q, b), Buf) /\ ToSet(Append(q, b)) = ToSet(q) \cup {b}
    BY <2>1, QueueAppend
  <2>3. /\ IsQueue(lru', Buf) /\ IsQueue(age', Buf) /\ ToSet(lru') \cap ToSet(age') = {}
        /\ ToSet(age') \cup ToSet(lru') = (ToSet(age) \cup ToSet(lru)) \cup {b}
    BY <1>5, <2>1, <2>2 DEF q, r
  <2>4. ListInv'
    BY <2>3 DEF ListInv
  <2>5. Free' = Free
    BY <1>5, <2>3, <2>4, FreeIs, FreeIsNext DEF IInv
  <2> QED
    BY <1>1, <1>5, <2>4, <2>5, LeaveStep
<1>6. ASSUME NEW b \in Buf, b \in Free, "DELWRI" \notin b_flags[b], FreeInval(b), InvalClean(b)
      PROVE  IInv'
  BY <1>6, FreeInvalStep
<1> QED
  BY <1>2, <1>3, <1>4, <1>5, <1>6
-----------------------------------------------------------------------------
(* The end of a transfer.                                                  *)

(* What biodone() makes of a buffer with flags f and of its block. *)
Transferred(b, f) ==
  /\ f \subseteq Flags /\ "DELWRI" \notin f
  /\ "ASYNC" \in f <=> "ASYNC" \in b_flags[b]
  /\ "INVAL" \in f <=> "INVAL" \in b_flags[b]
  /\ current' \subseteq Buf /\ \A c \in Buf \ {b} : c \in current' <=> c \in current
  /\ b \in current' <=> f \cap Bad = {}
  /\ written \subseteq written' /\ written' \subseteq Blk /\ WritesOnly(b)
  /\ id[b] \in written'

(* A buffer that the driver has, and those who wait for it. *)
LEMMA InTransfer ==
  ASSUME IInv, NEW b \in Buf, io[b] # "none"
  PROVE  /\ id[b] \in Blk /\ id[b] # None /\ "DELWRI" \notin b_flags[b] /\ b \notin Free
         /\ io[b] = "write" => b \in current
         /\ io[b] # "write" => id[b] \in written
         /\ \A q \in Proc : Sleeps(q, b) =>
              Match(q) /\ (q \in unchanged => blkno[q] = id[b])
<1>1. BufInv(b) /\ id[b] \in Blk \cup {None}
  BY DEF IInv, TypeInv, BufTypes
<1>2. /\ id[b] # None /\ "DELWRI" \notin b_flags[b] /\ b \notin Free
      /\ io[b] = "write" => b \in current
  BY <1>1 DEF BufInv
<1>3. io[b] # "write" => id[b] \in written
  BY <1>2, Unwritten
<1>4. ASSUME NEW q \in Proc, Sleeps(q, b)
      PROVE  Match(q) /\ (q \in unchanged => blkno[q] = id[b])
  <2>1. Match(q)
    BY <1>4 DEF IInv, Awaits, Sleeps
  <2>2. q \in unchanged => call[q] \in ByBlk
    BY DEF IInv, Flushing, ByBlk
  <2> QED
    BY <2>1, <2>2, <1>4 DEF Match, Sleeps
<1> QED
  BY <1>1, <1>2, <1>3, <1>4

LEMMA biodoneData ==
  ASSUME IInv, NEW b \in Buf, io[b] # "none",
         NEW f \in {b_flags[b], b_flags[b] \cup {"ERROR"}},
         CASE f \cap Bad # {} -> Discard(b)
           [] f \cap Bad = {} /\ io[b] = "read" ->
                /\ current' = IF id[b] \in written THEN current \cup {b} ELSE current
                /\ UNCHANGED written
           [] OTHER -> /\ written' = IF b \in current THEN written \cup {id[b]} ELSE written
                       /\ UNCHANGED current
  PROVE  Transferred(b, f)
<1>1. /\ f \subseteq Flags /\ "DELWRI" \notin f
      /\ "ASYNC" \in f <=> "ASYNC" \in b_flags[b]
      /\ "INVAL" \in f <=> "INVAL" \in b_flags[b]
  <2>1. f = b_flags[b] \/ f = b_flags[b] \cup {"ERROR"}
    OBVIOUS
  <2> QED
    BY <2>1, InTransfer, FlagsOf
<1>2. /\ id[b] \in Blk /\ current \subseteq Buf /\ written \subseteq Blk
      /\ io[b] = "write" => b \in current
      /\ io[b] # "write" => id[b] \in written
      /\ io[b] \in {"read", "write"}
  BY InTransfer DEF IInv, TypeInv, BufTypes, DataTypes
<1>3. CASE f \cap Bad # {}
  <2>1. Discard(b)
    BY <1>3
  <2>2. /\ b \notin current' /\ current' \subseteq Buf
        /\ \A c \in Buf \ {b} : c \in current' <=> c \in current
        /\ written \subseteq written' /\ written' \subseteq Blk /\ WritesOnly(b)
        /\ id[b] \in written'
    BY <2>1, Discards, InTransfer
  <2> QED
    BY <1>1, <1>3, <2>2 DEF Transferred
<1>4. CASE f \cap Bad = {} /\ io[b] = "read"
  <2>1. current' = current \cup {b} /\ written' = written
    BY <1>2, <1>4
  <2> QED
    BY <1>1, <1>2, <1>4, <2>1 DEF Transferred, WritesOnly
<1>5. CASE f \cap Bad = {} /\ io[b] # "read"
  <2>1. current' = current /\ written' = written \cup {id[b]} /\ b \in current
    BY <1>2, <1>5
  <2> QED
    BY <1>1, <1>2, <1>5, <2>1 DEF Transferred, WritesOnly
<1> QED
  BY <1>3, <1>4, <1>5

(* The driver releases the buffer of an asynchronous transfer. *)
LEMMA AsyncDoneStep ==
  ASSUME IInv, NEW b \in Buf, io[b] # "none", NEW f, Transferred(b, f), "ASYNC" \in f,
         io' = [io EXCEPT ![b] = "none"], iodone' = [iodone EXCEPT ![b] = TRUE],
         brelse(b, f, pc), UNCHANGED <<invals, call, blkno, bp, kept, unchanged>>
  PROVE  IInv'
<1>1. BufTypes /\ ProcTypes /\ None \notin Proc
  BY DEF IInv, TypeInv
<1>2. iodone' \in [Buf -> BOOLEAN] /\ iodone'[b] = TRUE
      /\ \A c \in Buf \ {b} : iodone'[c] = iodone[c]
  BY <1>1 DEF BufTypes
<1>3. \A q \in Proc : ~Holds(q, b)
  BY DEF IInv, HeldInv, Transferred
<1>4. b \notin Free /\ f \subseteq Flags
  BY InTransfer DEF Transferred
<1>5. StillFlushing(None)
  BY DEF StillFlushing, Transferred
<1>6. ReleaseFrame(None, b, pc)
  BY <1>1, <1>2, <1>5 DEF ReleaseFrame, ProcTypes, Transferred
<1>7. Releasable(None, b, f)
  BY <1>2, InTransfer DEF Releasable, Transferred
<1> QED
  BY <1>1, <1>3, <1>4, <1>6, <1>7, BrelseStep

(* The process that started the transfer keeps the buffer. *)
LEMMA SyncDoneStep ==
  ASSUME IInv, NEW b \in Buf, io[b] # "none", NEW f, Transferred(b, f), "ASYNC" \notin f,
         io' = [io EXCEPT ![b] = "none"], iodone' = [iodone EXCEPT ![b] = TRUE],
         b_flags' = [b_flags EXCEPT ![b] = f],
         UNCHANGED <<id, lru, age, b_alloc, invals, pc, call, blkno, bp, kept, unchanged>>
  PROVE  IInv'
<1>1. BufTypes /\ ProcTypes
  BY DEF IInv, TypeInv
<1>2. /\ id[b] # None /\ b \notin Free
      /\ \A q \in Proc : Sleeps(q, b) => Match(q) /\ (q \in unchanged => blkno[q] = id[b])
  BY InTransfer
<1>3. /\ io'[b] = "none" /\ iodone'[b] = TRUE /\ b_flags'[b] = f /\ id'[b] = id[b]
      /\ IsBad(b)' <=> f \cap Bad # {}
  BY <1>1 DEF BufTypes, IsBad
<1>4. PICK p \in Proc : Holds(p, b)
  BY <1>2 DEF IInv, BufInv, Transferred
<1>5. /\ kept[p] = b \/ (pc[p] \in {"biowait", "bwrite"} /\ bp[p] = b)
      /\ \A q \in Proc \ {p} : ~Holds(q, b)
  BY <1>4 DEF IInv, HeldInv, OneHolder, Holds
<1>6. /\ PlaceInv(p) /\ UseInv(p) /\ Flushing(p)
      /\ \A c \in Buf : Holds(p, c) => HeldInv(p, c)
  BY DEF IInv
<1>7. ListInv' /\ Free' = Free
  BY SameLists DEF IInv
<1>8. \A c \in Buf \ {b} : SameBuf(c)
  BY <1>1, <1>7 DEF SameBuf, BufTypes, Transferred
<1>9. Frame(p, b, None)
  <2>1. TypeInv'
    BY <1>1 DEF TypeInv, BufTypes, ProcTypes, DataTypes, Transferred
  <2>2. QueueInv' /\ NoFreeBufMissed'
    BY <1>7, SameQueues DEF IInv, Sleeps, NoFreeBufMissed
  <2>3. WakesOnly(p, b, None) /\ StillFlushing(p)
    BY DEF WakesOnly, StillFlushing, Transferred
  <2> QED
    BY <1>7, <1>8, <2>1, <2>2, <2>3 DEF Frame, Transferred
<1>10. BufInv(b)'
  <2>1. Holds(p, b)'
    BY <1>4 DEF Holds
  <2> QED
    BY <1>2, <1>3, <1>7, <2>1 DEF BufInv, Transferred
<1>11. Settles(p, b, None)
  <2>1. ASSUME NEW q \in Proc, Sleeps(q, b)
        PROVE  Match(q)' /\ pc'[q] # "got" /\ (q \in unchanged' => blkno[q] \in written')
    BY <1>2, <2>1 DEF Match, Sleeps, Transferred
  <2>2. \A c \in Buf \ {b} : id'[b] = id[c] => id'[b] = None
    BY <1>3 DEF IInv, Unique
  <2>3. id[b] \in written'
    BY DEF Transferred
  <2> QED
    BY <1>5, <1>10, <2>1, <2>2, <2>3 DEF Settles
<1>12. PlaceInv(p)'
  BY <1>6 DEF PlaceInv
<1>13. UseInv(p)'
  <2>1. pc[p] = "stolen" => bp[p] \in Buf \ {b}
    BY <1>1, <1>5, <1>6 DEF PlaceInv, ProcTypes, Ins
  <2>2. \A c \in Buf : "INVAL" \in b_flags'[c] <=> "INVAL" \in b_flags[c]
    BY <1>1, <1>3 DEF BufTypes, Transferred
  <2>3. \A c \in Buf : iodone[c] => iodone'[c]
    BY <1>1 DEF BufTypes
  <2>4. \A c \in Buf : io[c] # "read" => io'[c] # "read"
    BY <1>1 DEF BufTypes
  <2>5. Wanted(p)' = Wanted(p)
    BY DEF Wanted
  <2>6. bp[p] \in Buf \cup {None} /\ kept[p] \in Buf \cup {None}
        /\ (bp[p] = None => pc[p] \in Ins)
    BY <1>1, <1>6 DEF ProcTypes, PlaceInv
  <2> QED
    BY <1>6, <1>8, <2>1, <2>2, <2>3, <2>4, <2>5, <2>6 DEF UseInv, SameBuf, Ins
<1>14. Flushing(p)'
  <2>1. ASSUME p \in unchanged
        PROVE  pc[p] = "bwrite" /\ bp[p] = b /\ call[p] = "blkflush"
    BY <1>5, <1>6, <2>1 DEF PlaceInv, Flushing
  <2>2. pc[p] = "bwrite" /\ bp[p] = b /\ call[p] = "blkflush" => blkno[p] \in written'
    BY <1>6 DEF UseInv, Transferred
  <2> QED
    BY <2>1, <2>2 DEF Flushing
<1>15. \A c \in Buf : Holds(p, c)' => HeldInv(p, c)'
  <2>1. ASSUME NEW c \in Buf \ {b}, Holds(p, c)'
        PROVE  HeldInv(p, c)'
    <3>1. HeldInv(p, c) /\ SameBuf(c)
      BY <1>6, <1>8, <2>1 DEF Holds
    <3> QED
      BY <3>1 DEF HeldInv, SameBuf
  <2>2. HeldInv(p, b)'
    BY <1>2, <1>3, <1>7 DEF HeldInv
  <2> QED
    BY <2>1, <2>2
<1>16. Turns(p, b)
  <2>1. pc[p] \notin {"asleep", "got"}
    BY <1>5, <1>6 DEF PlaceInv
  <2> QED
    BY <1>12, <1>13, <1>14, <1>15, <2>1 DEF Turns, Holds
<1> QED
  BY <1>9, <1>11, <1>16, LocalStep

LEMMA biodoneStep ==
  ASSUME IInv, NEW b \in Buf, biodone(b)
  PROVE  IInv'
<1>1. /\ io[b] # "none" /\ io' = [io EXCEPT ![b] = "none"]
      /\ iodone' = [iodone EXCEPT ![b] = TRUE]
      /\ UNCHANGED <<invals, call, blkno, bp, kept, unchanged>>
  BY DEF biodone
<1>2. PICK f \in {b_flags[b], b_flags[b] \cup {"ERROR"}} :
        /\ CASE f \cap Bad # {} -> Discard(b)
             [] f \cap Bad = {} /\ io[b] = "read" ->
                  /\ current' = IF id[b] \in written THEN current \cup {b} ELSE current
                  /\ UNCHANGED written
             [] OTHER -> /\ written' = IF b \in current THEN written \cup {id[b]} ELSE written
                         /\ UNCHANGED current
        /\ IF "ASYNC" \in f
           THEN brelse(b, f, pc)
           ELSE /\ b_flags' = [b_flags EXCEPT ![b] = f]
                /\ UNCHANGED <<id, lists, b_alloc, pc>>
  BY DEF biodone
<1>3. Transferred(b, f)
  BY <1>1, <1>2, biodoneData
<1>4. CASE "ASYNC" \in f
  BY <1>1, <1>2, <1>3, <1>4, AsyncDoneStep
<1>5. CASE "ASYNC" \notin f
  BY <1>1, <1>2, <1>3, <1>5, SyncDoneStep DEF lists
<1> QED
  BY <1>4, <1>5
-----------------------------------------------------------------------------
(* The invariant is one.                                                   *)

(* binit() frees every buffer once. *)
LEMMA AllFree ==
  ASSUME NEW q \in SetToSeqs(Buf)
  PROVE  IsQueue(q, Buf) /\ ToSet(q) = Buf
<1> DEFINE n == Cardinality(Buf)
<1>1. n \in Nat /\ IsFiniteSet(Buf)
  BY BufAssumption, FS_CardinalityType
<1>2. q \in [1 .. n -> Buf] /\ IsInjective(q)
  BY DEF SetToSeqs, IsInjective
<1> HIDE DEF n
<1>3. IsFiniteSet(1 .. n) /\ Cardinality(1 .. n) = n
  BY <1>1, FS_Interval
<1>4. q \in Injection(1 .. n, Buf)
  BY <1>2 DEF Injection
<1>5. q \in Surjection(1 .. n, Buf)
  BY <1>1, <1>3, <1>4, FS_Injection DEF n
<1>6. q \in Seq(Buf)
  BY <1>1, <1>2, SeqDef
<1> QED
  BY <1>2, <1>5, <1>6 DEF IsQueue, ToSet, Surjection

LEMMA InitInv ==
  ASSUME Init
  PROVE  IInv
<1> USE DEF Init
<1>1. ListInv /\ ToSet(age) = Buf
  BY AllFree, EmptyQueue DEF ListInv
<1>2. Free = Buf
  BY <1>1, EmptyQueue, FreeIs
<1>3. TypeInv
  BY DEF TypeInv, BufTypes, ProcTypes, DataTypes, Flags, Places
<1>4. \A p \in Proc : PlaceInv(p)
  <2>1. None \notin ByBlk
    BY DEF ByBlk, Getters, Functions
  <2> QED
    BY <2>1 DEF PlaceInv, Ins
<1>5. QueueInv /\ \A p \in Proc, b \in Buf : ~Holds(p, b) /\ ~Sleeps(p, b)
  BY EmptyQueue DEF QueueInv, Holds, Sleeps
<1>6. \A b \in Buf : BufInv(b)
  BY <1>2 DEF BufInv, IsBad, Bad
<1>7. \A p \in Proc : UseInv(p) /\ Awaits(p) /\ Flushing(p)
  BY DEF UseInv, Awaits, Flushing
<1>8. Unique /\ NoLostWrite /\ NoFreeBufMissed /\ \A b \in Buf : OneHolder(b)
  BY <1>5 DEF Unique, NoLostWrite, NoFreeBufMissed, OneHolder
<1> QED
  BY <1>1, <1>3, <1>4, <1>5, <1>6, <1>7, <1>8 DEF IInv

LEMMA StutterStep ==
  ASSUME IInv, UNCHANGED vars
  PROVE  IInv'
<1> USE DEF vars, lists, procs, data
<1>1. ListInv' /\ Free' = Free
  BY SameLists DEF IInv
<1>2. TypeInv' /\ QueueInv' /\ Unique' /\ NoLostWrite' /\ NoFreeBufMissed'
  BY <1>1 DEF IInv, TypeInv, BufTypes, ProcTypes, DataTypes, QueueInv, Sleeps,
              Unique, NoLostWrite, NoFreeBufMissed
<1>3. \A p \in Proc : PlaceInv(p)' /\ UseInv(p)' /\ Awaits(p)' /\ Flushing(p)'
  BY DEF IInv, PlaceInv, UseInv, Wanted, Awaits, Match, IsBad, Flushing
<1>4. \A b \in Buf : BufInv(b)' /\ OneHolder(b)'
  BY <1>1 DEF IInv, BufInv, OneHolder, Holds, IsBad
<1>5. \A p \in Proc, b \in Buf : Holds(p, b)' => HeldInv(p, b)'
  BY <1>1 DEF IInv, Holds, HeldInv
<1> QED
  BY <1>1, <1>2, <1>3, <1>4, <1>5 DEF IInv

LEMMA NextStep ==
  ASSUME IInv, [Next]_vars
  PROVE  IInv'
<1>1. ASSUME NEW p \in Proc,
             \/ Call(p) \/ Hit(p) \/ Woken(p) \/ NoBuf(p) \/ Clean(p) \/ Steal(p)
             \/ Stolen(p) \/ Absent(p) \/ biowait(p) \/ Written(p)
      PROVE  IInv'
  BY <1>1, CallStep, HitStep, WokenStep, NoBufStep, CleanStep, StealStep,
     StolenStep, AbsentStep, biowaitStep, WrittenStep
<1>2. ASSUME NEW p \in Proc,
             \/ Release(p) \/ Invalidate(p) \/ WriteBack(p) \/ Bwrite(p)
             \/ bawrite(p) \/ bdwrite(p)
      PROVE  IInv'
  BY <1>2, UserReleaseStep, InvalidateStep, WriteBackStep, BwriteOwnStep, bawriteStep, bdwriteStep
<1>3. ASSUME NEW p \in Proc,
             \/ blkflush(p) \/ blkflushWoken(p) \/ blkinval(p) \/ blkinvalWoken(p)
             \/ bflush(p) \/ binval(p) \/ binvalWoken(p) \/ binvalfree(p)
      PROVE  IInv'
  BY <1>3, blkflushStep, blkflushWokenStep, blkinvalStep, blkinvalWokenStep,
     bflushStep, binvalStep, binvalWokenStep, binvalfreeStep
<1>4. ASSUME NEW b \in Buf, biodone(b)
      PROVE  IInv'
  BY <1>4, biodoneStep
<1>5. CASE UNCHANGED vars
  BY <1>5, StutterStep
<1> QED
  BY <1>1, <1>2, <1>3, <1>4, <1>5 DEF Next

(* The buffers, their queues and the processes agree with each other. *)
THEOREM Inductive == Spec => []IInv
BY InitInv, NextStep, PTL DEF Spec
-----------------------------------------------------------------------------
(* What follows from it.                                                   *)

LEMMA NobodyQueued ==
  ASSUME IInv, NEW b \in Buf, \A p \in Proc : ~Sleeps(p, b)
  PROVE  b_alloc[b] = <<>>
<1>1. IsQueue(b_alloc[b], Proc) /\ \A p \in Proc : p \notin ToSet(b_alloc[b])
  BY DEF IInv, QueueInv
<1>2. SUFFICES ASSUME b_alloc[b] # <<>>
               PROVE  FALSE
  OBVIOUS
<1>3. Len(b_alloc[b]) > 0
  BY <1>1, <1>2, EmptySeq DEF IsQueue
<1> QED
  BY <1>1, <1>3, QueueTail

(* The types, and that no buffer is twice on the free lists and no process *)
(* twice in the queue of a buffer.                                         *)
THEOREM TypeCorrect == Spec => []TypeOK
<1>1. ASSUME IInv
      PROVE  TypeOK
  <2>1. /\ lru \in Seq(Buf) /\ age \in Seq(Buf) /\ IsInjective(age \o lru)
    BY <1>1, ConcatQueue DEF IInv, ListInv, IsQueue
  <2>2. \A b \in Buf : b_alloc[b] \in Seq(Proc) /\ IsInjective(b_alloc[b])
    BY <1>1 DEF IInv, QueueInv, IsQueue
  <2> QED
    BY <1>1, <2>1, <2>2 DEF IInv, TypeInv, BufTypes, ProcTypes, DataTypes, TypeOK
<1> QED
  BY <1>1, Inductive, PTL

(* A buffer is free, or one process has it, or the driver in asynchronous  *)
(* I/O: brelse(), getblk() and notavail() hand it from one to the other.   *)
THEOREM BufferOneOwner == Spec => []OneOwner
<1>1. ASSUME IInv, NEW b \in Buf
      PROVE  /\ b \in Free => Holders(b) = {} /\ io[b] = "none" /\ b_alloc[b] = <<>>
             /\ io[b] # "none" /\ "ASYNC" \in b_flags[b] => Holders(b) = {}
             /\ b \notin Free /\ ~(io[b] # "none" /\ "ASYNC" \in b_flags[b])
                  => Cardinality(Holders(b)) = 1
  <2>1. Holders(b) = {p \in Proc : Holds(p, b)}
    BY DEF Holders, Holds
  <2>2. CASE b \in Free
    BY <1>1, <2>1, <2>2, Unheld, NobodyQueued
  <2>3. CASE io[b] # "none" /\ "ASYNC" \in b_flags[b]
    <3>1. Holders(b) = {}
      BY <1>1, <2>1, <2>3 DEF IInv, HeldInv
    <3>2. b \notin Free
      BY <1>1, <2>3, Unheld
    <3> QED
      BY <2>3, <3>1, <3>2
  <2>4. CASE b \notin Free /\ ~(io[b] # "none" /\ "ASYNC" \in b_flags[b])
    <3>1. PICK p \in Proc : Holds(p, b)
      BY <1>1, <2>4 DEF IInv, BufInv
    <3>2. Holders(b) = {p}
      BY <1>1, <2>1, <3>1 DEF IInv, OneHolder
    <3> QED
      BY <2>4, <3>2, FS_Singleton
  <2> QED
    BY <2>2, <2>3, <2>4
<1>2. ASSUME IInv
      PROVE  OneOwner
  BY <1>1, <1>2 DEF OneOwner
<1> QED
  BY <1>2, Inductive, PTL

(* A block is in one buffer, and bread(), breada() and getblk() return a   *)
(* buffer of the block, though they may have slept for it.                 *)
THEOREM BlockOneBuffer == Spec => []OneBuffer
<1>1. ASSUME IInv
      PROVE  OneBuffer
  <2>1. ASSUME NEW p \in Proc, pc[p] \in {"biowait", "hold"}, call[p] # "geteblk"
        PROVE  id[bp[p]] = blkno[p]
    <3>1. call[p] \in Getters
      BY <1>1, <2>1 DEF IInv, PlaceInv, Getters
    <3> QED
      BY <1>1, <2>1, <3>1 DEF IInv, UseInv
  <2> QED
    BY <1>1, <2>1 DEF IInv, Unique, OneBuffer
<1> QED
  BY <1>1, Inductive, PTL

(* What bread() returns without an error, and every buffer that getblk()   *)
(* would find done, has the last contents of its block.                    *)
THEOREM ContentsRead == Spec => []ReadsCurrent
<1>1. ASSUME IInv
      PROVE  ReadsCurrent
  <2>1. ASSUME NEW p \in Proc, pc[p] = "hold", call[p] \in {"bread", "breada"},
               "ERROR" \notin b_flags[bp[p]]
        PROVE  bp[p] \in current
    <3>1. PICK b \in Buf : b = bp[p] /\ \A q \in Proc : ~(pc[q] = "stolen" /\ bp[q] = b)
      BY <1>1, <2>1, Held
    <3>2. iodone[b] /\ id[b] = blkno[p] /\ "INVAL" \notin b_flags[b]
      BY <1>1, <2>1, <3>1 DEF IInv, UseInv, Getters
    <3>3. id[b] # None /\ ~IsBad(b)
      BY <1>1, <2>1, <3>1, <3>2 DEF IInv, PlaceInv, ByBlk, Getters, IsBad, Bad
    <3> QED
      BY <1>1, <3>1, <3>2, <3>3 DEF IInv, BufInv
  <2>2. ASSUME NEW b \in Free, id[b] # None, iodone[b]
        PROVE  b \in current
    <3>1. b \in Buf
      BY <1>1, FreeIs DEF IInv
    <3>2. ~IsBad(b) /\ \A q \in Proc : bp[q] # b
      BY <1>1, <2>2, <3>1, Unheld
    <3> QED
      BY <1>1, <2>2, <3>1, <3>2 DEF IInv, BufInv
  <2> QED
    BY <2>1, <2>2 DEF ReadsCurrent
<1> QED
  BY <1>1, Inductive, PTL

(* A block whose last contents are not on the disk is in a buffer that is  *)
(* marked dirty or being written.                                          *)
THEOREM NothingLost == Spec => []NoLostWrite
BY Inductive, PTL DEF IInv

(* brelse() wakes every process that waits for any buffer. *)
THEOREM NoneMissed == Spec => []NoFreeBufMissed
BY Inductive, PTL DEF IInv

(* A step of another process does not let blkflush() return. *)
LEMMA OthersKeep ==
  ASSUME IInv, NEW p \in unchanged, NEW q \in Proc \ {p},
         \/ Call(q) \/ Hit(q) \/ Woken(q) \/ NoBuf(q) \/ Clean(q) \/ Steal(q)
         \/ Stolen(q) \/ Absent(q) \/ biowait(q) \/ Written(q)
         \/ Release(q) \/ Invalidate(q) \/ WriteBack(q) \/ Bwrite(q) \/ bawrite(q) \/ bdwrite(q)
         \/ blkflush(q) \/ blkflushWoken(q) \/ blkinval(q) \/ blkinvalWoken(q)
         \/ bflush(q) \/ binval(q) \/ binvalWoken(q) \/ binvalfree(q)
  PROVE  p \in unchanged' \/ pc'[p] # "idle"
<1>1. CASE Call(q)
  BY <1>1 DEF Call
<1>2. CASE Hit(q) \/ Woken(q) \/ NoBuf(q) \/ Clean(q) \/ Steal(q) \/ Stolen(q) \/ biowait(q) \/ WriteBack(q)
  BY <1>2 DEF Hit, SleepFor, Woken, NoBuf, Clean, Steal, Stolen, biowait, WriteBack, data
<1>3. CASE Absent(q) \/ Written(q) \/ Release(q) \/ Invalidate(q)
  BY <1>3 DEF Absent, Written, Release, Invalidate, Leave
<1>4. CASE Bwrite(q) \/ bawrite(q) \/ bdwrite(q)
  <2>1. p \in Proc /\ pc[p] # "idle" /\ ProcTypes
    BY DEF IInv, TypeInv, ProcTypes, Flushing, PlaceInv, Functions
  <2>2. CASE Bwrite(q) \/ bawrite(q)
    BY <2>1, <2>2 DEF Bwrite, bawrite, Goto, ProcTypes
  <2>3. CASE bdwrite(q)
    <3> DEFINE next == Goto(q, "idle")
    <3>1. next \in [Proc -> Places] /\ next[p] = pc[p]
      BY <2>1 DEF Goto, ProcTypes, Places
    <3>2. \/ pc' = WakeAll(next)
          \/ \E h : pc' = [next EXCEPT ![h] = "got"]
      BY <2>3 DEF bdwrite, brelse
    <3> HIDE DEF next
    <3>3. pc'[p] \in {pc[p], "loop", "got"}
      BY <2>1, <3>1, <3>2 DEF WakeAll
    <3> QED
      BY <2>1, <3>3
  <2> QED
    BY <1>4, <2>2, <2>3
<1>5. CASE blkflush(q) \/ blkflushWoken(q)
  BY <1>5 DEF blkflush, blkflushWoken, Done, SleepFor, WriteSync, Leave, data
<1>6. CASE blkinval(q) \/ blkinvalWoken(q)
  BY <1>6 DEF blkinval, blkinvalWoken, Done, SleepFor, FreeInval, Inval, Leave, data
<1>7. CASE bflush(q)
  BY <1>7 DEF bflush, Done, WriteAsync, Leave, data
<1>8. CASE binval(q) \/ binvalWoken(q)
  BY <1>8 DEF binval, binvalWoken, Done, SleepFor, FreeInval, Inval, Leave, data
<1>9. CASE binvalfree(q)
  BY <1>9 DEF binvalfree, Done, WriteAsync, FreeInval, Leave, data
<1> QED
  BY <1>1, <1>2, <1>3, <1>4, <1>5, <1>6, <1>7, <1>8, <1>9

(* blkflush() returns when the block is on the disk. *)
LEMMA FlushReturns ==
  ASSUME IInv, NEW p \in unchanged, p \notin unchanged', pc'[p] = "idle",
         \/ Call(p) \/ Hit(p) \/ Woken(p) \/ NoBuf(p) \/ Clean(p) \/ Steal(p)
         \/ Stolen(p) \/ Absent(p) \/ biowait(p) \/ Written(p)
         \/ Release(p) \/ Invalidate(p) \/ WriteBack(p) \/ Bwrite(p) \/ bawrite(p) \/ bdwrite(p)
         \/ blkflush(p) \/ blkflushWoken(p) \/ blkinval(p) \/ blkinvalWoken(p)
         \/ bflush(p) \/ binval(p) \/ binvalWoken(p) \/ binvalfree(p)
  PROVE  blkno[p] \in written'
<1>1. /\ p \in Proc /\ PlaceInv(p) /\ UseInv(p) /\ Awaits(p) /\ Flushing(p)
      /\ call[p] = "blkflush"
  BY DEF IInv, TypeInv, ProcTypes, Flushing
<1>2. /\ blkno[p] \in Blk /\ blkno[p] # None
      /\ pc[p] \notin {"idle", "biowait", "stolen", "hold"}
  BY <1>1 DEF PlaceInv, ByBlk, Getters, Functions
<1>3. Written(p) \/ blkflush(p) \/ blkflushWoken(p)
  BY <1>1, <1>2 DEF Call, Hit, Woken, InGetblk, NoBuf, Clean, Steal, Misses, Stolen, Absent,
     biowait, Release, Invalidate, WriteBack, Bwrite, bawrite, bdwrite, Change,
     blkinval, blkinvalWoken, bflush, binval, binvalWoken, binvalfree, In, Getters
<1>4. CASE Written(p)
  <2>1. pc[p] = "bwrite" /\ iodone[bp[p]] /\ written' = written
    BY <1>4 DEF Written
  <2>2. bp[p] \in Buf
    BY <1>1, <2>1, Held
  <2>3. io[bp[p]] = "none"
    BY <2>1, <2>2 DEF IInv, BufInv
  <2> QED
    BY <1>1, <2>1, <2>3 DEF Flushing
<1>5. CASE blkflush(p)
  <2>1. /\ written' = written
        /\ \A b \in Buf : id[b] = blkno[p] => b \in Free /\ "DELWRI" \notin b_flags[b]
    BY <1>5 DEF blkflush, Done, SleepFor, WriteSync, data
  <2>2. SUFFICES ASSUME blkno[p] \notin written
                 PROVE  FALSE
    BY <2>1
  <2>3. PICK b \in current : id[b] = blkno[p] /\ (io[b] = "write" \/ "DELWRI" \in b_flags[b])
    BY <1>2, <2>2 DEF IInv, NoLostWrite
  <2>4. b \in Buf
    BY DEF IInv, TypeInv, DataTypes
  <2> QED
    BY <2>1, <2>3, <2>4, Unheld
<1>6. CASE blkflushWoken(p)
  <2>1. pc[p] = "got"
    BY <1>6 DEF blkflushWoken, In
  <2>2. PICK b \in Buf : b = bp[p] /\ io[b] = "none"
    BY <1>1, <2>1, HoldsBuffer
  <2>3. written' = written /\ (IsBad(b) \/ "DELWRI" \notin b_flags[b])
    BY <1>6, <2>2 DEF blkflushWoken, WriteSync, IsBad, data
  <2>4. CASE IsBad(b)
    BY <1>1, <2>1, <2>2, <2>3, <2>4 DEF Flushing
  <2>5. CASE ~IsBad(b)
    <3>1. id[b] = blkno[p]
      BY <1>1, <2>1, <2>2, <2>5 DEF Awaits, Match, ByBlk
    <3> QED
      BY <1>2, <2>2, <2>3, <2>5, <3>1, Unwritten
  <2> QED
    BY <2>4, <2>5
<1> QED
  BY <1>3, <1>4, <1>5, <1>6

(* When blkflush() returns, what the block had when it was called is on    *)
(* the disk.                                                               *)
THEOREM FlushDone == Spec => FlushWrites
<1>1. ASSUME IInv, [Next]_vars, NEW p \in unchanged, p \notin unchanged', pc'[p] = "idle"
      PROVE  blkno[p] \in written'
  <2>1. ~UNCHANGED vars
    BY <1>1 DEF vars, data
  <2>2. \A b \in Buf : ~biodone(b)
    BY <1>1 DEF biodone
  <2>3. p \in Proc
    BY <1>1 DEF IInv, TypeInv, ProcTypes
  <2> QED
    BY <1>1, <2>1, <2>2, <2>3, OthersKeep, FlushReturns DEF Next
<1>2. ASSUME IInv, [Next]_vars
      PROVE  [\A p \in unchanged : p \notin unchanged' /\ pc'[p] = "idle"
                                      => blkno[p] \in written']_vars
  BY <1>1, <1>2
<1> QED
  BY <1>2, Inductive, PTL DEF Spec, FlushWrites
=============================================================================
