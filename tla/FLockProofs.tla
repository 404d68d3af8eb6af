---------------------------- MODULE FLockProofs ----------------------------
(* File locks, for any number of processes, files, headers and records:    *)
(* the header of a file stays while a process refers to it or it has       *)
(* locks; who is asleep is asleep on a lock that shuts it out; processes   *)
(* do not sleep in a circle.                                               *)
EXTENDS FLock, QueueLemmas, FiniteSetTheorems

USE ProcAssumption, NoneAssumption
-----------------------------------------------------------------------------
(* Headers. *)

Referring(h) == {p \in Proc : flip[p] = h}

(* What HeaderStays needs of the types, and that a process is idle when it *)
(* begins to refer to a header.                                            *)
RefInv ==
  /\ fl_vp \in [Flino -> File \cup {None}]
  /\ fl_refcnt \in [Flino -> Nat]
  /\ DOMAIN fl_flck = Flino
  /\ DOMAIN pc = Proc
  /\ flip \in [Proc -> Flino \cup {None}]
  /\ \A p \in Proc : pc[p] = "idle" => flip[p] = None

(* HeaderStays, in parts. *)
Counted == \A h \in Flino : fl_refcnt[h] = Cardinality(Referring(h))
InUse == \A h \in Flino : fl_vp[h] = None <=> fl_refcnt[h] = 0 /\ fl_flck[h] = <<>>
OneHeader == \A h, g \in Flino : fl_vp[h] # None /\ g # h => fl_vp[g] # fl_vp[h]

IInv == RefInv /\ Counted /\ InUse /\ OneHeader

(* A header that a process refers to has a reference counted. *)
LEMMA ReferredCounts ==
  ASSUME IInv, NEW p \in Proc, flip[p] # None
  PROVE  flip[p] \in Flino /\ fl_refcnt[flip[p]] > 0 /\ fl_vp[flip[p]] # None
<1>1. flip[p] \in Flino
  BY DEF IInv, RefInv
<1>2. IsFiniteSet(Referring(flip[p])) /\ p \in Referring(flip[p])
  BY FS_Subset DEF Referring
<1>3. Cardinality(Referring(flip[p])) # 0
  BY <1>2, FS_EmptySet
<1>4. fl_refcnt[flip[p]] \in Nat /\ fl_refcnt[flip[p]] # 0
  BY <1>1, <1>3 DEF IInv, RefInv, Counted
<1> QED
  BY <1>1, <1>4 DEF IInv, InUse

(* A step that works on the chain of the header of a process. *)
LEMMA ChainStep ==
  ASSUME IInv, NEW p \in Proc, NEW chain,
         fl_flck' = [fl_flck EXCEPT ![flip[p]] = chain],
         DOMAIN pc' = Proc,
         \A q \in Proc : pc'[q] = "idle" => pc[q] = "idle",
         UNCHANGED <<fl_vp, fl_refcnt, flip>>
  PROVE  IInv'
<1>1. RefInv'
  BY DEF IInv, RefInv
<1>2. ASSUME NEW h \in Flino
      PROVE  fl_vp'[h] = None <=> fl_refcnt'[h] = 0 /\ fl_flck'[h] = <<>>
  <2>1. CASE h = flip[p]
    <3>1. flip[p] # None
      BY <2>1
    <3>2. fl_refcnt[h] > 0 /\ fl_vp[h] # None /\ fl_refcnt[h] \in Nat
      BY <2>1, <3>1, ReferredCounts DEF IInv, RefInv
    <3> QED
      BY <3>2
  <2>2. CASE h # flip[p]
    BY <2>2 DEF IInv, RefInv, InUse
  <2> QED
    BY <2>1, <2>2
<1>3. Counted' /\ OneHeader'
  BY DEF IInv, Counted, OneHeader, Referring
<1> QED
  BY <1>1, <1>2, <1>3 DEF IInv, InUse

(* A process that was idle refers to header h. *)
LEMMA ReferStep ==
  ASSUME IInv, NEW p \in Proc, NEW h \in Flino, flip[p] = None, Refer(p, h),
         fl_vp' \in [Flino -> File \cup {None}], fl_vp'[h] # None,
         \A g \in Flino \ {h} : fl_vp'[g] = fl_vp[g] /\ fl_vp'[h] # fl_vp[g],
         DOMAIN pc' = Proc, pc'[p] # "idle",
         \A q \in Proc \ {p} : pc'[q] = pc[q],
         UNCHANGED fl_flck
  PROVE  IInv'
<1>1. /\ flip' = [flip EXCEPT ![p] = h]
      /\ fl_refcnt' = [fl_refcnt EXCEPT ![h] = @ + 1]
  BY DEF Refer
<1>2. RefInv'
  BY <1>1 DEF IInv, RefInv
<1>3. ASSUME NEW g \in Flino
      PROVE  fl_refcnt'[g] = Cardinality(Referring(g)')
  <2>1. CASE g = h
    <3>1. /\ Referring(h)' = Referring(h) \cup {p} /\ p \notin Referring(h)
          /\ IsFiniteSet(Referring(h))
      BY <1>1, FS_Subset DEF IInv, RefInv, Referring
    <3>2. Cardinality(Referring(h)') = Cardinality(Referring(h)) + 1
      BY <3>1, FS_AddElement
    <3> QED
      BY <2>1, <3>2, <1>1 DEF IInv, RefInv, Counted
  <2>2. CASE g # h
    <3>1. Referring(g)' = Referring(g)
      BY <2>2, <1>1 DEF IInv, RefInv, Referring
    <3> QED
      BY <2>2, <3>1, <1>1 DEF IInv, RefInv, Counted
  <2> QED
    BY <2>1, <2>2
<1>4. ASSUME NEW g \in Flino
      PROVE  fl_vp'[g] = None <=> fl_refcnt'[g] = 0 /\ fl_flck'[g] = <<>>
  <2>1. fl_refcnt[g] \in Nat /\ fl_refcnt'[g] = IF g = h THEN fl_refcnt[g] + 1 ELSE fl_refcnt[g]
    BY <1>1 DEF IInv, RefInv
  <2>2. CASE g = h
    BY <2>1, <2>2
  <2>3. CASE g # h
    BY <2>1, <2>3 DEF IInv, InUse
  <2> QED
    BY <2>2, <2>3
<1>5. OneHeader'
  <2> SUFFICES ASSUME NEW g \in Flino, NEW k \in Flino, fl_vp'[g] # None, k # g
               PROVE  fl_vp'[k] # fl_vp'[g]
    BY DEF OneHeader
  <2>1. fl_vp[g] # None => fl_vp[k] # fl_vp[g]
    BY DEF IInv, OneHeader
  <2>2. CASE g = h
    BY <2>2
  <2>3. CASE k = h
    BY <2>3
  <2> QED
    BY <2>1, <2>2, <2>3
<1> QED
  BY <1>2, <1>3, <1>4, <1>5 DEF IInv, Counted, InUse

(* findfid() and fallocfid() *)
LEMMA FindStep ==
  ASSUME IInv, NEW p \in Proc, NEW f \in File, pc[p] = "idle", fallocfid(p, f),
         pc' \in {[pc EXCEPT ![p] = "set"], [pc EXCEPT ![p] = "clear"]},
         UNCHANGED fl_flck
  PROVE  IInv'
<1>1. /\ flip[p] = None /\ f # None
      /\ DOMAIN pc' = Proc /\ pc'[p] # "idle" /\ \A q \in Proc \ {p} : pc'[q] = pc[q]
  BY DEF IInv, RefInv
<1>2. CASE findfid(p, f)
  <2>1. PICK h \in Flino : fl_vp[h] = f /\ Refer(p, h) /\ UNCHANGED fl_vp
    BY <1>2 DEF findfid
  <2>2. \A g \in Flino \ {h} : fl_vp[g] # fl_vp[h]
    BY <1>1, <2>1 DEF IInv, OneHeader
  <2> QED
    BY <1>1, <2>1, <2>2, ReferStep DEF IInv, RefInv
<1>3. CASE ~findfid(p, f)
  <2>1. /\ \A h \in Flino : fl_vp[h] # f
        /\ \E h \in Flino : /\ fl_vp[h] = None
                            /\ fl_vp' = [fl_vp EXCEPT ![h] = f]
                            /\ Refer(p, h)
    BY <1>3 DEF fallocfid
  <2>2. PICK h \in Flino : /\ fl_vp[h] = None /\ fl_vp' = [fl_vp EXCEPT ![h] = f]
                           /\ Refer(p, h)
    BY <2>1
  <2>3. /\ fl_vp' \in [Flino -> File \cup {None}] /\ fl_vp'[h] = f
        /\ \A g \in Flino \ {h} : fl_vp'[g] = fl_vp[g] /\ fl_vp'[h] # fl_vp[g]
    BY <2>1, <2>2 DEF IInv, RefInv
  <2> QED
    BY <1>1, <2>2, <2>3, ReferStep
<1> QED
  BY <1>2, <1>3

LEMMA LeaveStep ==
  ASSUME IInv, NEW p \in Proc, NEW rv, NEW chain, NEW blk, NEW woken,
         Leave(p, rv, chain, blk, woken), UNCHANGED <<fl_vp, fl_refcnt, flip>>
  PROVE  IInv'
<1>1. /\ fl_flck' = [fl_flck EXCEPT ![flip[p]] = chain]
      /\ pc' = [q \in Proc |-> IF q = p THEN "leave"
                               ELSE IF q \in woken THEN "woken" ELSE pc[q]]
  BY DEF Leave
<1>2. DOMAIN pc' = Proc /\ \A q \in Proc : pc'[q] = "idle" => pc[q] = "idle"
  BY <1>1
<1> QED
  BY <1>1, <1>2, ChainStep

LEMMA TryStep ==
  ASSUME IInv, NEW p \in Proc, NEW ld, NEW slpflg, NEW blk, NEW free,
         Try(p, ld, slpflg, blk, free), UNCHANGED <<fl_vp, fl_refcnt, flip>>
  PROVE  IInv'
<1> DEFINE b == blocked(fl_flck[flip[p]], p, ld)
           chain == [fl_flck[flip[p]] EXCEPT ![b].wait = @ \cup {p}]
<1>1. CASE \E rv, c, blk2, woken : Leave(p, rv, c, blk2, woken)
  BY <1>1, LeaveStep
<1>2. CASE /\ fl_flck' = [fl_flck EXCEPT ![flip[p]] = chain]
           /\ pc' = [pc EXCEPT ![p] = "asleep"]
  <2>1. DOMAIN pc' = Proc /\ \A q \in Proc : pc'[q] = "idle" => pc[q] = "idle"
    BY <1>2 DEF IInv, RefInv
  <2> QED
    BY <1>2, <2>1, ChainStep
<1> QED
  BY <1>1, <1>2 DEF Try

(* freefid() drops the reference, and perhaps the header. *)
LEMMA FreeStep ==
  ASSUME IInv, NEW p \in Proc, NEW h, h = flip[p], freefid(p)
  PROVE  IInv'
<1>1. /\ fl_refcnt' = [fl_refcnt EXCEPT ![h] = @ - 1]
      /\ fl_vp' = IF fl_refcnt[h] <= 1 /\ fl_flck[h] = <<>>
                  THEN [fl_vp EXCEPT ![h] = None] ELSE fl_vp
      /\ flip' = [flip EXCEPT ![p] = None]
      /\ pc' = [pc EXCEPT ![p] = "idle"]
      /\ fl_flck' = fl_flck
  BY DEF freefid, chainVars
<1>2. CASE h = None
  <2>1. fl_refcnt' = fl_refcnt /\ fl_vp' = fl_vp /\ flip' = flip
    <3>1. h \notin Flino /\ fl_refcnt \in [Flino -> Nat] /\ fl_vp \in [Flino -> File \cup {None}]
      BY <1>2 DEF IInv, RefInv
    <3>2. flip \in [Proc -> Flino \cup {None}] /\ flip[p] = None
      BY <1>2 DEF IInv, RefInv
    <3> QED
      BY <1>1, <3>1, <3>2
  <2>2. RefInv'
    BY <1>1, <1>2, <2>1 DEF IInv, RefInv
  <2>3. UNCHANGED <<fl_vp, fl_refcnt, fl_flck, flip>>
    BY <1>1, <2>1
  <2>4. Counted' /\ InUse' /\ OneHeader'
    BY <2>3 DEF IInv, Counted, InUse, OneHeader, Referring
  <2> QED
    BY <2>2, <2>4 DEF IInv
<1>3. CASE h # None
  <2>1. h \in Flino /\ fl_refcnt[h] > 0 /\ fl_vp[h] # None
    BY <1>3, ReferredCounts
  <2>2. RefInv'
    BY <1>1, <2>1 DEF IInv, RefInv
  <2>3. ASSUME NEW g \in Flino
        PROVE  fl_refcnt'[g] = Cardinality(Referring(g)')
    <3>1. CASE g = h
      <4>1. /\ Referring(h)' = Referring(h) \ {p} /\ p \in Referring(h)
            /\ IsFiniteSet(Referring(h))
        <5>1. /\ \A q \in Proc : flip'[q] = IF q = p THEN None ELSE flip[q]
              /\ h # None
          BY <1>1, <2>1 DEF IInv, RefInv
        <5> QED
          BY <5>1, FS_Subset DEF Referring
      <4>2. Cardinality(Referring(h)') = Cardinality(Referring(h)) - 1
        BY <4>1, FS_RemoveElement
      <4> QED
        BY <3>1, <4>2, <1>1, <2>1 DEF IInv, RefInv, Counted
    <3>2. CASE g # h
      <4>1. Referring(g)' = Referring(g)
        BY <3>2, <1>1 DEF IInv, RefInv, Referring
      <4> QED
        BY <3>2, <4>1, <1>1 DEF IInv, RefInv, Counted
    <3> QED
      BY <3>1, <3>2
  <2>4. ASSUME NEW g \in Flino
        PROVE  fl_vp'[g] = None <=> fl_refcnt'[g] = 0 /\ fl_flck'[g] = <<>>
    <3>1. /\ fl_refcnt[g] \in Nat
          /\ fl_refcnt'[g] = IF g = h THEN fl_refcnt[g] - 1 ELSE fl_refcnt[g]
          /\ fl_vp'[g] = IF g = h /\ fl_refcnt[h] <= 1 /\ fl_flck[h] = <<>> THEN None
                         ELSE fl_vp[g]
      BY <1>1, <2>1 DEF IInv, RefInv
    <3>2. CASE g = h
      BY <3>1, <3>2, <1>1, <2>1
    <3>3. CASE g # h
      BY <3>1, <3>3, <1>1 DEF IInv, InUse
    <3> QED
      BY <3>2, <3>3
  <2>5. OneHeader'
    <3>1. \A g \in Flino : fl_vp'[g] \in {fl_vp[g], None}
      BY <1>1, <2>1 DEF IInv, RefInv
    <3> QED
      BY <3>1 DEF IInv, OneHeader
  <2> QED
    BY <2>2, <2>3, <2>4, <2>5 DEF IInv, Counted, InUse
<1> QED
  BY <1>2, <1>3

LEMMA InitInv == Init => IInv
<1> SUFFICES ASSUME Init PROVE IInv
  OBVIOUS
<1>1. ASSUME NEW h \in Flino PROVE Referring(h) = {}
  BY DEF Init, Referring
<1>2. \A h \in Flino : Cardinality(Referring(h)) = 0
  BY <1>1, FS_EmptySet
<1> QED
  BY <1>2 DEF Init, IInv, RefInv, Counted, InUse, OneHeader

LEMMA NextInv ==
  ASSUME IInv, [Next]_vars
  PROVE  IInv'
<1>1. CASE UNCHANGED vars
  BY <1>1 DEF vars, chainVars, IInv, RefInv, Counted, InUse, OneHeader, Referring
<1>2. ASSUME NEW p \in Proc, BeginSet(p) \/ BeginClear(p)
      PROVE  IInv'
  <2>1. /\ pc[p] = "idle" /\ UNCHANGED fl_flck /\ \E f \in File : fallocfid(p, f)
        /\ pc' \in {[pc EXCEPT ![p] = "set"], [pc EXCEPT ![p] = "clear"]}
    BY <1>2 DEF BeginSet, BeginClear, fallocfid, chainVars
  <2> QED
    BY <2>1, FindStep
<1>3. ASSUME NEW p \in Proc, Set(p) \/ Resume(p)
      PROVE  IInv'
  <2>1. /\ \E ld, slpflg, blk, free : Try(p, ld, slpflg, blk, free)
        /\ UNCHANGED <<fl_vp, fl_refcnt, flip>>
    BY <1>3 DEF Set, Resume
  <2> QED
    BY <2>1, TryStep
<1>4. ASSUME NEW p \in Proc, Interrupted(p) \/ Unlock(p) \/ cleanlocks(p)
      PROVE  IInv'
  <2>1. /\ \E rv, chain, blk, woken : Leave(p, rv, chain, blk, woken)
        /\ UNCHANGED <<fl_vp, fl_refcnt, flip>>
    BY <1>4 DEF Interrupted, Unlock, cleanlocks
  <2> QED
    BY <2>1, LeaveStep
<1>5. ASSUME NEW p \in Proc, Interrupt(p)
      PROVE  IInv'
  <2>1. /\ fl_flck' = [fl_flck EXCEPT ![flip[p]] = WithoutSleeper(fl_flck[flip[p]], p)]
        /\ pc' = [pc EXCEPT ![p] = "interrupted"]
        /\ UNCHANGED <<fl_vp, fl_refcnt, flip>>
    BY <1>5 DEF Interrupt
  <2>2. DOMAIN pc' = Proc /\ \A q \in Proc : pc'[q] = "idle" => pc[q] = "idle"
    BY <2>1 DEF IInv, RefInv
  <2> QED
    BY <2>1, <2>2, ChainStep
<1>6. ASSUME NEW p \in Proc, getflck(p)
      PROVE  IInv'
  <2>1. UNCHANGED <<fl_vp, fl_refcnt, fl_flck, flip>> /\ pc' = [pc EXCEPT ![p] = "leave"]
    BY <1>6 DEF getflck, chainVars
  <2>2. RefInv'
    BY <2>1 DEF IInv, RefInv
  <2> QED
    BY <2>1, <2>2 DEF IInv, Counted, InUse, OneHeader, Referring
<1>7. ASSUME NEW p \in Proc, freefid(p)
      PROVE  IInv'
  <2>1. \E h : h = flip[p]
    OBVIOUS
  <2> QED
    BY <1>7, <2>1, FreeStep
<1> QED
  BY <1>1, <1>2, <1>3, <1>4, <1>5, <1>6, <1>7 DEF Next

(* The header of a file stays with it, and is the only one of the file,    *)
(* while a process refers to it or the file has locks; findfid() and       *)
(* freefid() count the references right.                                   *)
THEOREM HeadersStay == Spec => []HeaderStays
<1>1. IInv /\ [Next]_vars => IInv'
  BY NextInv
<1>2. IInv => HeaderStays
  BY DEF IInv, Counted, InUse, OneHeader, HeaderStays, Referring
<1> QED
  BY InitInv, <1>1, <1>2, PTL DEF Spec
-----------------------------------------------------------------------------
(* What a call does to a chain. *)

Lock ==
  {f \in [pid : Proc, type : {"F_RDLCK", "F_WRLCK"}, s : 0 .. MaxEnd - 1, e : 1 .. MaxEnd,
          wait : SUBSET Proc] : f.s < f.e}
Wanted(t) ==
  {ld \in [type : {t}, s : 0 .. MaxEnd - 1, e : 1 .. MaxEnd] :
     ld.s < ld.e}

(* A process sleeps on one lock at most. *)
Apart(chain) ==
  \A j, k \in 1 .. Len(chain) : j # k => chain[j].wait \cap chain[k].wait = {}

(* Where the sleepers of the old chain are: a lock that has sleepers is as  *)
(* it was, and the sleepers of the others are woken, they alone. *)
Follows(old, new, woken) ==
  /\ \A j \in 1 .. Len(old) : old[j].wait \subseteq woken \/ \E k \in 1 .. Len(new) : new[k] = old[j]
  /\ \A k \in 1 .. Len(new) : new[k].wait = {} \/ \E j \in 1 .. Len(old) : new[k] = old[j]
  /\ Apart(new)
  /\ \A k \in 1 .. Len(new) : new[k].wait \cap woken = {}
  /\ \A x \in woken : \E j \in 1 .. Len(old) : x \in old[j].wait

(* A lock is replaced by one without sleepers. *)
LEMMA FollowsChange ==
  ASSUME NEW old \in Seq(Lock), NEW c \in Seq(Lock), NEW woken, Follows(old, c, woken),
         NEW j \in 1 .. Len(c), NEW e \in Lock, e.wait = {}
  PROVE  /\ [c EXCEPT ![j] = e] \in Seq(Lock) /\ Len([c EXCEPT ![j] = e]) = Len(c)
         /\ Follows(old, [c EXCEPT ![j] = e], woken \cup c[j].wait)
<1> DEFINE d == [c EXCEPT ![j] = e]
           W == woken \cup c[j].wait
<1> HIDE DEF Lock
<1>1. Len(c) \in Nat /\ d \in Seq(Lock) /\ Len(d) = Len(c)
  BY ExceptSeq, LenProperties
<1>2. \A k \in 1 .. Len(c) : d[k] = IF k = j THEN e ELSE c[k]
  BY LenProperties
<1> HIDE DEF d
<1>3. ASSUME NEW i \in 1 .. Len(old)
      PROVE  old[i].wait \subseteq W \/ \E k \in 1 .. Len(d) : d[k] = old[i]
  <2>1. CASE old[i].wait \subseteq woken
    BY <2>1
  <2>2. CASE \E k \in 1 .. Len(c) : c[k] = old[i]
    <3>1. PICK k \in 1 .. Len(c) : c[k] = old[i]
      BY <2>2
    <3>2. CASE k = j
      BY <3>1, <3>2
    <3>3. CASE k # j
      BY <3>1, <3>3, <1>1, <1>2
    <3> QED
      BY <3>2, <3>3
  <2> QED
    BY <2>1, <2>2 DEF Follows
<1>4. ASSUME NEW k \in 1 .. Len(d)
      PROVE  /\ d[k].wait = {} \/ \E i \in 1 .. Len(old) : d[k] = old[i]
             /\ d[k].wait \cap W = {}
  <2>1. k \in 1 .. Len(c)
    BY <1>1
  <2>2. CASE k = j
    BY <2>2, <2>1, <1>2
  <2>3. CASE k # j
    BY <2>1, <2>3, <1>2 DEF Follows, Apart
  <2> QED
    BY <2>2, <2>3
<1>5. Apart(d)
  BY <1>1, <1>2 DEF Follows, Apart
<1>6. \A x \in W : \E i \in 1 .. Len(old) : x \in old[i].wait
  BY DEF Follows
<1> QED
  BY <1>1, <1>3, <1>4, <1>5, <1>6 DEF Follows, d

(* delflck() *)
LEMMA FollowsRemove ==
  ASSUME NEW old \in Seq(Lock), NEW c \in Seq(Lock), NEW woken, Follows(old, c, woken),
         NEW j \in 1 .. Len(c)
  PROVE  /\ RemoveAt(c, j) \in Seq(Lock) /\ Len(RemoveAt(c, j)) = Len(c) - 1
         /\ Follows(old, RemoveAt(c, j), woken \cup c[j].wait)
<1> DEFINE d == RemoveAt(c, j)
           W == woken \cup c[j].wait
<1> HIDE DEF Lock
<1>1. /\ Len(c) \in Nat /\ d \in Seq(Lock) /\ Len(d) = Len(c) - 1
      /\ \A k \in 1 .. Len(d) : d[k] = IF k < j THEN c[k] ELSE c[k + 1]
  <2>1. Len(c) \in Nat
    BY LenProperties
  <2>2. /\ d \in Seq(Lock) /\ Len(d) = Len(c) - 1
        /\ \A k \in 1 .. Len(c) - 1 : k < j => d[k] = c[k]
        /\ \A k \in 1 .. Len(c) - 1 : k >= j => d[k] = c[k + 1]
    BY RemoveAtProperties
  <2> HIDE DEF d
  <2>3. ASSUME NEW k \in 1 .. Len(d)
        PROVE  d[k] = IF k < j THEN c[k] ELSE c[k + 1]
    <3>1. k \in 1 .. Len(c) - 1 /\ (k < j \/ k >= j)
      BY <2>1, <2>2
    <3>2. CASE k < j
      BY <2>2, <3>1, <3>2
    <3>3. CASE k >= j
      BY <2>2, <3>1, <3>3
    <3> QED
      BY <3>1, <3>2, <3>3
  <2> QED
    BY <2>1, <2>2, <2>3
<1> HIDE DEF d
<1>2. \A k \in 1 .. Len(d) : \E m \in 1 .. Len(c) : m # j /\ d[k] = c[m] /\ m = IF k < j THEN k ELSE k + 1
  BY <1>1
<1>3. \A m \in 1 .. Len(c) : m # j => \E k \in 1 .. Len(d) : d[k] = c[m]
  <2> SUFFICES ASSUME NEW m \in 1 .. Len(c), m # j PROVE \E k \in 1 .. Len(d) : d[k] = c[m]
    OBVIOUS
  <2>1. CASE m < j
    BY <2>1, <1>1
  <2>2. CASE m > j
    <3>1. m - 1 \in 1 .. Len(d) /\ ~(m - 1 < j) /\ m - 1 + 1 = m
      BY <2>2, <1>1
    <3> QED
      BY <3>1, <1>1
  <2> QED
    BY <2>1, <2>2
<1>4. ASSUME NEW i \in 1 .. Len(old)
      PROVE  old[i].wait \subseteq W \/ \E k \in 1 .. Len(d) : d[k] = old[i]
  <2>1. CASE old[i].wait \subseteq woken
    BY <2>1
  <2>2. CASE \E k \in 1 .. Len(c) : c[k] = old[i]
    <3>1. PICK k \in 1 .. Len(c) : c[k] = old[i]
      BY <2>2
    <3>2. CASE k = j
      BY <3>1, <3>2
    <3>3. CASE k # j
      BY <3>1, <3>3, <1>3
    <3> QED
      BY <3>2, <3>3
  <2> QED
    BY <2>1, <2>2 DEF Follows
<1>5. ASSUME NEW k \in 1 .. Len(d)
      PROVE  /\ d[k].wait = {} \/ \E i \in 1 .. Len(old) : d[k] = old[i]
             /\ d[k].wait \cap W = {}
  <2>1. PICK m \in 1 .. Len(c) : m # j /\ d[k] = c[m]
    BY <1>2
  <2>2. c[m].wait = {} \/ \E i \in 1 .. Len(old) : c[m] = old[i]
    BY DEF Follows
  <2>3. c[m].wait \cap woken = {} /\ c[m].wait \cap c[j].wait = {}
    BY <2>1 DEF Follows, Apart
  <2> QED
    BY <2>1, <2>2, <2>3
<1>6. Apart(d)
  <2> SUFFICES ASSUME NEW k \in 1 .. Len(d), NEW l \in 1 .. Len(d), k # l
               PROVE  d[k].wait \cap d[l].wait = {}
    BY DEF Apart
  <2>1. PICK m \in 1 .. Len(c) : d[k] = c[m] /\ m = IF k < j THEN k ELSE k + 1
    BY <1>2
  <2>2. PICK n \in 1 .. Len(c) : d[l] = c[n] /\ n = IF l < j THEN l ELSE l + 1
    BY <1>2
  <2>3. m # n
    BY <2>1, <2>2
  <2> QED
    BY <2>1, <2>2, <2>3 DEF Follows, Apart
<1>7. \A x \in W : \E i \in 1 .. Len(old) : x \in old[i].wait
  BY DEF Follows
<1> QED
  BY <1>1, <1>4, <1>5, <1>6, <1>7 DEF Follows, d

(* insflck() *)
LEMMA FollowsInsert ==
  ASSUME NEW old \in Seq(Lock), NEW c \in Seq(Lock), NEW woken, Follows(old, c, woken),
         NEW j \in 1 .. Len(c) + 1, NEW e \in Lock, e.wait = {}
  PROVE  /\ InsertAt(c, j, e) \in Seq(Lock) /\ Len(InsertAt(c, j, e)) = Len(c) + 1
         /\ Follows(old, InsertAt(c, j, e), woken)
         /\ \A k \in 1 .. Len(c) + 1 : k < j => InsertAt(c, j, e)[k] = c[k]
<1> DEFINE d == InsertAt(c, j, e)
<1> HIDE DEF Lock
<1>1. /\ Len(c) \in Nat /\ d \in Seq(Lock) /\ Len(d) = Len(c) + 1 /\ d[j] = e
      /\ \A k \in 1 .. Len(c) + 1 : k < j => d[k] = c[k]
      /\ \A k \in 1 .. Len(c) + 1 : k > j => d[k] = c[k - 1]
  <2>1. Len(c) \in Nat
    BY LenProperties
  <2>2. /\ d \in Seq(Lock) /\ Len(d) = Len(c) + 1 /\ d[j] = e
        /\ \A k \in 1 .. Len(c) + 1 : k < j => d[k] = c[k]
        /\ \A k \in 1 .. Len(c) + 1 : k > j => d[k] = c[k - 1]
    BY InsertAtProperties
  <2> QED
    BY <2>1, <2>2
<1> HIDE DEF d
<1>2. \A k \in 1 .. Len(d) : k # j =>
        \E m \in 1 .. Len(c) : d[k] = c[m] /\ m = IF k < j THEN k ELSE k - 1
  BY <1>1
<1>3. \A m \in 1 .. Len(c) : \E k \in 1 .. Len(d) : d[k] = c[m]
  <2> SUFFICES ASSUME NEW m \in 1 .. Len(c) PROVE \E k \in 1 .. Len(d) : d[k] = c[m]
    OBVIOUS
  <2>1. CASE m < j
    BY <2>1, <1>1
  <2>2. CASE m >= j
    <3>1. m + 1 \in 1 .. Len(c) + 1 /\ m + 1 > j /\ m + 1 - 1 = m
      BY <2>2, <1>1
    <3>2. d[m + 1] = c[m + 1 - 1]
      BY <3>1, <1>1
    <3> QED
      BY <3>1, <3>2, <1>1
  <2> QED
    BY <2>1, <2>2
<1>4. \A i \in 1 .. Len(old) : old[i].wait \subseteq woken \/ \E k \in 1 .. Len(d) : d[k] = old[i]
  BY <1>3 DEF Follows
<1>5. ASSUME NEW k \in 1 .. Len(d)
      PROVE  /\ d[k].wait = {} \/ \E i \in 1 .. Len(old) : d[k] = old[i]
             /\ d[k].wait \cap woken = {}
  <2>1. CASE k = j
    BY <2>1, <1>1
  <2>2. CASE k # j
    BY <2>2, <1>2 DEF Follows
  <2> QED
    BY <2>1, <2>2
<1>6. Apart(d)
  <2> SUFFICES ASSUME NEW k \in 1 .. Len(d), NEW l \in 1 .. Len(d), k # l
               PROVE  d[k].wait \cap d[l].wait = {}
    BY DEF Apart
  <2>1. CASE k = j \/ l = j
    BY <2>1, <1>1
  <2>2. CASE k # j /\ l # j
    <3>1. PICK m \in 1 .. Len(c) : d[k] = c[m] /\ m = IF k < j THEN k ELSE k - 1
      BY <2>2, <1>2
    <3>2. PICK n \in 1 .. Len(c) : d[l] = c[n] /\ n = IF l < j THEN l ELSE l - 1
      BY <2>2, <1>2
    <3>3. m # n
      BY <2>2, <3>1, <3>2
    <3> QED
      BY <3>1, <3>2, <3>3 DEF Follows, Apart
  <2> QED
    BY <2>1, <2>2
<1>7. \A x \in woken : \E i \in 1 .. Len(old) : x \in old[i].wait
  BY DEF Follows
<1> QED
  BY <1>1, <1>4, <1>5, <1>6, <1>7 DEF Follows, d
-----------------------------------------------------------------------------
(* The walk of flckadj() and cleanlocks(). *)

Walk(L) == [chain : Seq(Lock), ld : L, at : Nat, gone : Nat, free : Int, woken : SUBSET Proc,
            go : BOOLEAN, done : BOOLEAN, rv : {"ok", "ENOSPC"}]
WalkInv(L, old, a) ==
  a \in Walk(L) /\ a.at <= Len(a.chain) /\ Follows(old, a.chain, a.woken)

(* While the walk goes on, it knows where the next of the old locks is: n   *)
(* of them it has passed. *)
OnTrack(old, a, n) == a.go => Len(a.chain) + a.gone = Len(old) /\ a.gone <= n

(* The fields of a walk. *)
LEMMA WalkField ==
  ASSUME NEW L, NEW a \in Walk(L)
  PROVE  /\ a.chain \in Seq(Lock) /\ Len(a.chain) \in Nat /\ a.ld \in L /\ a.at \in Nat
         /\ a.gone \in Nat /\ a.free \in Int /\ a.woken \subseteq Proc /\ a.go \in BOOLEAN
         /\ a.done \in BOOLEAN /\ a.rv \in {"ok", "ENOSPC"}
         /\ \A k \in 1 .. Len(a.chain) : a.chain[k] \in Lock /\ a.chain[k].wait \subseteq Proc
<1>1. a.chain \in Seq(Lock)
  BY DEF Walk
<1>2. \A k \in 1 .. Len(a.chain) : a.chain[k] \in Lock
  BY <1>1, ElementOfSeq
<1>3. Len(a.chain) \in Nat
  BY <1>1, LenProperties
<1>4. \A f \in Lock : f.wait \subseteq Proc
  BY DEF Lock
<1> HIDE DEF Lock
<1> QED
  BY <1>1, <1>2, <1>3, <1>4 DEF Walk

(* A record that differs from a walk in fields of the right types is one. *)
LEMMA WalkAgain ==
  ASSUME NEW L, NEW a \in Walk(L), NEW b, DOMAIN b = DOMAIN a, b = [x \in DOMAIN b |-> b[x]],
         b.chain \in Seq(Lock), b.ld \in L, b.at \in Nat, b.gone \in Nat, b.free \in Int,
         b.woken \subseteq Proc, b.go \in BOOLEAN, b.done \in BOOLEAN, b.rv \in {"ok", "ENOSPC"}
  PROVE  b \in Walk(L)
<1> HIDE DEF Lock
<1> QED
  BY DEF Walk

(* delflck() *)
Deletes(L, old, a, j) ==
  /\ WalkInv(L, old, delflck(a, j))
  /\ Len(delflck(a, j).chain) = Len(a.chain) - 1
  /\ delflck(a, j).gone = a.gone + 1
  /\ delflck(a, j).go = a.go /\ delflck(a, j).ld = a.ld
LEMMA delflckWalk ==
  ASSUME NEW L, NEW old \in Seq(Lock), NEW a, WalkInv(L, old, a), NEW j \in 1 .. Len(a.chain)
  PROVE  Deletes(L, old, a, j)
<1> DEFINE b == delflck(a, j)
           c == RemoveAt(a.chain, j)
           w == a.woken \cup a.chain[j].wait
           at == IF a.at >= j THEN j - 1 ELSE a.at
<1>1. /\ a \in Walk(L) /\ a.chain \in Seq(Lock) /\ Len(a.chain) \in Nat /\ a.at \in Nat
      /\ a.at <= Len(a.chain) /\ w \subseteq Proc
  BY WalkField DEF WalkInv
<1>2. c \in Seq(Lock) /\ Len(c) = Len(a.chain) - 1 /\ Follows(old, c, w)
  BY <1>1, FollowsRemove DEF WalkInv
<1>3. at \in Nat /\ at <= Len(a.chain) - 1
  BY <1>1
<1> HIDE DEF Lock, c, w, at
<1>4. b = [a EXCEPT !.chain = c, !.woken = w, !.gone = @ + 1, !.free = @ + 1, !.at = at]
  BY DEF delflck, c, w, at
<1> HIDE DEF b
<1>5. /\ b.chain = c /\ b.woken = w /\ b.gone = a.gone + 1 /\ b.free = a.free + 1 /\ b.at = at
      /\ b.go = a.go /\ b.ld = a.ld /\ b.done = a.done /\ b.rv = a.rv
      /\ DOMAIN b = DOMAIN a /\ b = [x \in DOMAIN b |-> b[x]]
  BY <1>1, <1>4 DEF Walk
<1>7. b \in Walk(L)
  <2>1. /\ a.ld \in L /\ a.gone \in Nat /\ a.free \in Int
        /\ a.go \in BOOLEAN /\ a.done \in BOOLEAN /\ a.rv \in {"ok", "ENOSPC"}
    BY <1>1, WalkField
  <2>2. a.gone + 1 \in Nat /\ a.free + 1 \in Int
    BY <2>1
  <2> QED
    BY <1>1, <1>2, <1>3, <1>5, <2>1, <2>2, WalkAgain
<1>6. WalkInv(L, old, b)
  BY <1>2, <1>3, <1>5, <1>7 DEF WalkInv
<1> QED
  BY <1>2, <1>5, <1>6 DEF Deletes, b

(* The walk goes on from another place or with another request, or ends. *)
LEMMA MovedWalk ==
  ASSUME NEW L, NEW old, NEW a, WalkInv(L, old, a),
         NEW b, DOMAIN b = DOMAIN a, b = [x \in DOMAIN b |-> b[x]],
         b.chain = a.chain, b.gone = a.gone, b.woken = a.woken, b.free = a.free,
         b.ld \in L, b.at \in 0 .. Len(a.chain), b.go \in BOOLEAN, b.done \in BOOLEAN,
         b.rv \in {"ok", "ENOSPC"}
  PROVE  WalkInv(L, old, b)
<1> HIDE DEF Lock
<1>1. a \in Walk(L) /\ Len(a.chain) \in Nat
  BY WalkField DEF WalkInv
<1>2. b \in Walk(L)
  BY <1>1, WalkField, WalkAgain
<1> QED
  BY <1>1, <1>2 DEF WalkInv

(* A lock that is cut back, field by field. *)
LEMMA LockCut ==
  ASSUME NEW f \in Lock, NEW end
  PROVE  [[f EXCEPT !.wait = {}] EXCEPT !.e = end]
           = [pid |-> f.pid, type |-> f.type, s |-> f.s, e |-> end, wait |-> {}]
<1> DEFINE x == [f EXCEPT !.wait = {}]
           y == [x EXCEPT !.e = end]
<1>1. /\ DOMAIN x = {"pid", "type", "s", "e", "wait"} /\ x = [k \in DOMAIN x |-> x[k]]
      /\ x.pid = f.pid /\ x.type = f.type /\ x.s = f.s /\ x.wait = {}
  BY DEF Lock
<1> HIDE DEF x
<1>2. /\ DOMAIN y = {"pid", "type", "s", "e", "wait"} /\ y = [k \in DOMAIN y |-> y[k]]
      /\ y.pid = f.pid /\ y.type = f.type /\ y.s = f.s /\ y.e = end /\ y.wait = {}
  BY <1>1
<1> HIDE DEF y
<1>3. y = [pid |-> f.pid, type |-> f.type, s |-> f.s, e |-> end, wait |-> {}]
  BY <1>2
<1> QED
  BY <1>3 DEF x, y

(* A lock that the request cuts back. *)
LEMMA ShortenWalk ==
  ASSUME NEW t, NEW old \in Seq(Lock), NEW a, WalkInv(Wanted(t), old, a), NEW j \in 1 .. Len(a.chain),
         a.ld.s > a.chain[j].s
  PROVE  /\ WalkInv(Wanted(t), old, Shorten(a, j))
         /\ Len(Shorten(a, j).chain) = Len(a.chain)
         /\ Shorten(a, j).gone = a.gone /\ Shorten(a, j).go = a.go
<1> DEFINE b == Shorten(a, j)
           f == a.chain[j]
           e == [pid |-> f.pid, type |-> f.type, s |-> f.s, e |-> a.ld.s, wait |-> {}]
           c == [a.chain EXCEPT ![j] = e]
           w == a.woken \cup f.wait
<1>1. /\ a \in Walk(Wanted(t)) /\ a.chain \in Seq(Lock) /\ Len(a.chain) \in Nat /\ a.at \in Nat
      /\ a.ld \in Wanted(t) /\ f \in Lock /\ a.at <= Len(a.chain) /\ w \subseteq Proc
  BY WalkField DEF WalkInv
<1>2. e \in Lock /\ e.wait = {}
  <2>1. /\ f.pid \in Proc /\ f.type \in {"F_RDLCK", "F_WRLCK"} /\ f.s \in 0 .. MaxEnd - 1
        /\ a.ld.s \in 0 .. MaxEnd - 1 /\ MaxEnd \in Nat
    BY <1>1, SizeAssumption DEF Lock, Wanted
  <2>2. a.ld.s \in 1 .. MaxEnd /\ f.s < a.ld.s
    BY <2>1
  <2> QED
    BY <2>1, <2>2 DEF Lock
<1>3. c \in Seq(Lock) /\ Len(c) = Len(a.chain) /\ Follows(old, c, w)
  <2> HIDE DEF e, Lock
  <2> QED
    BY <1>1, <1>2, FollowsChange DEF WalkInv
<1>4. b = [a EXCEPT !.chain = c, !.woken = w, !.at = j]
  <2>1. [[a.chain EXCEPT ![j].wait = {}] EXCEPT ![j].e = a.ld.s] = c
    <3>1. [[a.chain EXCEPT ![j].wait = {}] EXCEPT ![j].e = a.ld.s]
            = [a.chain EXCEPT ![j] = [[f EXCEPT !.wait = {}] EXCEPT !.e = a.ld.s]]
      BY <1>1, LenProperties
    <3>2. [[f EXCEPT !.wait = {}] EXCEPT !.e = a.ld.s] = e
      BY <1>1, LockCut
    <3> QED
      BY <3>1, <3>2
  <2>2. Wake(a, j).chain = [a.chain EXCEPT ![j].wait = {}]
    BY <1>1 DEF Wake, Walk
  <2> HIDE DEF Lock, e, c
  <2>3. Wake(a, j) = [a EXCEPT !.chain = [a.chain EXCEPT ![j].wait = {}], !.woken = w]
    BY DEF Wake
  <2> QED
    BY <2>1, <2>2, <2>3, <1>1 DEF Shorten, Walk
<1> HIDE DEF Lock, Wanted, b, c, w
<1>5. /\ b.chain = c /\ b.woken = w /\ b.gone = a.gone /\ b.free = a.free /\ b.at = j
      /\ b.go = a.go /\ b.ld = a.ld /\ b.done = a.done /\ b.rv = a.rv
      /\ DOMAIN b = DOMAIN a /\ b = [x \in DOMAIN b |-> b[x]]
  BY <1>1, <1>4 DEF Walk
<1>7. b \in Walk(Wanted(t))
  BY <1>1, <1>3, <1>5, WalkField, WalkAgain
<1>6. WalkInv(Wanted(t), old, b)
  BY <1>1, <1>3, <1>5, <1>7 DEF WalkInv
<1> QED
  BY <1>3, <1>5, <1>6 DEF b

(* insflck() *)
LEMMA insflckChain ==
  ASSUME NEW old \in Seq(Lock), NEW c \in Seq(Lock), NEW woken, Follows(old, c, woken),
         NEW k \in 0 .. Len(c), NEW p \in Proc, NEW ld,
         ld.type \in {"F_RDLCK", "F_WRLCK"}, ld.s \in 0 .. MaxEnd - 1, ld.e \in 1 .. MaxEnd,
         ld.s < ld.e
  PROVE  /\ insflck(c, k, p, ld) \in Seq(Lock) /\ Len(insflck(c, k, p, ld)) = Len(c) + 1
         /\ Follows(old, insflck(c, k, p, ld), woken)
         /\ \A i \in 1 .. k : insflck(c, k, p, ld)[i] = c[i]
<1> DEFINE I == {n \in k .. Len(c) : c[n].s >= ld.s}
           later == SelectInSubSeq(c, k, Len(c), LAMBDA f : f.s >= ld.s)
           at == CASE k = 0 -> 0
                   [] k # 0 /\ later = 0 -> Len(c)
                   [] k # 0 /\ later = k -> k
                   [] OTHER -> later - 1
           e == [pid |-> p, type |-> ld.type, s |-> ld.s, e |-> ld.e, wait |-> {}]
<1>1. e \in Lock /\ e.wait = {}
  BY DEF Lock
<1>2. Len(c) \in Nat
  BY LenProperties
<1>3. later = IF I # {} THEN Min(I) ELSE 0
  BY DEF SelectInSubSeq
<1>4. later = 0 \/ later \in k .. Len(c)
  <2>1. CASE I # {}
    <3>1. I \in SUBSET Nat
      BY <1>2
    <3>2. Min(I) \in I
      <4> HIDE DEF I
      <4> QED
        BY <2>1, <3>1, MinNat
    <3> QED
      BY <2>1, <3>2, <1>3
  <2>2. CASE I = {}
    BY <2>2, <1>3
  <2> QED
    BY <2>1, <2>2
<1> HIDE DEF later
<1>5. at \in Nat /\ at + 1 \in 1 .. Len(c) + 1 /\ at >= k
  BY <1>2, <1>4
<1>6. insflck(c, k, p, ld) = InsertAt(c, at + 1, e)
  BY DEF insflck, later
<1> HIDE DEF e, Lock, at
<1>7. at \in Nat /\ k \in Nat /\ \A i \in 1 .. k : i \in 1 .. Len(c) + 1 /\ i < at + 1
  BY <1>2, <1>5
<1> DEFINE m == at + 1
           d == InsertAt(c, m, e)
<1>8. m \in 1 .. Len(c) + 1
  BY <1>5
<1> HIDE DEF m
<1>9. d \in Seq(Lock) /\ Len(d) = Len(c) + 1 /\ Follows(old, d, woken)
      /\ \A i \in 1 .. Len(c) + 1 : i < m => d[i] = c[i]
  BY <1>1, <1>8, FollowsInsert
<1>10. insflck(c, k, p, ld) = d /\ \A i \in 1 .. k : i \in 1 .. Len(c) + 1 /\ i < m
  BY <1>6, <1>7 DEF m
<1> HIDE DEF d
<1> QED
  BY <1>9, <1>10

(* How a request lies to a lock. *)
LEMMA Regions ==
  ASSUME NEW t, NEW ld \in Wanted(t), NEW f \in Lock
  PROVE  /\ ld.s \in Nat /\ ld.e \in Nat /\ f.s \in Nat /\ f.e \in Nat
         /\ ld.s < ld.e /\ f.s < f.e
         /\ \/ /\ regflck(ld, f) \in {"END", "AFTER"} \X {"AFTER"}
               /\ ld.s > f.s
            \/ /\ regflck(ld, f) \in {"MIDDLE"} \X {"AFTER", "END", "MIDDLE"}
               /\ ld.s > f.s
            \/ /\ regflck(ld, f) \in {"START"} \X {"AFTER", "END", "MIDDLE"}
            \/ /\ regflck(ld, f) \in {"BEFORE"} \X {"AFTER", "END", "MIDDLE", "START", "BEFORE"}
               /\ ld.s < f.s
         /\ regflck(ld, f)[2] = "MIDDLE" => ld.e < f.e
<1>1. /\ ld.s \in Nat /\ ld.e \in Nat /\ f.s \in Nat /\ f.e \in Nat
      /\ ld.s < ld.e /\ f.s < f.e
  BY SizeAssumption DEF Wanted, Lock
<1>2. CASE ld.s >= f.e /\ ld.s > f.s
  BY <1>1, <1>2 DEF regflck
<1>3. CASE ~(ld.s >= f.e /\ ld.s > f.s)
  <2> DEFINE start == CASE ld.s > f.s -> "MIDDLE" [] ld.s = f.s -> "START" [] OTHER -> "BEFORE"
             end == CASE ld.e > f.e -> "AFTER" [] ld.e = f.e -> "END"
                      [] f.s < ld.e /\ ld.e < f.e -> "MIDDLE" [] ld.e = f.s -> "START" [] OTHER -> "BEFORE"
  <2>1. regflck(ld, f) = <<start, end>>
    BY <1>3 DEF regflck
  <2>2. \/ start = "MIDDLE" /\ ld.s > f.s
        \/ start = "START" /\ ld.s = f.s
        \/ start = "BEFORE" /\ ld.s < f.s
    BY <1>1
  <2>3. end \in {"AFTER", "END", "MIDDLE", "START", "BEFORE"}
    OBVIOUS
  <2>4. /\ end \in {"START", "BEFORE"} => ld.e <= f.s
        /\ end = "MIDDLE" => ld.e < f.e
    BY <1>1
  <2> HIDE DEF start, end
  <2> QED
    BY <1>1, <2>1, <2>2, <2>3, <2>4
<1> QED
  BY <1>1, <1>2, <1>3

(* The piece of a lock behind the request becomes a lock. *)
LEMMA SplitWalk ==
  ASSUME NEW t, NEW old \in Seq(Lock), NEW a, WalkInv(Wanted(t), old, a), NEW j \in 1 .. Len(a.chain),
         NEW p \in Proc, a.ld.e < a.chain[j].e
  PROVE  /\ WalkInv(Wanted(t), old, Split(a, p, j))
         /\ Len(Split(a, p, j).chain) = Len(a.chain) + 1
         /\ Split(a, p, j).chain[j] = a.chain[j] /\ Split(a, p, j).ld = a.ld
<1> DEFINE b == Split(a, p, j)
           f == a.chain[j]
           ld == [f EXCEPT !.s = a.ld.e]
           c == insflck(a.chain, j, p, ld)
<1>1. /\ a \in Walk(Wanted(t)) /\ a.chain \in Seq(Lock) /\ Len(a.chain) \in Nat /\ a.at \in Nat
      /\ a.ld \in Wanted(t) /\ f \in Lock /\ a.at <= Len(a.chain)
  BY WalkField DEF WalkInv
<1>2. ld.type = f.type /\ ld.s = a.ld.e /\ ld.e = f.e
  BY <1>1 DEF Lock
<1>3. f.type \in {"F_RDLCK", "F_WRLCK"} /\ f.e \in 1 .. MaxEnd /\ a.ld.e \in 1 .. MaxEnd
  BY <1>1 DEF Lock, Wanted
<1>4. a.ld.e \in 0 .. MaxEnd - 1 /\ a.ld.e < f.e
  BY <1>3, SizeAssumption
<1>5. j \in 0 .. Len(a.chain) /\ j \in 1 .. j
  BY <1>1
<1> HIDE DEF Lock, Wanted, f, ld
<1>6. /\ ld.type \in {"F_RDLCK", "F_WRLCK"} /\ ld.s \in 0 .. MaxEnd - 1 /\ ld.e \in 1 .. MaxEnd
      /\ ld.s < ld.e
  BY <1>2, <1>3, <1>4
<1>7. Follows(old, a.chain, a.woken)
  BY DEF WalkInv
<1>8. /\ c \in Seq(Lock) /\ Len(c) = Len(a.chain) + 1
      /\ Follows(old, c, a.woken) /\ \A i \in 1 .. j : c[i] = a.chain[i]
  BY <1>1, <1>5, <1>6, <1>7, insflckChain
<1>9. c[j] = f
  BY <1>5, <1>8 DEF f
<1> HIDE DEF c
<1>10. b = [a EXCEPT !.free = @ - 1, !.chain = c]
  BY DEF Split, c, ld, f
<1> HIDE DEF b
<1>11. /\ b.chain = c /\ b.woken = a.woken /\ b.gone = a.gone /\ b.free = a.free - 1 /\ b.at = a.at
       /\ b.go = a.go /\ b.ld = a.ld /\ b.done = a.done /\ b.rv = a.rv
       /\ DOMAIN b = DOMAIN a /\ b = [x \in DOMAIN b |-> b[x]]
  BY <1>1, <1>10 DEF Walk
<1>12. a.free - 1 \in Int
  BY <1>1, WalkField
<1>13. b \in Walk(Wanted(t))
  BY <1>1, <1>8, <1>11, <1>12, WalkField, WalkAgain
<1>14. WalkInv(Wanted(t), old, b)
  BY <1>1, <1>8, <1>11, <1>13 DEF WalkInv
<1> QED
  BY <1>8, <1>9, <1>11, <1>14 DEF b, f

(* The walk ends. *)
LEMMA EndedWalk ==
  ASSUME NEW L, NEW old, NEW a, WalkInv(L, old, a), NEW n
  PROVE  /\ WalkInv(L, old, Stop(a)) /\ OnTrack(old, Stop(a), n)
         /\ \A rv \in {"ok", "ENOSPC"} :
              WalkInv(L, old, Return(a, rv)) /\ OnTrack(old, Return(a, rv), n)
<1>1. a \in Walk(L) /\ a.at \in 0 .. Len(a.chain)
  BY WalkField DEF WalkInv
<1>2. a.ld \in L /\ a.done \in BOOLEAN /\ a.rv \in {"ok", "ENOSPC"}
  BY <1>1, WalkField
<1> HIDE DEF Lock
<1>3. WalkInv(L, old, Stop(a)) /\ Stop(a).go = FALSE
  <2> DEFINE b == Stop(a)
  <2>1. /\ b.chain = a.chain /\ b.gone = a.gone /\ b.woken = a.woken /\ b.free = a.free
        /\ b.ld = a.ld /\ b.at = a.at /\ b.go = FALSE /\ b.done = a.done /\ b.rv = a.rv
        /\ DOMAIN b = DOMAIN a /\ b = [x \in DOMAIN b |-> b[x]]
    BY <1>1 DEF Stop, Walk
  <2> HIDE DEF b
  <2> QED
    BY <1>1, <1>2, <2>1, MovedWalk DEF b
<1>4. ASSUME NEW rv \in {"ok", "ENOSPC"}
      PROVE  WalkInv(L, old, Return(a, rv)) /\ Return(a, rv).go = FALSE
  <2> DEFINE b == Return(a, rv)
  <2>1. /\ b.chain = a.chain /\ b.gone = a.gone /\ b.woken = a.woken /\ b.free = a.free
        /\ b.ld = a.ld /\ b.at = a.at /\ b.go = FALSE /\ b.done = TRUE /\ b.rv = rv
        /\ DOMAIN b = DOMAIN a /\ b = [x \in DOMAIN b |-> b[x]]
    BY <1>1 DEF Return, Walk
  <2> HIDE DEF b
  <2> QED
    BY <1>1, <1>2, <2>1, MovedWalk DEF b
<1> QED
  BY <1>3, <1>4 DEF OnTrack

(* The walk goes on, with another place or request. *)
LEMMA PlacedWalk ==
  ASSUME NEW L, NEW old, NEW a, WalkInv(L, old, a), NEW n, OnTrack(old, a, n),
         NEW at \in 0 .. Len(a.chain)
  PROVE  WalkInv(L, old, [a EXCEPT !.at = at]) /\ OnTrack(old, [a EXCEPT !.at = at], n)
<1>1. a \in Walk(L)
  BY DEF WalkInv
<1>2. a.ld \in L /\ a.go \in BOOLEAN /\ a.done \in BOOLEAN /\ a.rv \in {"ok", "ENOSPC"}
  BY <1>1, WalkField
<1> DEFINE b == [a EXCEPT !.at = at]
<1> HIDE DEF Lock
<1>3. /\ b.chain = a.chain /\ b.gone = a.gone /\ b.woken = a.woken /\ b.free = a.free
      /\ b.ld = a.ld /\ b.at = at /\ b.go = a.go /\ b.done = a.done /\ b.rv = a.rv
      /\ DOMAIN b = DOMAIN a /\ b = [x \in DOMAIN b |-> b[x]]
  BY <1>1 DEF Walk
<1> HIDE DEF b
<1>4. WalkInv(L, old, b)
  BY <1>1, <1>2, <1>3, MovedWalk
<1> QED
  BY <1>3, <1>4 DEF OnTrack, b

(* The request grows to the end, or from the start, of a lock. *)
LEMMA MergedWalk ==
  ASSUME NEW t, NEW old, NEW a, WalkInv(Wanted(t), old, a), NEW n, OnTrack(old, a, n), NEW f \in Lock
  PROVE  /\ a.ld.s < f.e => /\ WalkInv(Wanted(t), old, [a EXCEPT !.ld.e = f.e])
                           /\ OnTrack(old, [a EXCEPT !.ld.e = f.e], n)
         /\ f.s < a.ld.e => /\ WalkInv(Wanted(t), old, [a EXCEPT !.ld.s = f.s])
                           /\ OnTrack(old, [a EXCEPT !.ld.s = f.s], n)
                           /\ [a EXCEPT !.ld.s = f.s].chain = a.chain
<1>1. a \in Walk(Wanted(t))
  BY DEF WalkInv
<1>2. /\ a.ld \in Wanted(t) /\ a.go \in BOOLEAN /\ a.done \in BOOLEAN /\ a.rv \in {"ok", "ENOSPC"}
      /\ a.at \in 0 .. Len(a.chain)
  BY <1>1, WalkField DEF WalkInv
<1>3. f.s \in 0 .. MaxEnd - 1 /\ f.e \in 1 .. MaxEnd
  BY DEF Lock
<1>4. ASSUME a.ld.s < f.e
      PROVE  [a.ld EXCEPT !.e = f.e] \in Wanted(t)
  BY <1>2, <1>3, <1>4 DEF Wanted
<1>5. ASSUME f.s < a.ld.e
      PROVE  [a.ld EXCEPT !.s = f.s] \in Wanted(t)
  BY <1>2, <1>3, <1>5 DEF Wanted
<1> HIDE DEF Lock, Wanted
<1>6. ASSUME NEW ld \in Wanted(t), NEW b, b = [a EXCEPT !.ld = ld]
      PROVE  WalkInv(Wanted(t), old, b) /\ OnTrack(old, b, n) /\ b.chain = a.chain
  <2>1. /\ b.chain = a.chain /\ b.gone = a.gone /\ b.woken = a.woken /\ b.free = a.free
        /\ b.ld = ld /\ b.at = a.at /\ b.go = a.go /\ b.done = a.done /\ b.rv = a.rv
        /\ DOMAIN b = DOMAIN a /\ b = [x \in DOMAIN b |-> b[x]]
    BY <1>1, <1>6 DEF Walk
  <2>2. WalkInv(Wanted(t), old, b)
    BY <1>1, <1>2, <2>1, MovedWalk
  <2> QED
    BY <2>1, <2>2 DEF OnTrack
<1>7. /\ [a EXCEPT !.ld.e = f.e] = [a EXCEPT !.ld = [a.ld EXCEPT !.e = f.e]]
      /\ [a EXCEPT !.ld.s = f.s] = [a EXCEPT !.ld = [a.ld EXCEPT !.s = f.s]]
  BY <1>1 DEF Walk
<1> QED
  BY <1>4, <1>5, <1>6, <1>7

(* One lock of the process: the walk stays sound. *)
LEMMA AdjustWalk ==
  ASSUME NEW t, NEW old \in Seq(Lock), NEW a, WalkInv(Wanted(t), old, a), a.go,
         NEW n \in Nat, OnTrack(old, a, n),
         NEW p \in Proc, NEW j \in 1 .. Len(a.chain)
  PROVE  WalkInv(Wanted(t), old, Adjust(a, p, j)) /\ OnTrack(old, Adjust(a, p, j), n + 1)
<1> DEFINE Good(b) == WalkInv(Wanted(t), old, b) /\ OnTrack(old, b, n + 1)
           f == a.chain[j]
           r == regflck(a.ld, f)
           same == a.ld.type = f.type
           D == delflck(a, j)
           B == Split(a, p, j)
<1>1. /\ a \in Walk(Wanted(t)) /\ a.chain \in Seq(Lock) /\ Len(a.chain) \in Nat /\ a.ld \in Wanted(t)
      /\ f \in Lock /\ a.gone \in Nat /\ a.at \in 0 .. Len(a.chain)
  BY WalkField DEF WalkInv
<1> HIDE DEF Lock, Wanted
<1>2. Good(a)
  BY <1>1 DEF OnTrack
<1>3. /\ Good(D) /\ WalkInv(Wanted(t), old, D) /\ Len(D.chain) = Len(a.chain) - 1 /\ D.ld = a.ld
      /\ j - 1 \in 0 .. Len(D.chain)
  <2>1. /\ WalkInv(Wanted(t), old, D) /\ Len(D.chain) = Len(a.chain) - 1 /\ D.ld = a.ld
        /\ D.gone = a.gone + 1
    <3>1. Deletes(Wanted(t), old, a, j)
      BY delflckWalk
    <3> QED
      BY <3>1 DEF Deletes
  <2> QED
    BY <1>1, <2>1 DEF OnTrack
<1>4. \A b : WalkInv(Wanted(t), old, b) => Good(Stop(b))
  BY EndedWalk
<1>5. Good(Return(a, "ok")) /\ Good(Return(a, "ENOSPC"))
  BY EndedWalk
<1>6. Good([D EXCEPT !.at = j - 1]) /\ Good([D EXCEPT !.at = D.at])
  <2>1. D.at \in 0 .. Len(D.chain)
    BY <1>3, WalkField DEF WalkInv
  <2> HIDE DEF D
  <2> QED
    BY <1>3, <2>1, PlacedWalk
<1>7. Good([a EXCEPT !.at = j])
  BY <1>1, <1>2, PlacedWalk
<1>8. ASSUME a.ld.s < f.e
      PROVE  Good([D EXCEPT !.ld.e = f.e])
  <2> HIDE DEF D, f
  <2> QED
    BY <1>1, <1>3, <1>8, MergedWalk
<1>9. ASSUME f.s < a.ld.e
      PROVE  Good([D EXCEPT !.ld.s = f.s, !.at = j - 1])
  <2> DEFINE M == [D EXCEPT !.ld.s = f.s]
  <2> HIDE DEF D, f
  <2>1. Good(M) /\ M.chain = D.chain
    <3>1. /\ WalkInv(Wanted(t), old, D) /\ OnTrack(old, D, n + 1)
          /\ f \in Lock /\ f.s < D.ld.e
      BY <1>1, <1>3, <1>9
    <3> HIDE DEF Good, r, same, B
    <3>2. WalkInv(Wanted(t), old, M) /\ OnTrack(old, M, n + 1) /\ M.chain = D.chain
      BY <3>1, MergedWalk
    <3> QED
      BY <3>2 DEF Good
  <2>2. [D EXCEPT !.ld.s = f.s, !.at = j - 1] = [M EXCEPT !.at = j - 1]
    OBVIOUS
  <2> HIDE DEF M
  <2> QED
    BY <1>3, <2>1, <2>2, PlacedWalk
<1>10. ASSUME a.ld.s > f.s
       PROVE  Good(Shorten(a, j))
  BY <1>1, <1>2, <1>10, ShortenWalk DEF OnTrack
<1>11. ASSUME a.ld.e < f.e
       PROVE  /\ WalkInv(Wanted(t), old, B) /\ j \in 1 .. Len(B.chain)
              /\ B.chain[j] = f /\ B.ld = a.ld
  BY <1>1, <1>11, SplitWalk
<1>12. ASSUME a.ld.e < f.e
       PROVE  Good(Stop(delflck(B, j))) /\ Good(Stop([delflck(B, j) EXCEPT !.at = j - 1]))
  <2> DEFINE E == delflck(B, j)
  <2> HIDE DEF B
  <2>1. WalkInv(Wanted(t), old, E) /\ Len(E.chain) = Len(B.chain) - 1
    <3>1. WalkInv(Wanted(t), old, B) /\ j \in 1 .. Len(B.chain)
      BY <1>11, <1>12
    <3>2. Deletes(Wanted(t), old, B, j)
      BY <3>1, delflckWalk
    <3> QED
      BY <3>2 DEF Deletes
  <2> HIDE DEF E
  <2>2. j - 1 \in 0 .. Len(E.chain) /\ E \in Walk(Wanted(t))
    BY <1>11, <1>12, <2>1, WalkField DEF WalkInv
  <2>3. OnTrack(old, Stop(E), n)
    BY <2>1, EndedWalk
  <2>4. WalkInv(Wanted(t), old, [E EXCEPT !.at = j - 1])
    <3> DEFINE b == [E EXCEPT !.at = j - 1]
    <3>1. /\ b.chain = E.chain /\ b.gone = E.gone /\ b.woken = E.woken /\ b.free = E.free
          /\ b.ld = E.ld /\ b.at = j - 1 /\ b.go = E.go /\ b.done = E.done /\ b.rv = E.rv
          /\ DOMAIN b = DOMAIN E /\ b = [x \in DOMAIN b |-> b[x]]
      BY <2>2 DEF Walk
    <3> HIDE DEF b
    <3>2. /\ b.ld \in Wanted(t) /\ b.go \in BOOLEAN /\ b.done \in BOOLEAN
          /\ b.rv \in {"ok", "ENOSPC"} /\ b.at \in 0 .. Len(E.chain)
      BY <2>2, <3>1, WalkField
    <3>3. WalkInv(Wanted(t), old, b)
      BY <2>1, <3>1, <3>2, MovedWalk
    <3> QED
      BY <3>3 DEF b
  <2> QED
    BY <1>4, <2>1, <2>4 DEF E
<1>13. ASSUME a.ld.e < f.e, a.ld.s > f.s
       PROVE  Good(Stop(Shorten(B, j)))
  <2> HIDE DEF B, f
  <2>1. WalkInv(Wanted(t), old, Shorten(B, j))
    BY <1>11, <1>13, ShortenWalk
  <2> QED
    BY <1>4, <2>1
<1>14. /\ a.ld.s \in Nat /\ a.ld.e \in Nat /\ f.s \in Nat /\ f.e \in Nat
       /\ a.ld.s < a.ld.e /\ f.s < f.e
       /\ \/ r \in {"END", "AFTER"} \X {"AFTER"} /\ a.ld.s > f.s
          \/ r \in {"MIDDLE"} \X {"AFTER", "END", "MIDDLE"} /\ a.ld.s > f.s
          \/ r \in {"START"} \X {"AFTER", "END", "MIDDLE"}
          \/ r \in {"BEFORE"} \X {"AFTER", "END", "MIDDLE", "START", "BEFORE"} /\ a.ld.s < f.s
       /\ r[2] = "MIDDLE" => a.ld.e < f.e
  BY <1>1, Regions
<1>15. CASE Splits(a, j) /\ a.free = 0
  BY <1>5, <1>15 DEF Adjust
<1>16. CASE ~(Splits(a, j) /\ a.free = 0)
  <2> DEFINE delete == [D EXCEPT !.at = IF r[1] = "START" THEN j - 1 ELSE D.at]
             mergeUp == [D EXCEPT !.ld.e = f.e]
             mergeDown == [D EXCEPT !.ld.s = f.s, !.at = j - 1]
             R == Adjust(a, p, j)
  <2>1. R = CASE r = <<"BEFORE", "BEFORE">> -> Stop(a)
       [] r = <<"BEFORE", "START">> -> Stop(IF same THEN mergeUp ELSE a)
       [] r = <<"BEFORE", "MIDDLE">> ->
            IF same THEN Stop(mergeUp)
            ELSE Stop(delflck(B, j))
       [] r = <<"BEFORE", "END">> -> IF same THEN Stop(delete) ELSE delete
       [] r \in {<<"BEFORE", "AFTER">>, <<"START", "AFTER">>} -> delete
       [] r \in {<<"MIDDLE", "AFTER">>, <<"END", "AFTER">>} ->
            IF same THEN mergeDown ELSE Shorten(a, j)
       [] r = <<"AFTER", "AFTER">> -> [a EXCEPT !.at = j]
       [] OTHER ->
            IF same THEN Return(a, "ok")
            ELSE CASE r = <<"START", "END">> -> delete
                   [] r = <<"MIDDLE", "END">> -> Shorten(a, j)
                   [] r = <<"START", "MIDDLE">> ->
                        Stop([delflck(B, j) EXCEPT !.at = j - 1])
                   [] OTHER -> Stop(Shorten(B, j))
    BY <1>16 DEF Adjust
  <2>2. Good(delete)
    <3>1. CASE r[1] = "START"
      BY <1>6, <3>1
    <3>2. CASE r[1] # "START"
      BY <1>6, <3>2
    <3> QED
      BY <3>1, <3>2
  <2> HIDE DEF delete, mergeUp, mergeDown, R, r, same, f, B, D, Good
  <2>3. /\ r \in {<<"MIDDLE", "AFTER">>, <<"END", "AFTER">>, <<"MIDDLE", "END">>, <<"MIDDLE", "MIDDLE">>} =>
             a.ld.s > f.s /\ f.s < a.ld.e
        /\ r \in {<<"BEFORE", "START">>, <<"BEFORE", "MIDDLE">>} => a.ld.s < f.e
        /\ r \in {<<"BEFORE", "MIDDLE">>, <<"START", "MIDDLE">>, <<"MIDDLE", "MIDDLE">>} => a.ld.e < f.e
    BY <1>14
  <2>4. /\ Good(a) /\ Good(Stop(a)) /\ Good(delete) /\ Good(Stop(delete))
        /\ a.ld.s < f.e => Good(mergeUp) /\ Good(Stop(mergeUp))
        /\ f.s < a.ld.e => Good(mergeDown)
        /\ a.ld.s > f.s => Good(Shorten(a, j))
    <3>1. /\ Good(a) /\ Good(delete)
          /\ a.ld.s < f.e => Good(mergeUp)
          /\ f.s < a.ld.e => Good(mergeDown)
          /\ a.ld.s > f.s => Good(Shorten(a, j))
      BY <1>2, <2>2, <1>8, <1>9, <1>10, Zenon DEF mergeUp, mergeDown
    <3>2. /\ Good(a) => Good(Stop(a)) 
          /\ Good(delete) => Good(Stop(delete))
          /\ Good(mergeUp) => Good(Stop(mergeUp))
      BY <1>4 DEF Good
    <3> QED
      BY <3>1, <3>2
  <2>5. ASSUME r = <<"BEFORE", "BEFORE">>
        PROVE  Good(R)
    <3>1. R = Stop(a)
      BY <2>1, <2>5
    <3> QED
      BY <3>1, <2>5, <2>3, <2>4, <1>5, <1>7, <1>12, <1>13
  <2>6. ASSUME r = <<"BEFORE", "START">>
        PROVE  Good(R)
    <3>1. R = Stop(IF same THEN mergeUp ELSE a)
      BY <2>1, <2>6
    <3> QED
      BY <3>1, <2>6, <2>3, <2>4, <1>5, <1>7, <1>12, <1>13
  <2>7. ASSUME r = <<"BEFORE", "MIDDLE">>
        PROVE  Good(R)
    <3>1. R = IF same THEN Stop(mergeUp) ELSE Stop(delflck(B, j))
      BY <2>1, <2>7
    <3> QED
      BY <3>1, <2>7, <2>3, <2>4, <1>5, <1>7, <1>12, <1>13
  <2>8. ASSUME r = <<"BEFORE", "END">>
        PROVE  Good(R)
    <3>1. R = IF same THEN Stop(delete) ELSE delete
      BY <2>1, <2>8
    <3> QED
      BY <3>1, <2>8, <2>3, <2>4, <1>5, <1>7, <1>12, <1>13
  <2>9. ASSUME r \in {<<"BEFORE", "AFTER">>, <<"START", "AFTER">>}
        PROVE  Good(R)
    <3>1. R = delete
      BY <2>1, <2>9
    <3> QED
      BY <3>1, <2>9, <2>3, <2>4, <1>5, <1>7, <1>12, <1>13
  <2>10. ASSUME r \in {<<"MIDDLE", "AFTER">>, <<"END", "AFTER">>}
        PROVE  Good(R)
    <3>1. R = IF same THEN mergeDown ELSE Shorten(a, j)
      BY <2>1, <2>10
    <3> QED
      BY <3>1, <2>10, <2>3, <2>4, <1>5, <1>7, <1>12, <1>13
  <2>11. ASSUME r = <<"AFTER", "AFTER">>
        PROVE  Good(R)
    <3>1. R = [a EXCEPT !.at = j]
      BY <2>1, <2>11
    <3> QED
      BY <3>1, <2>11, <2>3, <2>4, <1>5, <1>7, <1>12, <1>13
  <2>12. ASSUME r = <<"START", "END">>
        PROVE  Good(R)
    <3>1. R = IF same THEN Return(a, "ok") ELSE delete
      BY <2>1, <2>12
    <3> QED
      BY <3>1, <2>12, <2>3, <2>4, <1>5, <1>7, <1>12, <1>13
  <2>13. ASSUME r = <<"MIDDLE", "END">>
        PROVE  Good(R)
    <3>1. R = IF same THEN Return(a, "ok") ELSE Shorten(a, j)
      BY <2>1, <2>13
    <3> QED
      BY <3>1, <2>13, <2>3, <2>4, <1>5, <1>7, <1>12, <1>13
  <2>14. ASSUME r = <<"START", "MIDDLE">>
        PROVE  Good(R)
    <3>1. R = IF same THEN Return(a, "ok") ELSE Stop([delflck(B, j) EXCEPT !.at = j - 1])
      BY <2>1, <2>14
    <3> QED
      BY <3>1, <2>14, <2>3, <2>4, <1>5, <1>7, <1>12, <1>13
  <2>15. ASSUME r = <<"MIDDLE", "MIDDLE">>
        PROVE  Good(R)
    <3>1. R = IF same THEN Return(a, "ok") ELSE Stop(Shorten(B, j))
      BY <2>1, <2>15
    <3> QED
      BY <3>1, <2>15, <2>3, <2>4, <1>5, <1>7, <1>12, <1>13
  <2>16. \/ r = <<"BEFORE", "BEFORE">> \/ r = <<"BEFORE", "START">> \/ r = <<"BEFORE", "MIDDLE">>
         \/ r = <<"BEFORE", "END">> \/ r \in {<<"BEFORE", "AFTER">>, <<"START", "AFTER">>}
         \/ r \in {<<"MIDDLE", "AFTER">>, <<"END", "AFTER">>} \/ r = <<"AFTER", "AFTER">>
         \/ r = <<"START", "END">> \/ r = <<"MIDDLE", "END">> \/ r = <<"START", "MIDDLE">>
         \/ r = <<"MIDDLE", "MIDDLE">>
    BY <1>14
  <2>17. Good(R)
    BY <2>5, <2>6, <2>7, <2>8, <2>9, <2>10, <2>11, <2>12, <2>13, <2>14, <2>15, <2>16
  <2> QED
    BY <2>17 DEF R, Good
<1> QED
  BY <1>15, <1>16

(* The next lock: it is there, and the walk stays sound. *)
LEMMA VisitWalk ==
  ASSUME NEW t, NEW old \in Seq(Lock), NEW first \in Nat \ {0}, NEW n \in 1 .. Len(old) - first + 1,
         NEW a, WalkInv(Wanted(t), old, a), OnTrack(old, a, n - 1), NEW p \in Proc
  PROVE  WalkInv(Wanted(t), old, Visit(a, p, first + n - 1)) /\ OnTrack(old, Visit(a, p, first + n - 1), n)
<1> DEFINE i == first + n - 1
           j == i - a.gone
           b == Visit(a, p, i)
           Good == WalkInv(Wanted(t), old, b) /\ OnTrack(old, b, n)
<1>1. /\ Len(old) \in Nat /\ n \in Nat /\ a \in Walk(Wanted(t)) /\ a.gone \in Nat /\ a.go \in BOOLEAN
      /\ Len(a.chain) \in Nat
  BY LenProperties, WalkField DEF WalkInv
<1> HIDE DEF Good
<1>2. ASSUME ~a.go
      PROVE  Good
  <2>1. b = a
    BY <1>2 DEF Visit
  <2> QED
    BY <1>2, <2>1 DEF OnTrack, Good
<1>3. ASSUME a.go
      PROVE  Good
  <2>1. /\ Len(a.chain) + a.gone = Len(old) /\ a.gone <= n - 1
        /\ n - 1 \in Nat /\ n - 1 + 1 = n
    BY <1>1, <1>3 DEF OnTrack
  <2>2. j \in 1 .. Len(a.chain)
    BY <1>1, <2>1
  <2>5. b = CASE ~a.go -> a
              [] a.go /\ a.chain[j].pid = p -> Adjust(a, p, j)
              [] OTHER -> IF a.chain[j].s > a.ld.e THEN Stop(a) ELSE a
    <3> HIDE DEF i
    <3> QED
      BY <1>1 DEF Visit
  <2> HIDE DEF b, j
  <2>3. CASE a.chain[j].pid = p
    <3>1. b = Adjust(a, p, j)
      BY <1>1, <1>3, <2>3, <2>5
    <3>2. WalkInv(Wanted(t), old, Adjust(a, p, j)) /\ OnTrack(old, Adjust(a, p, j), n - 1 + 1)
      BY <1>3, <2>1, <2>2, AdjustWalk
    <3> QED
      BY <2>1, <3>1, <3>2 DEF Good
  <2>4. CASE a.chain[j].pid # p
    <3>1. b = IF a.chain[j].s > a.ld.e THEN Stop(a) ELSE a
      BY <1>1, <1>3, <2>4, <2>5
    <3>2. WalkInv(Wanted(t), old, Stop(a)) /\ OnTrack(old, Stop(a), n)
      BY EndedWalk
    <3>3. OnTrack(old, a, n)
      BY <1>1, <2>1 DEF OnTrack
    <3> QED
      BY <3>1, <3>2, <3>3 DEF Good
  <2> QED
    BY <2>3, <2>4
<1> QED
  BY <1>1, <1>2, <1>3 DEF Good

(* The walk begins sound. *)
LEMMA StartWalk ==
  ASSUME NEW L, NEW chain \in Seq(Lock), Apart(chain), NEW free \in Int, NEW at \in 0 .. Len(chain),
         NEW ld \in L
  PROVE  WalkInv(L, chain, Start(chain, free, at, ld)) /\ OnTrack(chain, Start(chain, free, at, ld), 0)
<1> HIDE DEF Lock
<1>1. Len(chain) \in Nat /\ at \in Nat /\ at <= Len(chain)
  BY LenProperties
<1> DEFINE a == Start(chain, free, at, ld)
<1>2. /\ a.chain = chain /\ a.gone = 0 /\ a.woken = {} /\ a.free = free
      /\ a.ld = ld /\ a.at = at /\ a.go = TRUE /\ a.done = FALSE /\ a.rv = "ok"
  BY DEF Start
<1>3. a \in Walk(L)
  BY <1>1 DEF Start, Walk
<1> HIDE DEF a
<1>4. Follows(chain, chain, {})
  BY DEF Follows
<1> QED
  BY <1>1, <1>2, <1>3, <1>4 DEF WalkInv, OnTrack, a

(* What a call leaves: the chain, who is woken, the answer. *)
Leaves(old, a) ==
  /\ a.chain \in Seq(Lock) /\ a.woken \subseteq Proc /\ a.rv \in {"ok", "ENOSPC"}
  /\ Follows(old, a.chain, a.woken)

LEMMA WalkLeaves ==
  ASSUME NEW L, NEW old, NEW a, WalkInv(L, old, a)
  PROVE  Leaves(old, a)
<1> HIDE DEF Lock
<1>1. a \in Walk(L)
  BY DEF WalkInv
<1> QED
  BY <1>1, WalkField DEF WalkInv, Leaves

(* flckadj() *)
LEMMA flckadjLeaves ==
  ASSUME NEW chain \in Seq(Lock), Apart(chain), NEW free \in Int, NEW at \in 0 .. Len(chain),
         NEW p \in Proc, NEW ld,
         ld \in Wanted("F_RDLCK") \cup Wanted("F_WRLCK") \cup Wanted("F_UNLCK")
  PROVE  Leaves(chain, flckadj(chain, free, at, p, ld))
<1> DEFINE t == ld.type
           W == Walk(Wanted(t))
           first == IF at = 0 THEN 1 ELSE at
           last == Len(chain) - first + 1
           start == Start(chain, free, at, ld)
           IsWalk(f) == f = [n \in 0 .. last |->
             IF n = 0 THEN start ELSE Visit(f[n - 1], p, first + n - 1)]
           S == [n \in 0 .. last |-> {a \in W : WalkInv(Wanted(t), chain, a) /\ OnTrack(chain, a, n)}]
           F == [x \in W \X (1 .. last) |-> Visit(x[1], p, first + x[2] - 1)]
<1>1. /\ Len(chain) \in Nat /\ first \in Nat \ {0} /\ last \in Nat
      /\ t \in {"F_RDLCK", "F_WRLCK", "F_UNLCK"} /\ ld \in Wanted(t)
  BY LenProperties DEF Wanted
<1> HIDE DEF Lock, Wanted
<1>2. \A a : WalkInv(Wanted(t), chain, a) => a \in W
  BY DEF WalkInv
<1>3. \A n \in 0 .. last : \A a : a \in S[n] <=> WalkInv(Wanted(t), chain, a) /\ OnTrack(chain, a, n)
  BY <1>2
<1>4. start \in S[0]
  <2>1. WalkInv(Wanted(t), chain, start) /\ OnTrack(chain, start, 0)
    BY <1>1, StartWalk
  <2>2. 0 \in 0 .. last
    BY <1>1
  <2> HIDE DEF S, W, start, t, last
  <2> QED
    BY <1>3, <2>1, <2>2
<1>5. ASSUME NEW n \in 1 .. last, NEW a \in S[n - 1]
      PROVE  F[<<a, n>>] = Visit(a, p, first + n - 1) /\ Visit(a, p, first + n - 1) \in S[n]
  <2>1. n - 1 \in 0 .. last /\ n \in 0 .. last
    BY <1>1
  <2>2. WalkInv(Wanted(t), chain, a) /\ OnTrack(chain, a, n - 1)
    BY <1>3, <2>1
  <2>3. a \in W
    BY <1>2, <2>2
  <2>4. F[<<a, n>>] = Visit(a, p, first + n - 1)
    BY <2>3
  <2> HIDE DEF S, W, F, first, t
  <2>5. /\ WalkInv(Wanted(t), chain, Visit(a, p, first + n - 1))
        /\ OnTrack(chain, Visit(a, p, first + n - 1), n)
    BY <1>1, <2>2, VisitWalk
  <2> QED
    BY <1>3, <2>1, <2>4, <2>5
<1> HIDE DEF S, F, W, start, first, last, t
<1>6. PICK g : Computes(g, S, last, start, F)
  <2>1. \A n \in 1 .. last : \A a \in S[n - 1] : F[<<a, n>>] \in S[n]
    BY <1>5
  <2> QED
    BY <1>1, <1>4, <2>1, Recursion
<1>7. IsWalk(g)
  <2>1. ASSUME NEW n \in 0 .. last
        PROVE  g[n] = IF n = 0 THEN start ELSE Visit(g[n - 1], p, first + n - 1)
    <3>1. CASE n = 0
      BY <3>1, <1>6 DEF Computes
    <3>2. CASE n # 0
      <4>1. n \in 1 .. last /\ n - 1 \in 0 .. last
        BY <3>2, <1>1
      <4>2. g[n - 1] \in S[n - 1] /\ g[n] = F[<<g[n - 1], n>>]
        BY <4>1, <1>6 DEF Computes
      <4> QED
        BY <3>2, <4>1, <4>2, <1>5
    <3> QED
      BY <3>1, <3>2
  <2> QED
    BY <2>1, <1>6 DEF Computes
<1> DEFINE walk == CHOOSE f : IsWalk(f)
           a == walk[last]
<1>8. IsWalk(walk)
  BY <1>7
<1>9. flckadj(chain, free, at, p, ld) =
        CASE a.done \/ ld.type = "F_UNLCK" -> a
          [] ~a.done /\ ld.type # "F_UNLCK" /\ a.free = 0 -> [a EXCEPT !.rv = "ENOSPC"]
          [] OTHER -> [a EXCEPT !.chain = insflck(@, a.at, p, a.ld), !.free = @ - 1]
  BY DEF flckadj, first, last, start
<1> HIDE DEF walk
<1>10. a \in S[last]
  <2>1. walk[0] \in S[0]
    BY <1>1, <1>4, <1>8
  <2>2. ASSUME NEW n \in 1 .. last, walk[n - 1] \in S[n - 1] PROVE walk[n] \in S[n]
    <3>1. n \in 0 .. last /\ n # 0
      BY <1>1
    <3>2. walk[n] = Visit(walk[n - 1], p, first + n - 1)
      BY <3>1, <1>8
    <3> QED
      BY <2>2, <3>2, <1>5
  <2>3. last \in 0 .. last
    BY <1>1
  <2> QED
    BY <1>1, <2>1, <2>2, <2>3, StaysIn
<1> HIDE DEF a
<1>11. WalkInv(Wanted(t), chain, a)
  <2>1. last \in 0 .. last
    BY <1>1
  <2> QED
    BY <1>3, <1>10, <2>1
<1>12. /\ a \in Walk(Wanted(t)) /\ Leaves(chain, a) /\ a.ld \in Wanted(t) /\ a.done \in BOOLEAN
       /\ a.at \in 0 .. Len(a.chain) /\ a.chain \in Seq(Lock) /\ Follows(chain, a.chain, a.woken)
  <2>1. a \in Walk(Wanted(t))
    BY <1>11 DEF WalkInv
  <2> QED
    BY <1>11, <2>1, WalkField, WalkLeaves DEF WalkInv
<1>13. CASE a.done \/ ld.type = "F_UNLCK"
  BY <1>9, <1>12, <1>13
<1>14. CASE ~a.done /\ ld.type # "F_UNLCK" /\ a.free = 0
  <2>1. flckadj(chain, free, at, p, ld) = [a EXCEPT !.rv = "ENOSPC"]
    BY <1>9, <1>14
  <2> QED
    BY <1>12, <2>1 DEF Walk, Leaves
<1>15. CASE ~a.done /\ ld.type # "F_UNLCK" /\ a.free # 0
  <2> DEFINE c == insflck(a.chain, a.at, p, a.ld)
             b == [a EXCEPT !.chain = c, !.free = @ - 1]
  <2>1. /\ a.ld.type \in {"F_RDLCK", "F_WRLCK"} /\ a.ld.s \in 0 .. MaxEnd - 1
        /\ a.ld.e \in 1 .. MaxEnd /\ a.ld.s < a.ld.e
    BY <1>1, <1>12, <1>15 DEF Wanted, t
  <2>2. c \in Seq(Lock) /\ Follows(chain, c, a.woken)
    BY <1>12, <2>1, insflckChain
  <2> HIDE DEF c
  <2>3. flckadj(chain, free, at, p, ld) = b
    BY <1>9, <1>15 DEF c
  <2>4. b.chain = c /\ b.woken = a.woken /\ b.rv = a.rv
    BY <1>12 DEF Walk
  <2> HIDE DEF b
  <2> QED
    BY <1>12, <2>2, <2>3, <2>4 DEF Leaves
<1> QED
  BY <1>12, <1>13, <1>14, <1>15

(* cleanlocks() *)
LEMMA CleanLeaves ==
  ASSUME NEW chain \in Seq(Lock), Apart(chain), NEW p \in Proc
  PROVE  Leaves(chain, Clean(chain, p))
<1> DEFINE L == {None}
           W == Walk(L)
           last == Len(chain)
           start == Start(chain, 0, 0, None)
           OneLock(a, n) == IF a.chain[n - a.gone].pid = p THEN delflck(a, n - a.gone) ELSE a
           IsWalk(f) == f = [n \in 0 .. last |-> IF n = 0 THEN start ELSE OneLock(f[n - 1], n)]
           Sound(a, n) == WalkInv(L, chain, a) /\ OnTrack(chain, a, n) /\ a.go
           S == [n \in 0 .. last |-> {a \in W : Sound(a, n)}]
           F == [x \in W \X (1 .. last) |-> OneLock(x[1], x[2])]
<1>1. last \in Nat
  BY LenProperties
<1> HIDE DEF Lock, L
<1>2. \A a : WalkInv(L, chain, a) => a \in W
  BY DEF WalkInv
<1>3. \A n \in 0 .. last : \A a : a \in S[n] <=> Sound(a, n)
  BY <1>2
<1>4. start \in S[0]
  <2>1. WalkInv(L, chain, start) /\ OnTrack(chain, start, 0)
    <3>1. None \in L /\ 0 \in 0 .. Len(chain) /\ 0 \in Int
      BY <1>1 DEF L
    <3> QED
      BY <3>1, StartWalk
  <2>2. start.go = TRUE
    BY DEF Start
  <2>3. 0 \in 0 .. last
    BY <1>1
  <2> HIDE DEF S, W, start, last
  <2> QED
    BY <1>3, <2>1, <2>2, <2>3
<1>5. ASSUME NEW n \in 1 .. last, NEW a \in S[n - 1]
      PROVE  F[<<a, n>>] = OneLock(a, n) /\ OneLock(a, n) \in S[n]
  <2>1. n - 1 \in 0 .. last /\ n \in 0 .. last
    BY <1>1
  <2>2. Sound(a, n - 1)
    BY <1>3, <2>1
  <2>3. a \in W
    BY <1>2, <2>2
  <2>4. F[<<a, n>>] = OneLock(a, n)
    BY <2>3
  <2> HIDE DEF S, F
  <2>5. /\ a.gone \in Nat /\ Len(a.chain) \in Nat /\ Len(a.chain) + a.gone = last
        /\ a.gone <= n - 1
    BY <1>1, <2>2, <2>3, WalkField DEF OnTrack
  <2> DEFINE j == n - a.gone
  <2>6. j \in 1 .. Len(a.chain)
    BY <2>5
  <2> HIDE DEF j
  <2>7. Deletes(L, chain, a, j)
    BY <2>2, <2>6, delflckWalk
  <2>8. Sound(delflck(a, j), n)
    BY <2>2, <2>5, <2>7 DEF Deletes, OnTrack
  <2>9. Sound(a, n)
    BY <2>2, <2>5 DEF OnTrack
  <2>10. OneLock(a, n) = IF a.chain[j].pid = p THEN delflck(a, j) ELSE a
    BY DEF j
  <2> HIDE DEF Sound, OneLock
  <2> QED
    BY <1>3, <2>1, <2>4, <2>8, <2>9, <2>10
<1> HIDE DEF S, F, W, start, last, OneLock
<1>6. PICK g : Computes(g, S, last, start, F)
  <2>1. \A n \in 1 .. last : \A a \in S[n - 1] : F[<<a, n>>] \in S[n]
    BY <1>5
  <2> QED
    BY <1>1, <1>4, <2>1, Recursion
<1>7. IsWalk(g)
  <2>1. ASSUME NEW n \in 0 .. last
        PROVE  g[n] = IF n = 0 THEN start ELSE OneLock(g[n - 1], n)
    <3>1. CASE n = 0
      BY <3>1, <1>6 DEF Computes
    <3>2. CASE n # 0
      <4>1. n \in 1 .. last /\ n - 1 \in 0 .. last
        BY <3>2, <1>1
      <4>2. g[n - 1] \in S[n - 1] /\ g[n] = F[<<g[n - 1], n>>]
        BY <4>1, <1>6 DEF Computes
      <4> QED
        BY <3>2, <4>1, <4>2, <1>5
    <3> QED
      BY <3>1, <3>2
  <2> QED
    BY <2>1, <1>6 DEF Computes
<1> DEFINE walk == CHOOSE f : IsWalk(f)
<1>8. IsWalk(walk)
  BY <1>7
<1>9. Clean(chain, p) = walk[last]
  BY DEF Clean, last, start, OneLock
<1> HIDE DEF walk
<1>10. walk[last] \in S[last]
  <2>1. walk[0] \in S[0]
    BY <1>1, <1>4, <1>8
  <2>2. ASSUME NEW n \in 1 .. last, walk[n - 1] \in S[n - 1] PROVE walk[n] \in S[n]
    <3>1. n \in 0 .. last /\ n # 0
      BY <1>1
    <3>2. walk[n] = OneLock(walk[n - 1], n)
      BY <3>1, <1>8
    <3> QED
      BY <2>2, <3>2, <1>5
  <2>3. last \in 0 .. last
    BY <1>1
  <2> QED
    BY <1>1, <2>1, <2>2, <2>3, StaysIn
<1>11. WalkInv(L, chain, walk[last])
  <2>1. last \in 0 .. last
    BY <1>1
  <2> QED
    BY <1>3, <1>10, <2>1
<1> QED
  BY <1>9, <1>11, WalkLeaves
-----------------------------------------------------------------------------
(* Who is met along blkpid. *)

Closed(blk, S) == \A y \in S : blk[y] # None => blk[y] \in S

(* It is the least such set ... *)
LEMMA ChasedLeast ==
  ASSUME NEW blk, NEW q, NEW S \in SUBSET Proc, q \in S, Closed(blk, S)
  PROVE  Chased(blk, q) \subseteq S
BY DEF Chased, Closed

(* ... and one itself. *)
LEMMA ChasedClosed ==
  ASSUME NEW blk \in [Proc -> Proc \cup {None}], NEW q \in Proc
  PROVE  /\ q \in Chased(blk, q) /\ Chased(blk, q) \subseteq Proc
         /\ Closed(blk, Chased(blk, q))
<1>1. q \in Chased(blk, q) /\ Chased(blk, q) \subseteq Proc
  BY DEF Chased
<1>2. ASSUME NEW y \in Chased(blk, q), blk[y] # None
      PROVE  blk[y] \in Chased(blk, q)
  <2>1. y \in Proc /\ blk[y] \in Proc
    BY <1>1, <1>2
  <2>2. ASSUME NEW S \in SUBSET Proc, q \in S, \A z \in S : blk[z] # None => blk[z] \in S
        PROVE  blk[y] \in S
    <3>1. y \in S
      BY <2>2 DEF Chased
    <3> QED
      BY <1>2, <2>2, <3>1
  <2> QED
    BY <2>1, <2>2 DEF Chased
<1> QED
  BY <1>1, <1>2 DEF Closed

(* A circle on sleeplcks would be met from the lock one sleeps on. *)
NoCircle(blk) == \A p \in Proc : blk[p] # None => p \notin Chased(blk, blk[p])

(* A process that takes its record off closes no circle ... *)
LEMMA TakenOff ==
  ASSUME NEW blk \in [Proc -> Proc \cup {None}], NoCircle(blk), NEW p \in Proc
  PROVE  NoCircle([blk EXCEPT ![p] = None])
<1> DEFINE new == [blk EXCEPT ![p] = None]
<1> SUFFICES ASSUME NEW r \in Proc, new[r] # None PROVE r \notin Chased(new, new[r])
  BY DEF NoCircle
<1>1. r # p /\ new[r] = blk[r] /\ blk[r] \in Proc
  OBVIOUS
<1>2. /\ blk[r] \in Chased(blk, blk[r]) /\ Chased(blk, blk[r]) \subseteq Proc
      /\ Closed(blk, Chased(blk, blk[r]))
  BY <1>1, ChasedClosed
<1>3. Closed(new, Chased(blk, blk[r]))
  BY <1>2 DEF Closed
<1> HIDE DEF new
<1>4. Chased(new, blk[r]) \subseteq Chased(blk, blk[r])
  BY <1>2, <1>3, ChasedLeast
<1> QED
  BY <1>1, <1>4 DEF NoCircle

(* ... and none that deadflck() lets sleep. *)
LEMMA PutOn ==
  ASSUME NEW blk \in [Proc -> Proc \cup {None}], NoCircle(blk), NEW p \in Proc, NEW q \in Proc,
         p \notin Chased(blk, q)
  PROVE  NoCircle([blk EXCEPT ![p] = q])
<1> DEFINE new == [blk EXCEPT ![p] = q]
<1> SUFFICES ASSUME NEW r \in Proc, new[r] # None PROVE r \notin Chased(new, new[r])
  BY DEF NoCircle
<1>1. \A y \in Proc : new[y] = IF y = p THEN q ELSE blk[y]
  OBVIOUS
<1> HIDE DEF new
<1>2. q \in Chased(blk, q) /\ Chased(blk, q) \subseteq Proc /\ Closed(blk, Chased(blk, q))
  BY ChasedClosed
<1>3. CASE r = p
  <2>1. Closed(new, Chased(blk, q))
    BY <1>1, <1>2 DEF Closed
  <2>2. Chased(new, q) \subseteq Chased(blk, q)
    BY <1>2, <2>1, ChasedLeast
  <2> QED
    BY <1>1, <1>3, <2>2
<1>4. CASE r # p
  <2>1. new[r] = blk[r] /\ blk[r] \in Proc
    BY <1>1, <1>4
  <2> DEFINE T == Chased(blk, blk[r])
  <2>2. blk[r] \in T /\ T \subseteq Proc /\ Closed(blk, T) /\ r \notin T
    BY <2>1, ChasedClosed DEF NoCircle
  <2> HIDE DEF T
  <2>3. CASE p \notin T
    <3>1. Closed(new, T)
      BY <1>1, <2>2, <2>3 DEF Closed
    <3>2. Chased(new, blk[r]) \subseteq T
      BY <2>2, <3>1, ChasedLeast
    <3> QED
      BY <2>1, <2>2, <3>2
  <2>4. CASE p \in T
    <3>1. r \notin Chased(blk, q)
      <4> SUFFICES ASSUME r \in Chased(blk, q) PROVE FALSE
        OBVIOUS
      <4>1. blk[r] \in Chased(blk, q)
        BY <1>2, <2>1 DEF Closed
      <4>2. T \subseteq Chased(blk, q)
        BY <1>2, <4>1, ChasedLeast DEF T
      <4> QED
        BY <2>4, <4>2
    <3> DEFINE U == T \cup Chased(blk, q)
    <3>2. U \in SUBSET Proc /\ blk[r] \in U /\ r \notin U
      BY <1>2, <2>2, <3>1
    <3>3. Closed(new, U)
      BY <1>1, <1>2, <2>2 DEF Closed
    <3> HIDE DEF U
    <3>4. Chased(new, blk[r]) \subseteq U
      BY <3>2, <3>3, ChasedLeast
    <3> QED
      BY <2>1, <3>2, <3>4
  <2> QED
    BY <2>3, <2>4
<1> QED
  BY <1>3, <1>4
-----------------------------------------------------------------------------
(* What a call looks at. *)

(* The lock that blocks a request excludes it. *)
LEMMA BlockedBy ==
  ASSUME NEW chain \in Seq(Lock), NEW p, NEW ld, blocked(chain, p, ld) # 0
  PROVE  /\ blocked(chain, p, ld) \in 1 .. Len(chain)
         /\ Conflict(chain[blocked(chain, p, ld)], p, ld)
<1> DEFINE I == {i \in 1 .. Len(chain) : Conflict(chain[i], p, ld)}
           found == SelectInSeq(chain, LAMBDA f : Conflict(f, p, ld))
<1>1. Len(chain) \in Nat
  BY LenProperties
<1>2. blocked(chain, p, ld) = found
  BY DEF blocked
<1>3. found = IF I # {} THEN Min(I) ELSE 0
  BY DEF SelectInSeq
<1>4. I \in SUBSET Nat /\ I # {}
  BY <1>1, <1>2, <1>3
<1>5. found \in I
  <2>1. Min(I) \in I
    <3> HIDE DEF I
    <3> QED
      BY <1>4, MinNat
  <2> HIDE DEF I, found
  <2> QED
    BY <1>3, <1>4, <2>1
<1> QED
  BY <1>2, <1>5

(* insrt is a position in the chain. *)
LEMMA InsrtPlace ==
  ASSUME NEW chain \in Seq(Lock), NEW p, NEW ld
  PROVE  insrt(chain, p, ld) \in 0 .. Len(chain)
<1> DEFINE I == {i \in 1 .. Len(chain) : chain[i].s >= ld.s}
           before == SelectInSeq(chain, LAMBDA f : f.s >= ld.s)
           n == IF before = 0 THEN Len(chain) ELSE before - 1
           J == {i \in 1 .. n : chain[i].pid = p /\ ld.s <= chain[i].e /\ ld.e >= chain[i].s}
           own == SelectInSubSeq(chain, 1, n, LAMBDA f : f.pid = p /\ ld.s <= f.e /\ ld.e >= f.s)
<1>1. Len(chain) \in Nat
  BY LenProperties
<1>2. /\ before = IF I # {} THEN Min(I) ELSE 0
      /\ own = IF J # {} THEN Min(J) ELSE 0
      /\ insrt(chain, p, ld) = IF own = 0 THEN n ELSE own
  BY DEF SelectInSeq, SelectInSubSeq, insrt
<1>3. I \in SUBSET Nat /\ I \subseteq 1 .. Len(chain)
  BY <1>1
<1> HIDE DEF I, before
<1>4. before \in 0 .. Len(chain)
  <2>1. I # {} => Min(I) \in I
    BY <1>3, MinNat
  <2> QED
    BY <1>1, <1>2, <1>3, <2>1
<1>5. n \in 0 .. Len(chain)
  BY <1>1, <1>4
<1> HIDE DEF n
<1>6. own \in 0 .. n
  <2>1. J \in SUBSET Nat /\ J \subseteq 1 .. n /\ n \in Nat
    BY <1>1, <1>5
  <2>2. own = IF J # {} THEN Min(J) ELSE 0
    BY <1>2
  <2> HIDE DEF J, own
  <2>3. J # {} => Min(J) \in J
    BY <2>1, MinNat
  <2>4. J # {} => Min(J) \in 1 .. n
    BY <2>1, <2>3
  <2> QED
    BY <2>1, <2>2, <2>4
<1> QED
  BY <1>1, <1>2, <1>5, <1>6

(* What a process asks for is a range inside the file. *)
LEMMA RequestWanted ==
  ASSUME NEW p \in Proc, NEW types, NEW ld \in Request(p, types)
  PROVE  ld.type \in types /\ ld \in Wanted(ld.type)
<1>1. PICK t \in types, r \in Asks[p] : ld = [type |-> t, s |-> r[1], e |-> r[2]]
  BY DEF Request
<1>2. /\ r \in (0 .. MaxEnd) \X (0 .. MaxEnd) /\ r[1] < r[2] /\ MaxEnd \in Nat
  BY AsksAssumption, SizeAssumption
<1>3. r[1] \in 0 .. MaxEnd - 1 /\ r[2] \in 1 .. MaxEnd
  BY <1>2
<1> QED
  BY <1>1, <1>2, <1>3 DEF Wanted

(* The free records can be counted. *)
LEMMA FreeRecsInt == FreeRecs \in Int
<1>1. IsFiniteSet(Flino \X (1 .. Recs))
  <2>1. IsFiniteSet(1 .. Recs)
    BY SizeAssumption, FS_Interval
  <2> QED
    BY <2>1, FS_Product
<1>2. IsFiniteSet({r \in Flino \X (1 .. Recs) : r[2] \in DOMAIN fl_flck[r[1]]})
  BY <1>1, FS_Subset
<1>3. IsFiniteSet({p \in Proc : blkpid[p] # None})
  BY FS_Subset
<1>4. /\ Cardinality({r \in Flino \X (1 .. Recs) : r[2] \in DOMAIN fl_flck[r[1]]}) \in Nat
      /\ Cardinality({p \in Proc : blkpid[p] # None}) \in Nat
  BY <1>2, <1>3, FS_CardinalityType
<1> QED
  BY <1>4, SizeAssumption DEF FreeRecs
-----------------------------------------------------------------------------
(* The sleepers. *)

(* Where a process has a record on sleeplcks, if it has one. *)
Sleepy == {"asleep", "woken", "interrupted"}

ChainTypes ==
  /\ fl_flck \in [Flino -> Seq(Lock)]
  /\ blkpid \in [Proc -> Proc \cup {None}]
  /\ pc \in [Proc -> {"idle", "set", "clear", "leave"} \cup Sleepy]
  /\ flip \in [Proc -> Flino \cup {None}]
  /\ DOMAIN req = Proc
  /\ \A p \in Proc : req[p] \in Request(p, {"F_RDLCK", "F_WRLCK"}) \cup {None}
  /\ retval \in [Proc -> {"none", "ok", "ENOSPC"} \cup Refusal]
  /\ \A p \in Proc : pc[p] # "idle" => flip[p] \in Flino
  /\ \A p \in Proc : pc[p] \in Sleepy => req[p] \in Request(p, {"F_RDLCK", "F_WRLCK"})
  /\ \A p \in Proc : blkpid[p] # None => pc[p] \in Sleepy

(* Who waits on a lock is asleep on it, for a request that it excludes, and *)
(* sleeplcks has the owner of the lock.                                     *)
SleepsOn(h, f, x) ==
  pc[x] = "asleep" /\ flip[x] = h /\ blkpid[x] = f.pid /\ Conflict(f, x, req[x])
Waiters ==
  \A h \in Flino :
    /\ \A k \in 1 .. Len(fl_flck[h]) : \A x \in fl_flck[h][k].wait : SleepsOn(h, fl_flck[h][k], x)
    /\ Apart(fl_flck[h])

(* Who is asleep waits on a lock. *)
Sleepers ==
  \A p \in Proc : pc[p] = "asleep" =>
    \E k \in 1 .. Len(fl_flck[flip[p]]) : p \in fl_flck[flip[p]][k].wait

SleepInv == ChainTypes /\ Waiters /\ Sleepers /\ NoCircle(blkpid)

(* The chain of a header. *)
LEMMA LockWaits ==
  ASSUME SleepInv, NEW h \in Flino
  PROVE  /\ fl_flck[h] \in Seq(Lock) /\ Len(fl_flck[h]) \in Nat /\ Apart(fl_flck[h])
         /\ \A k \in 1 .. Len(fl_flck[h]) : fl_flck[h][k] \in Lock /\ fl_flck[h][k].wait \subseteq Proc
<1>1. \A f \in Lock : f.wait \subseteq Proc
  BY DEF Lock
<1> HIDE DEF Lock
<1>2. fl_flck[h] \in Seq(Lock) /\ Apart(fl_flck[h])
  BY DEF SleepInv, ChainTypes, Waiters
<1> QED
  BY <1>1, <1>2, LenProperties, ElementOfSeq

(* A step that touches neither locks nor sleepers. *)
LEMMA RestKeeps ==
  ASSUME SleepInv, NEW p \in Proc, pc[p] \notin Sleepy,
         NEW at \in {"idle", "set", "clear", "leave"}, pc' = [pc EXCEPT ![p] = at],
         NEW h \in Flino \cup {None}, flip' = [flip EXCEPT ![p] = h],
         at # "idle" => h \in Flino,
         retval' \in [Proc -> {"none", "ok", "ENOSPC"} \cup Refusal],
         UNCHANGED <<fl_flck, blkpid, req>>
  PROVE  SleepInv'
<1> HIDE DEF Lock
<1>1. \A x \in Proc : /\ pc'[x] = IF x = p THEN at ELSE pc[x]
                      /\ flip'[x] = IF x = p THEN h ELSE flip[x]
  BY DEF SleepInv, ChainTypes
<1>2. ChainTypes'
  <2>1. /\ pc' \in [Proc -> {"idle", "set", "clear", "leave"} \cup Sleepy]
        /\ flip' \in [Proc -> Flino \cup {None}]
    BY DEF SleepInv, ChainTypes
  <2>2. blkpid[p] = None
    BY DEF SleepInv, ChainTypes
  <2>3. \A x \in Proc : /\ pc'[x] # "idle" => flip'[x] \in Flino
                        /\ pc'[x] \in Sleepy => req[x] \in Request(x, {"F_RDLCK", "F_WRLCK"})
                        /\ blkpid[x] # None => pc'[x] \in Sleepy
    BY <1>1, <2>2 DEF SleepInv, ChainTypes, Sleepy
  <2> QED
    BY <2>1, <2>3 DEF SleepInv, ChainTypes, Request
<1>3. Waiters'
  <2>1. ASSUME NEW g \in Flino, NEW k \in 1 .. Len(fl_flck[g]), NEW x \in fl_flck[g][k].wait
        PROVE  SleepsOn(g, fl_flck[g][k], x)'
    <3>1. SleepsOn(g, fl_flck[g][k], x) /\ x \in Proc
      BY LockWaits DEF SleepInv, Waiters
    <3>2. x # p
      BY <3>1 DEF SleepsOn, Sleepy
    <3> QED
      BY <1>1, <3>1, <3>2 DEF SleepsOn, Conflict
  <2> QED
    BY <2>1 DEF SleepInv, Waiters, Apart
<1>4. Sleepers'
  <2> SUFFICES ASSUME NEW x \in Proc, pc'[x] = "asleep"
               PROVE  \E k \in 1 .. Len(fl_flck'[flip'[x]]) : x \in fl_flck'[flip'[x]][k].wait
    BY DEF Sleepers
  <2>1. x # p /\ pc[x] = "asleep" /\ flip'[x] = flip[x]
    BY <1>1
  <2> QED
    BY <2>1 DEF SleepInv, Sleepers
<1>5. NoCircle(blkpid')
  BY DEF SleepInv
<1> QED
  BY <1>2, <1>3, <1>4, <1>5 DEF SleepInv

(* A call leaves, and wakes the sleepers on the locks that it changed. *)
LEMMA LeaveKeeps ==
  ASSUME SleepInv, NEW p \in Proc, NEW h, h = flip[p], pc[p] \notin {"idle", "asleep"},
         NEW rv \in {"ok", "ENOSPC"} \cup Refusal, NEW chain \in Seq(Lock), NEW blk,
         blk \in {blkpid, [blkpid EXCEPT ![p] = None]}, blk[p] = None,
         NEW woken \in SUBSET Proc, Follows(fl_flck[flip[p]], chain, woken),
         Leave(p, rv, chain, blk, woken), UNCHANGED flip
  PROVE  SleepInv'
<1> HIDE DEF Lock
<1>1. /\ fl_flck' = [fl_flck EXCEPT ![h] = chain] /\ blkpid' = blk
      /\ pc' = [q \in Proc |-> IF q = p THEN "leave" ELSE IF q \in woken THEN "woken" ELSE pc[q]]
      /\ req' = [req EXCEPT ![p] = None] /\ retval' = [retval EXCEPT ![p] = rv] /\ flip' = flip
      /\ h \in Flino
  BY DEF Leave, SleepInv, ChainTypes
<1>2. /\ \A q \in Proc : /\ pc'[q] = IF q = p THEN "leave" ELSE IF q \in woken THEN "woken" ELSE pc[q]
                         /\ req'[q] = IF q = p THEN None ELSE req[q]
                         /\ blkpid'[q] = IF q = p THEN None ELSE blkpid[q]
      /\ \A g \in Flino : fl_flck'[g] = IF g = h THEN chain ELSE fl_flck[g]
  BY <1>1 DEF SleepInv, ChainTypes
<1>3. \A x \in woken : x \in Proc /\ pc[x] = "asleep" /\ flip[x] = h
  BY <1>1 DEF SleepInv, Waiters, SleepsOn, Follows
<1>4. ChainTypes'
  <2>1. /\ fl_flck' \in [Flino -> Seq(Lock)] /\ blkpid' \in [Proc -> Proc \cup {None}]
        /\ DOMAIN req' = Proc /\ retval' \in [Proc -> {"none", "ok", "ENOSPC"} \cup Refusal]
    BY <1>1 DEF SleepInv, ChainTypes
  <2>2. pc' \in [Proc -> {"idle", "set", "clear", "leave"} \cup Sleepy]
    BY <1>1 DEF SleepInv, ChainTypes, Sleepy
  <2>3. ASSUME NEW x \in Proc
        PROVE  /\ pc'[x] # "idle" => flip'[x] \in Flino
               /\ pc'[x] \in Sleepy => req'[x] \in Request(x, {"F_RDLCK", "F_WRLCK"})
               /\ blkpid'[x] # None => pc'[x] \in Sleepy
               /\ req'[x] \in Request(x, {"F_RDLCK", "F_WRLCK"}) \cup {None}
    <3>1. CASE x = p
      BY <1>1, <1>2, <3>1 DEF Sleepy
    <3>2. CASE x # p /\ x \in woken
      BY <1>1, <1>2, <1>3, <3>2 DEF SleepInv, ChainTypes, Sleepy
    <3>3. CASE x # p /\ x \notin woken
      BY <1>1, <1>2, <3>3 DEF SleepInv, ChainTypes, Sleepy
    <3> QED
      BY <3>1, <3>2, <3>3
  <2>4. flip' \in [Proc -> Flino \cup {None}]
    BY <1>1 DEF SleepInv, ChainTypes
  <2> QED
    BY <2>1, <2>2, <2>3, <2>4 DEF ChainTypes
<1>5. ASSUME NEW g \in Flino, NEW f, NEW x \in Proc, SleepsOn(g, f, x), x \notin woken
      PROVE  SleepsOn(g, f, x)'
  <2>1. x # p
    BY <1>5 DEF SleepsOn
  <2> QED
    BY <1>1, <1>2, <1>5, <2>1 DEF SleepsOn, Conflict
<1>6. Waiters'
  <2>1. ASSUME NEW g \in Flino, NEW k \in 1 .. Len(fl_flck'[g]), NEW x \in fl_flck'[g][k].wait
        PROVE  SleepsOn(g, fl_flck[g][k], x)'
    <3>1. CASE g = h
      <4>1. fl_flck'[g] = chain
        BY <1>2, <3>1
      <4>2. PICK j \in 1 .. Len(fl_flck[h]) : chain[k] = fl_flck[h][j]
        BY <4>1 DEF Follows
      <4>3. SleepsOn(h, fl_flck[h][j], x) /\ x \in Proc
        BY <1>1, <4>1, <4>2, LockWaits DEF SleepInv, Waiters
      <4>4. x \notin woken
        BY <4>1 DEF Follows
      <4>5. SleepsOn(h, chain[k], x)
        BY <4>2, <4>3
      <4>6. SleepsOn(h, chain[k], x)'
        BY <1>1, <1>5, <4>3, <4>4, <4>5
      <4> QED
        BY <3>1, <4>1, <4>6 DEF SleepsOn
    <3>2. CASE g # h
      <4>1. fl_flck'[g] = fl_flck[g]
        BY <1>2, <3>2
      <4>2. SleepsOn(g, fl_flck[g][k], x) /\ x \in Proc
        BY <4>1, LockWaits DEF SleepInv, Waiters
      <4>3. x \notin woken
        BY <1>3, <3>2, <4>2 DEF SleepsOn
      <4> QED
        BY <1>5, <4>1, <4>2, <4>3 DEF SleepsOn
    <3> QED
      BY <3>1, <3>2
  <2>2. ASSUME NEW g \in Flino PROVE Apart(fl_flck'[g])
    BY <1>2, LockWaits DEF Follows
  <2> QED
    BY <2>1, <2>2 DEF Waiters
<1>7. Sleepers'
  <2> SUFFICES ASSUME NEW x \in Proc, pc'[x] = "asleep"
               PROVE  \E k \in 1 .. Len(fl_flck'[flip'[x]]) : x \in fl_flck'[flip'[x]][k].wait
    BY DEF Sleepers
  <2>1. x # p /\ x \notin woken /\ pc[x] = "asleep" /\ flip'[x] = flip[x] /\ flip[x] \in Flino
    BY <1>1, <1>2 DEF SleepInv, ChainTypes
  <2>2. PICK j \in 1 .. Len(fl_flck[flip[x]]) : x \in fl_flck[flip[x]][j].wait
    BY <2>1 DEF SleepInv, Sleepers
  <2>3. CASE flip[x] = h
    <3>1. PICK k \in 1 .. Len(chain) : chain[k] = fl_flck[h][j]
      BY <2>1, <2>2, <2>3 DEF Follows
    <3> QED
      BY <1>2, <2>1, <2>2, <2>3, <3>1
  <2>4. CASE flip[x] # h
    BY <1>2, <2>1, <2>2, <2>4
  <2> QED
    BY <2>3, <2>4
<1>8. NoCircle(blkpid')
  <2>1. blkpid \in [Proc -> Proc \cup {None}] /\ NoCircle(blkpid)
    BY DEF SleepInv, ChainTypes
  <2>2. NoCircle([blkpid EXCEPT ![p] = None])
    BY <2>1, TakenOff
  <2> QED
    BY <1>1, <2>1, <2>2
<1> QED
  BY <1>4, <1>6, <1>7, <1>8 DEF SleepInv

(* A process goes to sleep on the lock at b. *)
LEMMA SleepKeeps ==
  ASSUME SleepInv, NEW p \in Proc, NEW h, h = flip[p], pc[p] \notin {"idle", "asleep"},
         NEW ld \in Request(p, {"F_RDLCK", "F_WRLCK"}),
         NEW b \in 1 .. Len(fl_flck[h]), Conflict(fl_flck[h][b], p, ld),
         NEW blk, blk \in {blkpid, [blkpid EXCEPT ![p] = None]},
         p \notin Chased(blk, fl_flck[h][b].pid),
         fl_flck' = [fl_flck EXCEPT ![h][b].wait = @ \cup {p}],
         blkpid' = [blk EXCEPT ![p] = fl_flck[h][b].pid],
         pc' = [pc EXCEPT ![p] = "asleep"],
         req' = [req EXCEPT ![p] = ld], UNCHANGED <<flip, retval>>
  PROVE  SleepInv'
<1> DEFINE f == fl_flck[h][b]
           e == [f EXCEPT !.wait = @ \cup {p}]
           c == [fl_flck[h] EXCEPT ![b] = e]
<1>1. /\ h \in Flino /\ fl_flck[h] \in Seq(Lock) /\ Len(fl_flck[h]) \in Nat /\ Apart(fl_flck[h])
      /\ f \in Lock
  BY LockWaits DEF SleepInv, ChainTypes
<1>2. e \in Lock /\ e.wait = f.wait \cup {p} /\ e.pid = f.pid /\ f.pid \in Proc
      /\ \A x, r : Conflict(e, x, r) <=> Conflict(f, x, r)
  BY <1>1 DEF Lock, Conflict
<1> HIDE DEF Lock, e
<1>3. c \in Seq(Lock) /\ Len(c) = Len(fl_flck[h])
      /\ \A k \in 1 .. Len(fl_flck[h]) : c[k] = IF k = b THEN e ELSE fl_flck[h][k]
  BY <1>1, <1>2, ExceptSeq, LenProperties
<1>4. \A g \in Flino : fl_flck'[g] = IF g = h THEN c ELSE fl_flck[g]
  BY <1>1 DEF SleepInv, ChainTypes, e
<1>5. fl_flck' \in [Flino -> Seq(Lock)]
  <2>1. fl_flck' = [fl_flck EXCEPT ![h] = c]
    BY DEF e
  <2> DEFINE Q == Seq(Lock)
  <2>2. fl_flck \in [Flino -> Q] /\ c \in Q
    BY <1>3 DEF SleepInv, ChainTypes
  <2> HIDE DEF c, Q
  <2>3. fl_flck' \in [Flino -> Q]
    BY <2>1, <2>2
  <2> QED
    BY <2>3 DEF Q
<1> HIDE DEF c, f
<1>6. blk \in [Proc -> Proc \cup {None}] /\ \A x \in Proc \ {p} : blk[x] = blkpid[x]
  BY DEF SleepInv, ChainTypes
<1>7. \A x \in Proc : /\ pc'[x] = IF x = p THEN "asleep" ELSE pc[x]
                      /\ req'[x] = IF x = p THEN ld ELSE req[x]
                      /\ blkpid'[x] = IF x = p THEN f.pid ELSE blkpid[x]
                      /\ flip'[x] = flip[x]
  BY <1>6 DEF SleepInv, ChainTypes, f
<1>8. ChainTypes'
  <2>1. /\ blkpid' \in [Proc -> Proc \cup {None}] /\ flip' \in [Proc -> Flino \cup {None}]
        /\ DOMAIN req' = Proc /\ retval' \in [Proc -> {"none", "ok", "ENOSPC"} \cup Refusal]
        /\ pc' \in [Proc -> {"idle", "set", "clear", "leave"} \cup Sleepy]
    BY <1>2, <1>6 DEF SleepInv, ChainTypes, Sleepy, f
  <2>2. ASSUME NEW x \in Proc
        PROVE  /\ pc'[x] # "idle" => flip'[x] \in Flino
               /\ pc'[x] \in Sleepy => req'[x] \in Request(x, {"F_RDLCK", "F_WRLCK"})
               /\ blkpid'[x] # None => pc'[x] \in Sleepy
               /\ req'[x] \in Request(x, {"F_RDLCK", "F_WRLCK"}) \cup {None}
    <3>1. CASE x = p
      BY <1>1, <1>7, <3>1 DEF Sleepy
    <3>2. CASE x # p
      BY <1>7, <3>2 DEF SleepInv, ChainTypes, Sleepy
    <3> QED
      BY <3>1, <3>2
  <2> QED
    BY <1>5, <2>1, <2>2 DEF ChainTypes, Request
<1>9. ASSUME NEW g \in Flino, NEW l, NEW x \in Proc, SleepsOn(g, l, x), x # p
      PROVE  SleepsOn(g, l, x)'
  BY <1>7, <1>9 DEF SleepsOn, Conflict
<1>10. \A g \in Flino : \A k \in 1 .. Len(fl_flck[g]) : \A x \in fl_flck[g][k].wait :
         SleepsOn(g, fl_flck[g][k], x) /\ x \in Proc /\ x # p
  BY LockWaits DEF SleepInv, Waiters, SleepsOn
<1>11. Waiters'
  <2>1. ASSUME NEW g \in Flino, NEW k \in 1 .. Len(fl_flck'[g]), NEW x \in fl_flck'[g][k].wait
        PROVE  SleepsOn(g, fl_flck[g][k], x)'
    <3>1. CASE g = h /\ k = b
      <4>1. fl_flck'[g][k] = e
        BY <1>1, <1>3, <1>4, <3>1
      <4>2. CASE x = p
        <5>1. pc'[x] = "asleep" /\ flip'[x] = g /\ blkpid'[x] = e.pid /\ Conflict(e, x, req'[x])
          BY <1>2, <1>7, <3>1, <4>2 DEF f
        <5> QED
          BY <4>1, <5>1 DEF SleepsOn, Conflict
      <4>3. CASE x # p
        <5>1. x \in f.wait
          BY <1>2, <4>1, <4>3
        <5>2. SleepsOn(g, f, x) /\ x \in Proc
          BY <1>10, <3>1, <5>1 DEF f
        <5>3. SleepsOn(g, e, x)
          BY <1>2, <5>2 DEF SleepsOn
        <5>4. SleepsOn(g, fl_flck'[g][k], x)
          BY <4>1, <5>3
        <5> QED
          BY <1>7, <4>3, <5>2, <5>4 DEF SleepsOn, Conflict
      <4> QED
        BY <4>2, <4>3
    <3>2. CASE ~(g = h /\ k = b)
      <4>1. k \in 1 .. Len(fl_flck[g]) /\ fl_flck'[g][k] = fl_flck[g][k]
        BY <1>1, <1>3, <1>4, <3>2
      <4>2. SleepsOn(g, fl_flck[g][k], x) /\ x \in Proc /\ x # p
        BY <1>10, <4>1
      <4>3. SleepsOn(g, fl_flck'[g][k], x)
        BY <4>1, <4>2
      <4> QED
        BY <1>7, <4>2, <4>3 DEF SleepsOn, Conflict
    <3> QED
      BY <3>1, <3>2
  <2>2. ASSUME NEW g \in Flino PROVE Apart(fl_flck'[g])
    <3>1. CASE g = h
      <4>1. Apart(c)
        BY <1>1, <1>2, <1>3, <1>10 DEF Apart, f
      <4> QED
        BY <1>4, <3>1, <4>1
    <3>2. CASE g # h
      BY <1>4, <3>2, LockWaits
    <3> QED
      BY <3>1, <3>2
  <2> QED
    BY <2>1, <2>2 DEF Waiters
<1>12. Sleepers'
  <2> SUFFICES ASSUME NEW x \in Proc, pc'[x] = "asleep"
               PROVE  \E k \in 1 .. Len(fl_flck'[flip'[x]]) : x \in fl_flck'[flip'[x]][k].wait
    BY DEF Sleepers
  <2>1. CASE x = p
    <3>1. fl_flck'[h][b] = e /\ b \in 1 .. Len(fl_flck'[h]) /\ flip'[x] = h
      BY <1>1, <1>3, <1>4, <1>7, <2>1
    <3> QED
      BY <1>2, <2>1, <3>1
  <2>2. CASE x # p
    <3>1. pc[x] = "asleep" /\ flip'[x] = flip[x] /\ flip[x] \in Flino
      BY <1>7, <2>2 DEF SleepInv, ChainTypes
    <3>2. PICK k \in 1 .. Len(fl_flck[flip[x]]) : x \in fl_flck[flip[x]][k].wait
      BY <3>1 DEF SleepInv, Sleepers
    <3>3. k \in 1 .. Len(fl_flck'[flip[x]]) /\ x \in fl_flck'[flip[x]][k].wait
      BY <1>1, <1>2, <1>3, <1>4, <3>1, <3>2 DEF f
    <3> QED
      BY <3>1, <3>3
  <2> QED
    BY <2>1, <2>2
<1>13. NoCircle(blkpid')
  <2>1. NoCircle(blk)
    BY TakenOff DEF SleepInv, ChainTypes
  <2>2. p \notin Chased(blk, f.pid)
    BY DEF f
  <2>3. blkpid' = [blk EXCEPT ![p] = f.pid]
    BY DEF f
  <2>4. NoCircle([blk EXCEPT ![p] = f.pid])
    BY <1>2, <1>6, <2>1, <2>2, PutOn
  <2> QED
    BY <2>3, <2>4
<1> QED
  BY <1>8, <1>11, <1>12, <1>13 DEF SleepInv

(* A signal takes a sleeper off the semaphore of the lock. *)
LEMMA InterruptKeeps ==
  ASSUME SleepInv, NEW p \in Proc, NEW h, h = flip[p], Interrupt(p)
  PROVE  SleepInv'
<1> DEFINE old == fl_flck[h]
           c == WithoutSleeper(old, p)
           Q == Seq(Lock)
<1>1. /\ pc[p] = "asleep" /\ fl_flck' = [fl_flck EXCEPT ![h] = c]
      /\ pc' = [pc EXCEPT ![p] = "interrupted"]
      /\ UNCHANGED <<blkpid, flip, req, retval>>
      /\ h \in Flino
  BY DEF Interrupt, SleepInv, ChainTypes
<1>2. /\ old \in Seq(Lock) /\ Len(old) \in Nat /\ Apart(old)
      /\ \A k \in 1 .. Len(old) : old[k] \in Lock /\ old[k].wait \subseteq Proc
  <2> HIDE DEF Lock
  <2> QED
    BY <1>1, LockWaits
<1>3. ASSUME NEW f \in Lock
      PROVE  /\ [f EXCEPT !.wait = @ \ {p}] \in Lock
             /\ [f EXCEPT !.wait = @ \ {p}].wait = f.wait \ {p}
             /\ [f EXCEPT !.wait = @ \ {p}].pid = f.pid
             /\ \A x, r : Conflict([f EXCEPT !.wait = @ \ {p}], x, r) <=> Conflict(f, x, r)
  BY DEF Lock, Conflict
<1> HIDE DEF Lock
<1>4. /\ c \in Seq(Lock) /\ Len(c) = Len(old)
      /\ \A k \in 1 .. Len(old) : c[k] = [old[k] EXCEPT !.wait = @ \ {p}]
  <2>1. DOMAIN old = 1 .. Len(old)
    BY <1>2, LenProperties
  <2>2. c = [k \in 1 .. Len(old) |-> [old[k] EXCEPT !.wait = @ \ {p}]]
    BY <2>1 DEF WithoutSleeper
  <2>3. c \in [1 .. Len(old) -> Lock]
    BY <1>2, <1>3, <2>2
  <2> HIDE DEF c, old
  <2>4. c \in Seq(Lock)
    BY <1>2, <2>3, IsASeq
  <2>5. DOMAIN c = 1 .. Len(old)
    BY <2>3
  <2> QED
    BY <1>2, <2>2, <2>4, <2>5, LenProperties
<1>5. \A k \in 1 .. Len(old) :
        /\ c[k].wait = old[k].wait \ {p} /\ c[k].pid = old[k].pid
        /\ \A x, r : Conflict(c[k], x, r) <=> Conflict(old[k], x, r)
  <2> SUFFICES ASSUME NEW k \in 1 .. Len(old)
               PROVE  /\ c[k].wait = old[k].wait \ {p} /\ c[k].pid = old[k].pid
                      /\ \A x, r : Conflict(c[k], x, r) <=> Conflict(old[k], x, r)
    OBVIOUS
  <2> DEFINE f == old[k]
             e == [f EXCEPT !.wait = @ \ {p}]
  <2>1. f \in Lock /\ c[k] = e
    BY <1>2, <1>4
  <2>2. e.wait = f.wait \ {p} /\ e.pid = f.pid /\ \A x, r : Conflict(e, x, r) <=> Conflict(f, x, r)
    <3> HIDE DEF f
    <3> QED
      BY <1>3, <2>1
  <2> HIDE DEF e, c
  <2> QED
    BY <2>1, <2>2
<1> HIDE DEF c
<1>6. \A g \in Flino : fl_flck'[g] = IF g = h THEN c ELSE fl_flck[g]
  BY <1>1 DEF SleepInv, ChainTypes
<1>7. fl_flck' \in [Flino -> Seq(Lock)]
  <2>1. fl_flck \in [Flino -> Q] /\ c \in Q
    BY <1>4 DEF SleepInv, ChainTypes
  <2> HIDE DEF Q
  <2>2. fl_flck' \in [Flino -> Q]
    BY <1>1, <2>1
  <2> QED
    BY <2>2 DEF Q
<1>8. \A x \in Proc : pc'[x] = IF x = p THEN "interrupted" ELSE pc[x]
  BY <1>1 DEF SleepInv, ChainTypes
<1>9. ChainTypes'
  <2>1. pc' \in [Proc -> {"idle", "set", "clear", "leave"} \cup Sleepy]
    BY <1>1 DEF SleepInv, ChainTypes, Sleepy
  <2>2. ASSUME NEW x \in Proc
        PROVE  /\ pc'[x] # "idle" => flip'[x] \in Flino
               /\ pc'[x] \in Sleepy => req'[x] \in Request(x, {"F_RDLCK", "F_WRLCK"})
               /\ blkpid'[x] # None => pc'[x] \in Sleepy
               /\ req'[x] \in Request(x, {"F_RDLCK", "F_WRLCK"}) \cup {None}
    BY <1>1, <1>8 DEF SleepInv, ChainTypes, Sleepy
  <2>3. /\ blkpid' \in [Proc -> Proc \cup {None}] /\ flip' \in [Proc -> Flino \cup {None}]
        /\ DOMAIN req' = Proc /\ retval' \in [Proc -> {"none", "ok", "ENOSPC"} \cup Refusal]
    BY <1>1 DEF SleepInv, ChainTypes
  <2> QED
    BY <1>7, <2>1, <2>2, <2>3 DEF ChainTypes
<1>10. Waiters'
  <2>1. ASSUME NEW g \in Flino, NEW k \in 1 .. Len(fl_flck'[g]), NEW x \in fl_flck'[g][k].wait
        PROVE  SleepsOn(g, fl_flck[g][k], x)'
    <3>1. CASE g = h
      <4>1. fl_flck'[g][k] = c[k] /\ k \in 1 .. Len(old) /\ x \in old[k].wait /\ x # p /\ x \in Proc
        BY <1>2, <1>4, <1>5, <1>6, <3>1
      <4>2. SleepsOn(h, old[k], x)
        BY <1>1, <4>1 DEF SleepInv, Waiters
      <4>3. SleepsOn(g, fl_flck'[g][k], x)
        BY <1>5, <3>1, <4>1, <4>2 DEF SleepsOn
      <4> QED
        BY <1>1, <1>8, <4>1, <4>3 DEF SleepsOn, Conflict
    <3>2. CASE g # h
      <4>1. fl_flck'[g] = fl_flck[g]
        BY <1>6, <3>2
      <4>2. SleepsOn(g, fl_flck[g][k], x) /\ x \in Proc
        BY <4>1, LockWaits DEF SleepInv, Waiters
      <4>3. x # p
        BY <3>2, <4>2 DEF SleepsOn
      <4> QED
        BY <1>1, <1>8, <4>1, <4>2, <4>3 DEF SleepsOn, Conflict
    <3> QED
      BY <3>1, <3>2
  <2>2. ASSUME NEW g \in Flino PROVE Apart(fl_flck'[g])
    <3>1. CASE g = h
      <4>1. Apart(c)
        BY <1>2, <1>4, <1>5 DEF Apart
      <4> QED
        BY <1>6, <3>1, <4>1
    <3>2. CASE g # h
      BY <1>6, <3>2, LockWaits
    <3> QED
      BY <3>1, <3>2
  <2> QED
    BY <2>1, <2>2 DEF Waiters
<1>11. Sleepers'
  <2> SUFFICES ASSUME NEW x \in Proc, pc'[x] = "asleep"
               PROVE  \E k \in 1 .. Len(fl_flck'[flip'[x]]) : x \in fl_flck'[flip'[x]][k].wait
    BY DEF Sleepers
  <2>1. x # p /\ pc[x] = "asleep" /\ flip'[x] = flip[x] /\ flip[x] \in Flino
    BY <1>1, <1>8 DEF SleepInv, ChainTypes
  <2>2. PICK k \in 1 .. Len(fl_flck[flip[x]]) : x \in fl_flck[flip[x]][k].wait
    BY <2>1 DEF SleepInv, Sleepers
  <2>3. k \in 1 .. Len(fl_flck'[flip[x]]) /\ x \in fl_flck'[flip[x]][k].wait
    BY <1>4, <1>5, <1>6, <2>1, <2>2
  <2> QED
    BY <2>1, <2>3
<1>12. NoCircle(blkpid')
  BY <1>1 DEF SleepInv
<1> QED
  BY <1>9, <1>10, <1>11, <1>12 DEF SleepInv

(* One turn of the loop in setflck() for a lock. *)
LEMMA TryKeeps ==
  ASSUME SleepInv, NEW p \in Proc, NEW h, h = flip[p], pc[p] \notin {"idle", "asleep"},
         NEW ld \in Request(p, {"F_RDLCK", "F_WRLCK"}), NEW slpflg \in BOOLEAN,
         NEW blk, blk \in {blkpid, [blkpid EXCEPT ![p] = None]}, blk[p] = None,
         NEW free \in Int, Try(p, ld, slpflg, blk, free), UNCHANGED flip
  PROVE  SleepInv'
<1> DEFINE chain == fl_flck[h]
           b == blocked(chain, p, ld)
           f == chain[b]
           a == flckadj(chain, free, insrt(chain, p, ld), p, ld)
<1> HIDE DEF Lock
<1>1. h \in Flino /\ chain \in Seq(Lock) /\ Apart(chain)
  BY LockWaits DEF SleepInv, ChainTypes
<1>4. ASSUME NEW rv \in {"ok", "ENOSPC"} \cup Refusal, NEW c \in Seq(Lock), NEW woken \in SUBSET Proc,
             Follows(chain, c, woken), Leave(p, rv, c, blk, woken)
      PROVE  SleepInv'
  BY <1>4, LeaveKeeps
<1>2. CASE b = 0
  <2>1. Leave(p, a.rv, a.chain, blk, a.woken)
    BY <1>2 DEF Try
  <2>2. Leaves(chain, a)
    <3>1. ld \in Wanted("F_RDLCK") \cup Wanted("F_WRLCK") \cup Wanted("F_UNLCK")
      BY RequestWanted
    <3>2. insrt(chain, p, ld) \in 0 .. Len(chain)
      BY <1>1, InsrtPlace
    <3> HIDE DEF chain
    <3> QED
      BY <1>1, <3>1, <3>2, flckadjLeaves
  <2> HIDE DEF a
  <2>3. /\ a.chain \in Seq(Lock) /\ a.woken \in SUBSET Proc /\ a.rv \in {"ok", "ENOSPC"} \cup Refusal
        /\ Follows(chain, a.chain, a.woken)
    BY <2>2 DEF Leaves
  <2> HIDE DEF chain
  <2> QED
    BY <1>4, <2>1, <2>3
<1>3. CASE b # 0
  <2>1. b \in 1 .. Len(chain) /\ Conflict(f, p, ld)
    BY <1>1, <1>3, BlockedBy
  <2> HIDE DEF a
  <2>2. ASSUME NEW rv \in Refusal \cup {"ENOSPC"}, Leave(p, rv, chain, blk, {})
        PROVE  SleepInv'
    <3>1. Follows(chain, chain, {})
      BY <1>1 DEF Follows
    <3>2. rv \in {"ok", "ENOSPC"} \cup Refusal /\ {} \in SUBSET Proc
      BY DEF Refusal
    <3> HIDE DEF chain
    <3> QED
      BY <1>1, <1>4, <2>2, <3>1, <3>2
  <2>3. ASSUME slpflg /\ ~deadflck(blk, f, p),
               fl_flck' = [fl_flck EXCEPT ![flip[p]][b].wait = @ \cup {p}],
               blkpid' = [blk EXCEPT ![p] = f.pid],
               pc' = [pc EXCEPT ![p] = "asleep"],
               req' = [req EXCEPT ![p] = ld], UNCHANGED retval
        PROVE  SleepInv'
    <3>1. p \notin Chased(blk, f.pid)
      BY <2>3 DEF deadflck
    <3> HIDE DEF b
    <3> QED
      BY <2>1, <2>3, <3>1, SleepKeeps
  <2>4. \/ \E rv \in Refusal \cup {"ENOSPC"} : Leave(p, rv, chain, blk, {})
        \/ /\ slpflg /\ ~deadflck(blk, f, p)
           /\ fl_flck' = [fl_flck EXCEPT ![flip[p]][b].wait = @ \cup {p}]
           /\ blkpid' = [blk EXCEPT ![p] = f.pid]
           /\ pc' = [pc EXCEPT ![p] = "asleep"]
           /\ req' = [req EXCEPT ![p] = ld] /\ UNCHANGED retval
    BY <1>3 DEF Try, Refusal
  <2> QED
    BY <2>2, <2>3, <2>4
<1> QED
  BY <1>2, <1>3

(* The invariant holds at the start and in every step. *)
LEMMA InitSleep == Init => SleepInv
<1> SUFFICES ASSUME Init PROVE SleepInv
  OBVIOUS
<1>1. ChainTypes
  BY DEF Init, ChainTypes, Sleepy
<1>2. \A h \in Flino : Len(fl_flck[h]) = 0
  BY DEF Init
<1>3. Waiters /\ Sleepers
  BY <1>2 DEF Init, Waiters, Apart, Sleepers
<1>4. NoCircle(blkpid)
  BY DEF Init, NoCircle
<1> QED
  BY <1>1, <1>3, <1>4 DEF SleepInv

LEMMA NextSleep ==
  ASSUME SleepInv, [Next]_vars
  PROVE  SleepInv'
<1> HIDE DEF Lock
<1>1. CASE UNCHANGED vars
  <2>1. UNCHANGED <<fl_flck, blkpid, pc, flip, req, retval>>
    BY <1>1 DEF vars, chainVars
  <2>2. ChainTypes' /\ Sleepers' /\ NoCircle(blkpid')
    BY <2>1 DEF SleepInv, ChainTypes, Sleepers, Request
  <2>3. Waiters'
    BY <2>1 DEF SleepInv, Waiters, SleepsOn, Apart, Conflict
  <2> QED
    BY <2>2, <2>3 DEF SleepInv
<1>2. ASSUME NEW p \in Proc, BeginSet(p) \/ BeginClear(p)
      PROVE  SleepInv'
  <2>1. \E h \in Flino : flip' = [flip EXCEPT ![p] = h]
    BY <1>2 DEF BeginSet, BeginClear, fallocfid, findfid, Refer
  <2>2. /\ pc[p] = "idle" /\ UNCHANGED <<fl_flck, blkpid, req, retval>>
        /\ pc' = [pc EXCEPT ![p] = "set"] \/ pc' = [pc EXCEPT ![p] = "clear"]
    BY <1>2 DEF BeginSet, BeginClear, chainVars
  <2>3. retval' \in [Proc -> {"none", "ok", "ENOSPC"} \cup Refusal]
    BY <2>2 DEF SleepInv, ChainTypes
  <2>4. pc[p] \notin Sleepy
    BY <2>2 DEF Sleepy
  <2> QED
    BY <2>1, <2>2, <2>3, <2>4, RestKeeps
<1>3. ASSUME NEW p \in Proc, Set(p)
      PROVE  SleepInv'
  <2>1. pc[p] = "set" /\ UNCHANGED flip
    BY <1>3 DEF Set
  <2>2. PICK ld \in Request(p, {"F_RDLCK", "F_WRLCK"}), slpflg \in BOOLEAN :
          Try(p, ld, slpflg, blkpid, FreeRecs)
    BY <1>3 DEF Set
  <2>3. blkpid[p] = None
    BY <2>1 DEF SleepInv, ChainTypes, Sleepy
  <2>4. \E h : h = flip[p]
    OBVIOUS
  <2> QED
    BY <2>1, <2>2, <2>3, <2>4, FreeRecsInt, TryKeeps
<1>4. ASSUME NEW p \in Proc, Resume(p)
      PROVE  SleepInv'
  <2> DEFINE blk == [blkpid EXCEPT ![p] = None]
  <2>1. pc[p] = "woken" /\ UNCHANGED flip /\ Try(p, req[p], TRUE, blk, FreeRecs + 1)
    BY <1>4 DEF Resume
  <2>2. req[p] \in Request(p, {"F_RDLCK", "F_WRLCK"}) /\ blk[p] = None
    BY <2>1 DEF SleepInv, ChainTypes, Sleepy
  <2>3. FreeRecs + 1 \in Int
    BY FreeRecsInt
  <2>4. \E h : h = flip[p]
    OBVIOUS
  <2>5. blk \in {blkpid, [blkpid EXCEPT ![p] = None]}
    OBVIOUS
  <2> HIDE DEF blk
  <2>6. PICK ld \in Request(p, {"F_RDLCK", "F_WRLCK"}), slpflg \in BOOLEAN, free \in Int :
          Try(p, ld, slpflg, blk, free)
    BY <2>1, <2>2, <2>3
  <2>7. pc[p] \notin {"idle", "asleep"} /\ UNCHANGED flip
    BY <2>1
  <2> QED
    BY <2>2, <2>4, <2>5, <2>6, <2>7, TryKeeps
<1>5. ASSUME NEW p \in Proc, Interrupt(p)
      PROVE  SleepInv'
  <2>1. \E h : h = flip[p]
    OBVIOUS
  <2> QED
    BY <1>5, <2>1, InterruptKeeps
<1>6. ASSUME NEW p \in Proc, pc[p] \notin {"idle", "asleep"}, UNCHANGED flip,
             NEW rv \in {"ok", "ENOSPC"} \cup Refusal, NEW chain \in Seq(Lock), NEW blk,
             blk \in {blkpid, [blkpid EXCEPT ![p] = None]}, blk[p] = None,
             NEW woken \in SUBSET Proc, Follows(fl_flck[flip[p]], chain, woken),
             Leave(p, rv, chain, blk, woken)
      PROVE  SleepInv'
  <2>1. \E h : h = flip[p]
    OBVIOUS
  <2> QED
    BY <1>6, <2>1, LeaveKeeps
<1>7. ASSUME NEW p \in Proc, pc[p] # "idle"
      PROVE  fl_flck[flip[p]] \in Seq(Lock) /\ Apart(fl_flck[flip[p]])
  BY <1>7, LockWaits DEF SleepInv, ChainTypes
<1>8. ASSUME NEW p \in Proc, Interrupted(p)
      PROVE  SleepInv'
  <2> DEFINE blk == [blkpid EXCEPT ![p] = None]
             chain == fl_flck[flip[p]]
  <2>1. pc[p] = "interrupted" /\ UNCHANGED flip /\ Leave(p, "EINTR", chain, blk, {})
    BY <1>8 DEF Interrupted
  <2>2. chain \in Seq(Lock) /\ Follows(chain, chain, {}) /\ blk[p] = None
    BY <1>7, <2>1 DEF SleepInv, ChainTypes, Follows
  <2>3. "EINTR" \in {"ok", "ENOSPC"} \cup Refusal /\ {} \in SUBSET Proc
    BY DEF Refusal
  <2>4. blk \in {blkpid, [blkpid EXCEPT ![p] = None]}
    OBVIOUS
  <2> HIDE DEF blk
  <2> QED
    BY <1>6, <2>1, <2>2, <2>3, <2>4
<1>9. ASSUME NEW p \in Proc, Unlock(p) \/ cleanlocks(p)
      PROVE  SleepInv'
  <2> DEFINE chain == fl_flck[flip[p]]
  <2>1. pc[p] = "clear" /\ UNCHANGED flip
    BY <1>9 DEF Unlock, cleanlocks
  <2>2. chain \in Seq(Lock) /\ Apart(chain) /\ Len(chain) \in Nat
    BY <1>7, <2>1, LenProperties
  <2>3. blkpid[p] = None
    BY <2>1 DEF SleepInv, ChainTypes, Sleepy
  <2>4. ASSUME NEW a, NEW rv \in {"ok", "ENOSPC"}, Leaves(chain, a), Leave(p, rv, a.chain, blkpid, a.woken)
        PROVE  SleepInv'
    <3>1. /\ a.chain \in Seq(Lock) /\ a.woken \in SUBSET Proc /\ Follows(chain, a.chain, a.woken)
          /\ rv \in {"ok", "ENOSPC"} \cup Refusal
      BY <2>4 DEF Leaves
    <3> QED
      BY <1>6, <2>1, <2>3, <2>4, <3>1
  <2>5. CASE cleanlocks(p)
    <3>1. Leave(p, "ok", Clean(chain, p).chain, blkpid, Clean(chain, p).woken)
      BY <2>5 DEF cleanlocks
    <3> HIDE DEF chain
    <3>2. Leaves(chain, Clean(chain, p))
      BY <2>2, CleanLeaves
    <3> QED
      BY <2>4, <3>1, <3>2
  <2>6. CASE Unlock(p)
    <3> DEFINE at == IF chain = <<>> THEN 0 ELSE 1
    <3>1. PICK ld \in Request(p, {"F_UNLCK"}) :
            LET a == flckadj(chain, FreeRecs, at, p, ld)
            IN Leave(p, a.rv, a.chain, blkpid, a.woken)
      BY <2>6 DEF Unlock
    <3>2. ld \in Wanted("F_RDLCK") \cup Wanted("F_WRLCK") \cup Wanted("F_UNLCK")
      BY RequestWanted
    <3>3. at \in 0 .. Len(chain)
      BY <2>2, EmptySeq
    <3> HIDE DEF chain, at
    <3> DEFINE a == flckadj(chain, FreeRecs, at, p, ld)
    <3>4. Leaves(chain, a)
      BY <2>2, <3>2, <3>3, FreeRecsInt, flckadjLeaves
    <3>5. Leave(p, a.rv, a.chain, blkpid, a.woken)
      BY <3>1
    <3> HIDE DEF a
    <3>6. a.rv \in {"ok", "ENOSPC"}
      BY <3>4 DEF Leaves
    <3> QED
      BY <2>4, <3>4, <3>5, <3>6
  <2> QED
    BY <1>9, <2>5, <2>6
<1>10. ASSUME NEW p \in Proc, getflck(p)
       PROVE  SleepInv'
  <2>1. /\ pc[p] = "clear" /\ pc' = [pc EXCEPT ![p] = "leave"]
        /\ UNCHANGED <<fl_flck, blkpid, flip, req, retval>>
    BY <1>10 DEF getflck, chainVars
  <2>2. flip[p] \in Flino /\ flip' = [flip EXCEPT ![p] = flip[p]]
    BY <2>1 DEF SleepInv, ChainTypes
  <2>3. pc[p] \notin Sleepy /\ retval' \in [Proc -> {"none", "ok", "ENOSPC"} \cup Refusal]
    BY <2>1 DEF SleepInv, ChainTypes, Sleepy
  <2> QED
    BY <2>1, <2>2, <2>3, RestKeeps
<1>11. ASSUME NEW p \in Proc, freefid(p)
       PROVE  SleepInv'
  <2>1. /\ pc[p] = "leave" /\ pc' = [pc EXCEPT ![p] = "idle"]
        /\ flip' = [flip EXCEPT ![p] = None] /\ retval' = [retval EXCEPT ![p] = "none"]
        /\ UNCHANGED <<fl_flck, blkpid, req>>
    BY <1>11 DEF freefid, chainVars
  <2>2. pc[p] \notin Sleepy /\ retval' \in [Proc -> {"none", "ok", "ENOSPC"} \cup Refusal]
    BY <2>1 DEF SleepInv, ChainTypes, Sleepy
  <2> QED
    BY <2>1, <2>2, RestKeeps
<1> QED
  BY <1>1, <1>2, <1>3, <1>4, <1>5, <1>8, <1>9, <1>10, <1>11 DEF Next

(* Every variable keeps its type: in particular flckadj() leaves locks that *)
(* are inside the file, whatever it cuts, merges and splits.                *)
THEOREM LocksTyped == Spec => []TypeOK
<1>1. SleepInv /\ IInv => TypeOK
  <2> SUFFICES ASSUME SleepInv, IInv PROVE TypeOK
    OBVIOUS
  <2>1. ASSUME NEW h \in Flino, NEW i \in DOMAIN fl_flck[h]
        PROVE  fl_flck[h][i] \in [pid : Proc, type : {"F_RDLCK", "F_WRLCK"},
                                  s : 0 .. MaxEnd - 1, e : 1 .. MaxEnd, wait : SUBSET Proc]
    <3>1. fl_flck[h][i] \in Lock
      <4> HIDE DEF Lock
      <4> QED
        BY LockWaits, LenProperties
    <3> QED
      BY <3>1 DEF Lock
  <2> HIDE DEF Lock
  <2> QED
    BY <2>1 DEF TypeOK, SleepInv, ChainTypes, Sleepy, IInv, RefInv
<1> QED
  BY <1>1, InitSleep, NextSleep, InitInv, NextInv, PTL DEF Spec

(* A process is only asleep on a lock that still shuts out its request:     *)
(* flckadj() and cleanlocks() wake all sleepers of the locks they change.   *)
THEOREM SleepersStayBlocked == Spec => []SleepersBlocked
<1>1. SleepInv => SleepersBlocked
  <2> SUFFICES ASSUME SleepInv, NEW p \in Proc, pc[p] = "asleep"
               PROVE  \E i \in DOMAIN fl_flck[flip[p]] :
                        p \in fl_flck[flip[p]][i].wait /\ Conflict(fl_flck[flip[p]][i], p, req[p])
    BY DEF SleepersBlocked
  <2>1. flip[p] \in Flino
    BY DEF SleepInv, ChainTypes
  <2>2. PICK k \in 1 .. Len(fl_flck[flip[p]]) : p \in fl_flck[flip[p]][k].wait
    BY DEF SleepInv, Sleepers
  <2>3. Conflict(fl_flck[flip[p]][k], p, req[p])
    BY <2>1, <2>2 DEF SleepInv, Waiters, SleepsOn
  <2>4. DOMAIN fl_flck[flip[p]] = 1 .. Len(fl_flck[flip[p]])
    <3> HIDE DEF Lock
    <3> QED
      BY <2>1, LockWaits, LenProperties
  <2> QED
    BY <2>2, <2>3, <2>4
<1> QED
  BY <1>1, InitSleep, NextSleep, PTL DEF Spec

(* deadflck() lets no circle of sleepers come to be, and sleeplcks has the  *)
(* owner of the lock a process is asleep on.                                *)
THEOREM SleepersInNoCircle == Spec => []NoSleepCycle
<1>1. SleepInv => NoSleepCycle
  <2> SUFFICES ASSUME SleepInv, NEW p \in Proc
               PROVE  /\ blkpid[p] # None => p \notin Chased(blkpid, blkpid[p])
                      /\ \A q \in Proc : WaitsFor(p, q) => blkpid[p] = q
    BY DEF NoSleepCycle
  <2>1. ASSUME NEW q \in Proc, WaitsFor(p, q)
        PROVE  blkpid[p] = q
    <3>1. PICK i \in DOMAIN fl_flck[flip[p]] :
            p \in fl_flck[flip[p]][i].wait /\ fl_flck[flip[p]][i].pid = q
      BY <2>1 DEF WaitsFor
    <3>2. flip[p] \in Flino
      BY <2>1 DEF WaitsFor, SleepInv, ChainTypes
    <3>3. i \in 1 .. Len(fl_flck[flip[p]])
      <4> HIDE DEF Lock
      <4> QED
        BY <3>2, LockWaits, LenProperties
    <3> QED
      BY <3>1, <3>2, <3>3 DEF SleepInv, Waiters, SleepsOn
  <2> QED
    BY <2>1 DEF SleepInv, NoCircle
<1> QED
  BY <1>1, InitSleep, NextSleep, PTL DEF Spec
=============================================================================
