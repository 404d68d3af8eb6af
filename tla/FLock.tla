------------------------------- MODULE FLock -------------------------------
(***************************************************************************)
(* Record locks on files (common/sys/vfs_flock.c): fcntl(F_GETLK, F_SETLK, *)
(* F_SETLKW) and the clean-up in closef().                                 *)
(*                                                                         *)
(* A file with locks has a header (struct flino) with the chain of its     *)
(* locks, sorted by start.  A call takes a reference to the header under   *)
(* flino_lock, then locks the header (fl_lock) and works on its chain, and *)
(* drops the reference under flino_lock: three steps.  All that is done    *)
(* under fl_lock is one step, frlock_lock and sleeplcks.fl_lock are only   *)
(* taken inside it.  A process sleeps on the semaphore of the lock that    *)
(* blocks it, p_sema_v_lock() gives up fl_lock in the step that queues it. *)
(***************************************************************************)
EXTENDS Integers, FiniteSets, SequencesExt

CONSTANTS Proc,    \* processes
          File,    \* vnodes
          Flino,   \* headers: flinotab
          Recs,    \* flckinfo.recs: lock records in the system
          MaxEnd,  \* MAXEND: the end of every file
          Asks,    \* the ranges each process asks for, as <<start, end>>
          None     \* no process, file, header or request

ASSUME ProcAssumption == IsFiniteSet(Proc) /\ IsFiniteSet(Flino)
ASSUME NoneAssumption == None \notin Proc \cup File \cup Flino
ASSUME SizeAssumption == Recs \in Nat /\ MaxEnd \in Nat \ {0}
ASSUME AsksAssumption ==
  \A p \in Proc : Asks[p] \subseteq {r \in (0 .. MaxEnd) \X (0 .. MaxEnd) : r[1] < r[2]}

VARIABLES
  fl_vp,       \* the file of a header, None when the header is free
  fl_refcnt,   \* processes between findfid()/fallocfid() and freefid()
  fl_flck,     \* the chain of a header
  blkpid,      \* sleeplcks: the owner of the lock a process went to sleep on
  pc,          \* where a process is in the code
  flip,        \* the header a process refers to
  req,         \* the request of a process in setflck()
  retval       \* the answer of a call that has not dropped its header yet

chainVars == <<fl_flck, blkpid>>
vars == <<fl_vp, fl_refcnt, chainVars, pc, flip, req, retval>>

Refusal == {"EACCES", "EDEADLK", "EINTR"}
Request(p, types) ==
  {[type |-> t, s |-> r[1], e |-> r[2]] : t \in types, r \in Asks[p]}

TypeOK ==
  /\ fl_vp \in [Flino -> File \cup {None}]
  /\ fl_refcnt \in [Flino -> Nat]
  /\ \A h \in Flino : \A i \in DOMAIN fl_flck[h] :
        fl_flck[h][i] \in [pid : Proc, type : {"F_RDLCK", "F_WRLCK"},
                           s : 0 .. MaxEnd - 1, e : 1 .. MaxEnd, wait : SUBSET Proc]
  /\ blkpid \in [Proc -> Proc \cup {None}]
  /\ pc \in [Proc -> {"idle", "set", "clear", "asleep", "woken", "interrupted", "leave"}]
  /\ flip \in [Proc -> Flino \cup {None}]
  /\ \A p \in Proc : req[p] \in Request(p, {"F_RDLCK", "F_WRLCK"}) \cup {None}
  /\ retval \in [Proc -> {"none", "ok", "ENOSPC"} \cup Refusal]

(* flckinit() *)
Init ==
  /\ fl_vp = [h \in Flino |-> None]
  /\ fl_refcnt = [h \in Flino |-> 0]
  /\ fl_flck = [h \in Flino |-> <<>>]
  /\ blkpid = [p \in Proc |-> None]
  /\ pc = [p \in Proc |-> "idle"]
  /\ flip = [p \in Proc |-> None]
  /\ req = [p \in Proc |-> None]
  /\ retval = [p \in Proc |-> "none"]
-----------------------------------------------------------------------------
(* The chain. *)

(* frlock: records that are neither locks nor sleepers. *)
FreeRecs == Recs - Cardinality({r \in Flino \X (1 .. Recs) : r[2] \in DOMAIN fl_flck[r[1]]})
                 - Cardinality({p \in Proc : blkpid[p] # None})

Conflict(f, p, ld) ==
  /\ f.pid # p
  /\ ld.s < f.e /\ ld.e > f.s
  /\ f.type = "F_WRLCK" \/ ld.type = "F_WRLCK"

(* The first lock that blocks the request, 0 for none: the search gives up *)
(* behind a lock that starts after the request ends.                       *)
blocked(chain, p, ld) ==
  LET found == SelectInSeq(chain, LAMBDA f : Conflict(f, p, ld))
      end == SelectInSeq(chain, LAMBDA f : f.s > ld.e)
  IN IF end \in 1 .. found THEN 0 ELSE found

(* Mutant: insrt passes a lock of the process that the request touches. *)
InsrtBehindOwn(chain, p, ld) ==
  LET before == SelectInSeq(chain, LAMBDA f : f.s >= ld.s)
  IN IF before = 0 THEN Len(chain) ELSE before - 1

(* insrt: the locks that start before the request, up to the first of the  *)
(* process's own that touches it.                                          *)
insrt(chain, p, ld) ==
  LET before == SelectInSeq(chain, LAMBDA f : f.s >= ld.s)
      n == IF before = 0 THEN Len(chain) ELSE before - 1
      own == SelectInSubSeq(chain, 1, n,
               LAMBDA f : f.pid = p /\ ld.s <= f.e /\ ld.e >= f.s)
  IN IF own = 0 THEN n ELSE own

(* insflck() behind the last lock that starts before the new one, looking  *)
(* from position k.                                                        *)
insflck(chain, k, p, ld) ==
  LET later == SelectInSubSeq(chain, k, Len(chain), LAMBDA f : f.s >= ld.s)
      at == CASE k = 0 -> 0
              [] k # 0 /\ later = 0 -> Len(chain)
              [] k # 0 /\ later = k -> k
              [] OTHER -> later - 1
  IN InsertAt(chain, at + 1,
       [pid |-> p, type |-> ld.type, s |-> ld.s, e |-> ld.e, wait |-> {}])

(* regflck(): where the ends of the request lie relative to a lock. *)
regflck(ld, f) ==
  IF ld.s >= f.e /\ ld.s > f.s
  THEN <<IF ld.s = f.e THEN "END" ELSE "AFTER", "AFTER">>
  ELSE <<CASE ld.s > f.s -> "MIDDLE" [] ld.s = f.s -> "START" [] OTHER -> "BEFORE",
         CASE ld.e > f.e -> "AFTER" [] ld.e = f.e -> "END"
           [] f.s < ld.e /\ ld.e < f.e -> "MIDDLE"
           [] ld.e = f.s -> "START" [] OTHER -> "BEFORE">>
-----------------------------------------------------------------------------
(* flckadj() walks the chain from insrt and makes room for the request     *)
(* among the locks of the process.  Its state in the walk: the chain, the  *)
(* request (ld grows when locks are merged), the position to insert at,    *)
(* the locks deleted so far, the free records, the processes woken.        *)

Wake(a, j) == [a EXCEPT !.chain[j].wait = {}, !.woken = @ \cup a.chain[j].wait]

delflck(a, j) ==
  [a EXCEPT !.chain = RemoveAt(@, j), !.woken = @ \cup a.chain[j].wait,
            !.gone = @ + 1, !.free = @ + 1,
            !.at = IF @ >= j THEN j - 1 ELSE @]

Stop(a) == [a EXCEPT !.go = FALSE]

(* return (rv) in the middle of the walk *)
Return(a, rv) == [a EXCEPT !.go = FALSE, !.done = TRUE, !.rv = rv]

(* Mutant: the sleepers on a lock that is cut back are not woken. *)
ShortenSilently(a, j) == [a EXCEPT !.chain[j].e = a.ld.s, !.at = j]

(* The lock at j is cut back to end where the request starts. *)
Shorten(a, j) == [Wake(a, j) EXCEPT !.chain[j].e = a.ld.s, !.at = j]

(* The piece of the lock at j behind the request becomes a lock, for which *)
(* there must be a record.                                                 *)
Splits(a, j) ==
  /\ a.ld.type # a.chain[j].type
  /\ regflck(a.ld, a.chain[j])[1] \in {"BEFORE", "START", "MIDDLE"}
  /\ regflck(a.ld, a.chain[j])[2] = "MIDDLE"
Split(a, p, j) ==
  [a EXCEPT !.free = @ - 1,
            !.chain = insflck(@, j, p, [a.chain[j] EXCEPT !.s = a.ld.e])]

(* One lock of the process. *)
Adjust(a, p, j) ==
  LET f == a.chain[j]
      same == a.ld.type = f.type
      r == regflck(a.ld, f)
      start == r[1]
      end == r[2]
      delete == [delflck(a, j) EXCEPT !.at = IF start = "START" THEN j - 1 ELSE @]
      mergeUp == [delflck(a, j) EXCEPT !.ld.e = f.e]
      mergeDown == [delflck(a, j) EXCEPT !.ld.s = f.s, !.at = j - 1]
  IN IF Splits(a, j) /\ a.free = 0 THEN Return(a, "ENOSPC") ELSE
     CASE r = <<"BEFORE", "BEFORE">> -> Stop(a)
       [] r = <<"BEFORE", "START">> -> Stop(IF same THEN mergeUp ELSE a)
       [] r = <<"BEFORE", "MIDDLE">> ->
            IF same THEN Stop(mergeUp)
            ELSE Stop(delflck(Split(a, p, j), j))
       [] r = <<"BEFORE", "END">> -> IF same THEN Stop(delete) ELSE delete
       [] r \in {<<"BEFORE", "AFTER">>, <<"START", "AFTER">>} -> delete
       [] r \in {<<"MIDDLE", "AFTER">>, <<"END", "AFTER">>} ->
            IF same THEN mergeDown ELSE Shorten(a, j)
       [] r = <<"AFTER", "AFTER">> -> [a EXCEPT !.at = j]
       [] OTHER ->   \* the request lies inside the lock
            IF same THEN Return(a, "ok")
            ELSE CASE r = <<"START", "END">> -> delete
                   [] r = <<"MIDDLE", "END">> -> Shorten(a, j)
                   [] r = <<"START", "MIDDLE">> ->
                        Stop([delflck(Split(a, p, j), j) EXCEPT !.at = j - 1])
                   [] OTHER -> Stop(Shorten(Split(a, p, j), j))

(* The next lock, which was the i-th when the walk began. *)
Visit(a, p, i) ==
  LET j == i - a.gone IN
    CASE ~a.go -> a
      [] a.go /\ a.chain[j].pid = p -> Adjust(a, p, j)
      [] OTHER -> IF a.chain[j].s > a.ld.e THEN Stop(a) ELSE a

Start(chain, free, at, ld) ==
  [chain |-> chain, ld |-> ld, at |-> at, gone |-> 0, free |-> free,
   woken |-> {}, go |-> TRUE, done |-> FALSE, rv |-> "ok"]

flckadj(chain, free, at, p, ld) ==
  LET first == IF at = 0 THEN 1 ELSE at
      last == Len(chain) - first + 1
      walk[n \in 0 .. last] ==
        IF n = 0 THEN Start(chain, free, at, ld) ELSE Visit(walk[n - 1], p, first + n - 1)
      a == walk[last]
  IN CASE a.done \/ ld.type = "F_UNLCK" -> a
       [] ~a.done /\ ld.type # "F_UNLCK" /\ a.free = 0 -> [a EXCEPT !.rv = "ENOSPC"]
       [] OTHER -> [a EXCEPT !.chain = insflck(@, a.at, p, a.ld), !.free = @ - 1]
-----------------------------------------------------------------------------
(* Deadlock detection. *)

(* Who is met from q along blkpid: the processes in every set that has q   *)
(* and, with a process, the one it is blocked by.                          *)
Chased(blk, q) ==
  {x \in Proc : \A S \in SUBSET Proc :
     q \in S /\ (\A y \in S : blk[y] # None => blk[y] \in S) => x \in S}

(* Mutant: the owner of the lock is looked at, not what it sleeps on. *)
DeadlockAtOnce(blk, found, p) == found.pid = p

deadflck(blk, found, p) == p \in Chased(blk, found.pid)
-----------------------------------------------------------------------------
(* findfid(), fallocfid(): a reference to the header of a file. *)
Refer(p, h) ==
  /\ fl_refcnt' = [fl_refcnt EXCEPT ![h] = @ + 1]
  /\ flip' = [flip EXCEPT ![p] = h]

(* Mutant: a header that is found is not counted. *)
FindUncounted(p, f) ==
  \E h \in Flino : /\ fl_vp[h] = f
                   /\ flip' = [flip EXCEPT ![p] = h]
                   /\ UNCHANGED <<fl_vp, fl_refcnt>>

findfid(p, f) ==
  \E h \in Flino : fl_vp[h] = f /\ Refer(p, h) /\ UNCHANGED fl_vp

fallocfid(p, f) ==
  \/ findfid(p, f)
  \/ /\ \A h \in Flino : fl_vp[h] # f
     /\ \E h \in Flino : /\ fl_vp[h] = None
                         /\ fl_vp' = [fl_vp EXCEPT ![h] = f]
                         /\ Refer(p, h)

(* fcntl() to set a lock; EMFILE when no header is left changes nothing. *)
BeginSet(p) ==
  /\ pc[p] = "idle"
  /\ \E f \in File : fallocfid(p, f)
  /\ pc' = [pc EXCEPT ![p] = "set"]
  /\ UNCHANGED <<chainVars, req, retval>>

(* fcntl() to unlock or to test, closef(): nothing to do without a header. *)
BeginClear(p) ==
  /\ pc[p] = "idle"
  /\ \E f \in File : findfid(p, f)
  /\ pc' = [pc EXCEPT ![p] = "clear"]
  /\ UNCHANGED <<chainVars, req, retval>>

(* The call has its answer and is about to drop the header. *)
Leave(p, rv, chain, blk, woken) ==
  /\ fl_flck' = [fl_flck EXCEPT ![flip[p]] = chain]
  /\ blkpid' = blk
  /\ pc' = [q \in Proc |-> IF q = p THEN "leave"
                           ELSE IF q \in woken THEN "woken" ELSE pc[q]]
  /\ req' = [req EXCEPT ![p] = None]
  /\ retval' = [retval EXCEPT ![p] = rv]

(* One turn of the loop in setflck() for a lock, when the record p may have *)
(* slept with is off sleeplcks: blk is what is left there.                 *)
Try(p, ld, slpflg, blk, free) ==
  LET chain == fl_flck[flip[p]]
      b == blocked(chain, p, ld)
      found == chain[b]
      Fail(rv) == Leave(p, rv, chain, blk, {})
  IN IF b = 0
     THEN LET a == flckadj(chain, free, insrt(chain, p, ld), p, ld)
          IN Leave(p, a.rv, a.chain, blk, a.woken)
     ELSE CASE ~slpflg -> Fail("EACCES")
            [] slpflg /\ deadflck(blk, found, p) -> Fail("EDEADLK")
            [] slpflg /\ ~deadflck(blk, found, p) /\ free = 0 -> Fail("ENOSPC")
            [] OTHER ->
                 /\ fl_flck' = [fl_flck EXCEPT ![flip[p]][b].wait = @ \cup {p}]
                 /\ blkpid' = [blk EXCEPT ![p] = found.pid]
                 /\ pc' = [pc EXCEPT ![p] = "asleep"]
                 /\ req' = [req EXCEPT ![p] = ld]
                 /\ UNCHANGED retval

(* setflck() with F_RDLCK or F_WRLCK *)
Set(p) ==
  /\ pc[p] = "set"
  /\ \E ld \in Request(p, {"F_RDLCK", "F_WRLCK"}), slpflg \in BOOLEAN :
        Try(p, ld, slpflg, blkpid, FreeRecs)
  /\ UNCHANGED <<fl_vp, fl_refcnt, flip>>

(* A process that was woken takes its record off sleeplcks and tries again. *)
Resume(p) ==
  /\ pc[p] = "woken"
  /\ Try(p, req[p], TRUE, [blkpid EXCEPT ![p] = None], FreeRecs + 1)
  /\ UNCHANGED <<fl_vp, fl_refcnt, flip>>

(* A signal takes a sleeper off the semaphore ... *)
WithoutSleeper(chain, p) ==
  [i \in DOMAIN chain |-> [chain[i] EXCEPT !.wait = @ \ {p}]]
Interrupt(p) ==
  /\ pc[p] = "asleep"
  /\ fl_flck' = [fl_flck EXCEPT ![flip[p]] = WithoutSleeper(@, p)]
  /\ pc' = [pc EXCEPT ![p] = "interrupted"]
  /\ UNCHANGED <<fl_vp, fl_refcnt, blkpid, flip, req, retval>>

(* ... and it comes back through setjmp() *)
Interrupted(p) ==
  /\ pc[p] = "interrupted"
  /\ Leave(p, "EINTR", fl_flck[flip[p]], [blkpid EXCEPT ![p] = None], {})
  /\ UNCHANGED <<fl_vp, fl_refcnt, flip>>

(* setflck() with F_UNLCK *)
Unlock(p) ==
  /\ pc[p] = "clear"
  /\ \E ld \in Request(p, {"F_UNLCK"}) :
       LET chain == fl_flck[flip[p]]
           a == flckadj(chain, FreeRecs, IF chain = <<>> THEN 0 ELSE 1, p, ld)
       IN Leave(p, a.rv, a.chain, blkpid, a.woken)
  /\ UNCHANGED <<fl_vp, fl_refcnt, flip>>

(* cleanlocks(), called by closef(), deletes the locks of p. *)
Clean(chain, p) ==
  LET walk[n \in 0 .. Len(chain)] ==
        IF n = 0 THEN Start(chain, 0, 0, None)
        ELSE LET a == walk[n - 1]
                 j == n - a.gone
             IN IF a.chain[j].pid = p THEN delflck(a, j) ELSE a
  IN walk[Len(chain)]
cleanlocks(p) ==
  /\ pc[p] = "clear"
  /\ LET a == Clean(fl_flck[flip[p]], p)
     IN Leave(p, "ok", a.chain, blkpid, a.woken)
  /\ UNCHANGED <<fl_vp, fl_refcnt, flip>>

(* getflck() looks, and changes nothing but the reference. *)
getflck(p) ==
  /\ pc[p] = "clear"
  /\ pc' = [pc EXCEPT ![p] = "leave"]
  /\ UNCHANGED <<fl_vp, fl_refcnt, chainVars, flip, req, retval>>

(* Mutant: a header without locks is freed under those who refer to it. *)
FreeUnlocked(p) ==
  /\ pc[p] = "leave"
  /\ fl_refcnt' = [fl_refcnt EXCEPT ![flip[p]] = @ - 1]
  /\ fl_vp' = IF fl_flck[flip[p]] = <<>> THEN [fl_vp EXCEPT ![flip[p]] = None] ELSE fl_vp
  /\ pc' = [pc EXCEPT ![p] = "idle"]
  /\ flip' = [flip EXCEPT ![p] = None]
  /\ retval' = [retval EXCEPT ![p] = "none"]
  /\ UNCHANGED <<chainVars, req>>

(* freefid() drops the reference, and the header with it when it was the  *)
(* last one and there are no locks.                                        *)
freefid(p) ==
  /\ pc[p] = "leave"
  /\ LET h == flip[p] IN
       /\ fl_refcnt' = [fl_refcnt EXCEPT ![h] = @ - 1]
       /\ fl_vp' = IF fl_refcnt[h] <= 1 /\ fl_flck[h] = <<>>
                   THEN [fl_vp EXCEPT ![h] = None] ELSE fl_vp
  /\ pc' = [pc EXCEPT ![p] = "idle"]
  /\ flip' = [flip EXCEPT ![p] = None]
  /\ retval' = [retval EXCEPT ![p] = "none"]
  /\ UNCHANGED <<chainVars, req>>

Next == \E p \in Proc : \/ BeginSet(p) \/ BeginClear(p)
                        \/ Set(p) \/ Resume(p) \/ Interrupt(p) \/ Interrupted(p)
                        \/ Unlock(p) \/ cleanlocks(p) \/ getflck(p) \/ freefid(p)

Spec == Init /\ [][Next]_vars
-----------------------------------------------------------------------------
(* A process is only asleep on a lock that still shuts out the request it  *)
(* sleeps for: whoever deletes or cuts back a lock in flckadj() wakes all  *)
(* that might now go ahead.                                                *)
SleepersBlocked ==
  \A p \in Proc : pc[p] = "asleep" =>
    \E i \in DOMAIN fl_flck[flip[p]] :
      LET f == fl_flck[flip[p]][i] IN p \in f.wait /\ Conflict(f, p, req[p])

(* The owner of the lock a process is asleep on. *)
WaitsFor(p, q) ==
  pc[p] = "asleep" /\ \E i \in DOMAIN fl_flck[flip[p]] :
    LET f == fl_flck[flip[p]][i] IN p \in f.wait /\ f.pid = q

(* deadflck() keeps processes from sleeping on each other's locks in a     *)
(* circle, and it never meets a circle on sleeplcks, where it would spin   *)
(* with fl_lock and sleeplcks.fl_lock held.                                *)
NoSleepCycle ==
  \A p \in Proc :
    /\ blkpid[p] # None => p \notin Chased(blkpid, blkpid[p])
    /\ \A q \in Proc : WaitsFor(p, q) => blkpid[p] = q

(* fl_refcnt keeps the header of a file from being freed and reused under  *)
(* a process that has found it and does not hold its lock: the header      *)
(* counts the processes that refer to it, and a free one has no locks.     *)
HeaderStays ==
  \A h \in Flino :
    /\ fl_refcnt[h] = Cardinality({p \in Proc : flip[p] = h})
    /\ fl_vp[h] = None <=> fl_refcnt[h] = 0 /\ fl_flck[h] = <<>>
    /\ fl_vp[h] # None => \A g \in Flino \ {h} : fl_vp[g] # fl_vp[h]

(* The bytes a chain locks. *)
LockedBytes(h) ==
  UNION {LET r == fl_flck[h][i]
         IN {<<r.pid, fl_vp[h], b, r.type>> : b \in r.s .. r.e - 1} :
         i \in DOMAIN fl_flck[h]}

(* The chains and flckadj() implement locks on bytes: setflck() gives a    *)
(* process exactly the bytes it asks for, and only when no other process   *)
(* has a lock on them that excludes it; nothing else changes.              *)
Locks == INSTANCE RecordLocks WITH
  Byte <- 0 .. MaxEnd - 1,
  held <- UNION {LockedBytes(h) : h \in Flino},
  out <- retval
LocksSpec == Locks!Spec
=============================================================================
