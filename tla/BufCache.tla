------------------------------ MODULE BufCache ------------------------------
(***************************************************************************)
(* The buffer cache (common/sys/vfs_bio.c).                                *)
(*                                                                         *)
(* A buffer is free (on one of two free lists), allocated to a process, or *)
(* in asynchronous I/O.  What is done under buf_lists is one step.  What a *)
(* process does to a buffer it has allocated concerns no other process, so *)
(* it joins the step before, but for the time between the lock and the new *)
(* flags of a reassigned buffer.  The wake-ups brelse() does after it gave *)
(* up the lock join the step of the lock: processes that queue in between  *)
(* are only woken once more.                                               *)
(*                                                                         *)
(* One vnode, whose blocks all have one size: brealloc() finds nothing to  *)
(* do.  No magtape and no NFS reference counts.                            *)
(***************************************************************************)
EXTENDS FiniteSets, SequencesExt

CONSTANTS Proc,        \* processes
          Buf,         \* buf: the buffer headers
          Blk,         \* the blocks of the vnode
          Ahead,       \* the block to read ahead with a block, or None
          Calls,       \* the functions each process calls
          None

Functions == {"bread", "breada", "getblk", "baddr", "geteblk",
              "blkflush", "blkinval", "bflush", "binval", "binvalfree"}

ASSUME BufAssumption == IsFiniteSet(Buf)
ASSUME NoneAssumption == None \notin Proc \cup Buf \cup Blk \cup Functions
ASSUME AheadAssumption ==
  Ahead \in [Blk -> Blk \cup {None}] /\ \A k \in Blk : Ahead[k] # k
ASSUME CallsAssumption == Calls \in [Proc -> SUBSET Functions]

VARIABLES
  id,          \* (b_vp, b_blkno) of a buffer, None when b_vp is NULLVP
  b_flags,
  iodone,      \* BIODONE: the count of b_iowait
  io,          \* the transfer a driver has in hand for a buffer
  lru, age,    \* bfreelist[BQ_LRU], bfreelist[BQ_AGE]
  b_alloc,     \* the processes queued for a buffer
  invals,      \* buf_invals: the process in bflush() or binval()
  pc, call, blkno, bp,  \* of a process: place, function, argument, buffer
  kept,        \* the first buffer of breada() while it reads ahead
  current,     \* buffers that hold what was last put into their block
  written,     \* blocks whose last contents are on the disk
  unchanged    \* processes in blkflush(), their block not changed since

lists == <<lru, age>>
procs == <<pc, call, blkno, bp, kept>>
data == <<current, written, unchanged>>
vars == <<id, b_flags, iodone, io, lists, b_alloc, invals, procs, data>>

Flags == {"DELWRI", "INVAL", "ERROR", "ASYNC", "AGE"}
Bad == {"INVAL", "ERROR"}
Places == {"idle", "loop", "asleep", "got", "stolen", "nobuf",
           "biowait", "bwrite", "hold"}
Free == ToSet(age \o lru)                  \* BAVAIL

TypeOK ==
  /\ id \in [Buf -> Blk \cup {None}]
  /\ b_flags \in [Buf -> SUBSET Flags]
  /\ iodone \in [Buf -> BOOLEAN]
  /\ io \in [Buf -> {"none", "read", "write"}]
  /\ {lru, age} \subseteq Seq(Buf) /\ IsInjective(age \o lru)
  /\ \A b \in Buf : b_alloc[b] \in Seq(Proc) /\ IsInjective(b_alloc[b])
  /\ invals \in Proc \cup {None}
  /\ pc \in [Proc -> Places] /\ call \in [Proc -> Functions \cup {None}]
  /\ blkno \in [Proc -> Blk \cup {None}]
  /\ {bp, kept} \subseteq [Proc -> Buf \cup {None}]
  /\ current \subseteq Buf /\ written \subseteq Blk /\ unchanged \subseteq Proc

(* binit(): the headers are alike, they are freed in any order. *)
Init ==
  /\ id = [b \in Buf |-> None]
  /\ b_flags = [b \in Buf |-> {"INVAL"}]
  /\ iodone = [b \in Buf |-> FALSE]
  /\ io = [b \in Buf |-> "none"]
  /\ lru = <<>> /\ age \in SetToSeqs(Buf)
  /\ b_alloc = [b \in Buf |-> <<>>]
  /\ invals = None
  /\ pc = [p \in Proc |-> "idle"]
  /\ call = [p \in Proc |-> None]
  /\ blkno = [p \in Proc |-> None]
  /\ bp = [p \in Proc |-> None]
  /\ kept = [p \in Proc |-> None]
  /\ current = {} /\ written = Blk /\ unchanged = {}
-----------------------------------------------------------------------------
(* What the functions do to a buffer and to the process that runs them.    *)
(* Each operator gives the next values of some of the variables.           *)

Goto(p, place) == [pc EXCEPT ![p] = place]
Changed(k) == {p \in unchanged : blkno[p] = k}

(* A process is done with its function. *)
Leave(p) ==
  /\ call' = [call EXCEPT ![p] = None]
  /\ blkno' = [blkno EXCEPT ![p] = None]
  /\ bp' = [bp EXCEPT ![p] = None]
  /\ unchanged' = unchanged \ {p}
  /\ UNCHANGED kept

(* A free list without buffer b. *)
Without(list, b) ==
  IF b \in ToSet(list) THEN RemoveAt(list, CHOOSE k \in DOMAIN list : list[k] = b)
  ELSE list

(* Mutant: a buffer stays on the list of aged buffers when it is taken. *)
notavailLru(b) == lru' = Without(lru, b) /\ UNCHANGED age

(* notavail() *)
notavail(b) ==
  /\ lru' = Without(lru, b)
  /\ age' = Without(age, b)

(* Mutant: brelse wakes only one of the processes that wait for a buffer. *)
WakeOne(next) ==
  IF \E p \in Proc : next[p] = "nobuf"
  THEN [next EXCEPT ![CHOOSE p \in Proc : next[p] = "nobuf"] = "loop"]
  ELSE next

(* vall_sema(&buf_wait) *)
WakeAll(next) == [p \in Proc |-> IF next[p] = "nobuf" THEN "loop" ELSE next[p]]

(* brelse() of buffer b with flags f, when the caller goes on at next: the *)
(* first process that waits for the buffer gets it, else it is freed.      *)
brelse(b, f, next) ==
  LET bad == f \cap Bad # {}
      off == {"ASYNC", "AGE"}
  IN /\ id' = [id EXCEPT ![b] = IF bad THEN None ELSE @]
     /\ IF b_alloc[b] # <<>>
        THEN /\ b_flags' = [b_flags EXCEPT ![b] = f \ off]
             /\ b_alloc' = [b_alloc EXCEPT ![b] = Tail(@)]
             /\ pc' = [next EXCEPT ![Head(b_alloc[b])] = "got"]
             /\ UNCHANGED lists
        ELSE /\ b_flags' = [b_flags EXCEPT
                              ![b] = f \ (off \cup IF bad THEN {"DELWRI"} ELSE {})]
             /\ pc' = WakeAll(next)
             /\ UNCHANGED b_alloc
             /\ CASE bad -> age' = <<b>> \o age /\ UNCHANGED lru
                  [] ~bad /\ "AGE" \in f -> age' = Append(age, b) /\ UNCHANGED lru
                  [] OTHER -> lru' = Append(lru, b) /\ UNCHANGED age

(* bwrite() up to the strategy routine. *)
bwrite(b, f) ==
  /\ b_flags' = [b_flags EXCEPT
       ![b] = (f \ {"ERROR", "DELWRI"}) \cup IF "DELWRI" \in f THEN {"AGE"} ELSE {}]
  /\ iodone' = [iodone EXCEPT ![b] = FALSE]
  /\ io' = [io EXCEPT ![b] = "write"]

(* p_sema_v_lock(&b->b_alloc, ..., &buf_lists) *)
SleepFor(p, b) ==
  /\ b_alloc' = [b_alloc EXCEPT ![b] = Append(@, p)]
  /\ bp' = [bp EXCEPT ![p] = b]
  /\ pc' = Goto(p, "asleep")
  /\ UNCHANGED <<id, b_flags, iodone, io, lists, invals, call, blkno, kept, data>>
-----------------------------------------------------------------------------
(* A process calls one of the functions. *)
Call(p) ==
  /\ pc[p] = "idle"
  /\ \E f \in Calls[p] :
       /\ call' = [call EXCEPT ![p] = f]
       /\ IF f \in {"geteblk", "bflush", "binval", "binvalfree"}
          THEN UNCHANGED blkno
          ELSE \E k \in Blk : blkno' = [blkno EXCEPT ![p] = k]
       /\ IF f \in {"bflush", "binval"}      \* p_sema(&buf_invals)
          THEN invals = None /\ invals' = p
          ELSE UNCHANGED invals
       /\ unchanged' = IF f = "blkflush" THEN unchanged \cup {p} ELSE unchanged
  /\ pc' = Goto(p, "loop")
  /\ UNCHANGED <<id, b_flags, iodone, io, lists, b_alloc, bp, kept, current, written>>

(* getblk(): the block it is to find, its callers, and a process in it. *)
Wanted(p) == IF kept[p] # None THEN Ahead[blkno[p]] ELSE blkno[p]
Getters == {"bread", "breada", "getblk", "baddr"}
InGetblk(p, place) == pc[p] = place /\ call[p] \in Getters
Hits(p) == {b \in Buf : id[b] = Wanted(p)}

(* breada() has started the read-ahead, or none is to be: wait for block b.*)
ReadDone(p, b, done) ==
  /\ pc' = Goto(p, IF done THEN "hold" ELSE "biowait")
  /\ bp' = [bp EXCEPT ![p] = b]
  /\ kept' = [kept EXCEPT ![p] = None]

(* getblk() has returned buffer b, done = BIODONE(b), to bread(), breada() *)
(* (its block, or the block to read ahead) or another caller, which        *)
(* changes io, and the flags from f.                                       *)
GotBlk(p, b, f, done) ==
  /\ UNCHANGED <<call, blkno>>
  /\ iodone' = [iodone EXCEPT ![b] = done]
  /\ IF kept[p] # None
     THEN /\ b_flags' = [b_flags EXCEPT ![b] = f \cup {"ASYNC"}]
          /\ io' = [io EXCEPT ![b] = "read"]
          /\ ReadDone(p, kept[p], iodone[kept[p]])
     ELSE /\ b_flags' = [b_flags EXCEPT ![b] = f]
          /\ io' = [io EXCEPT ![b] =
                      IF call[p] \in {"bread", "breada"} /\ ~done THEN "read" ELSE @]
          /\ CASE call[p] = "breada" /\ Ahead[blkno[p]] # None ->
                    /\ pc' = Goto(p, "loop")
                    /\ kept' = [kept EXCEPT ![p] = b]
                    /\ bp' = [bp EXCEPT ![p] = None]
               [] call[p] = "bread" \/ (call[p] = "breada" /\ Ahead[blkno[p]] = None) ->
                    ReadDone(p, b, done)
               [] OTHER -> /\ pc' = Goto(p, "hold")
                           /\ bp' = [bp EXCEPT ![p] = b]
                           /\ UNCHANGED kept

(* getblk() finds the block; BG_NOHIT when it reads ahead. *)
Hit(p) ==
  /\ InGetblk(p, "loop")
  /\ \E b \in Hits(p) :
       CASE kept[p] # None ->
              /\ ReadDone(p, kept[p], iodone[kept[p]])
              /\ UNCHANGED <<id, b_flags, iodone, io, lists, b_alloc, invals, call, blkno, data>>
         [] kept[p] = None /\ b \notin Free -> SleepFor(p, b)
         [] OTHER ->
              /\ notavail(b)
              /\ GotBlk(p, b, b_flags[b], iodone[b])
              /\ UNCHANGED <<id, b_alloc, invals, data>>

(* Mutant: getblk does not look at the flags when it wakes. *)
WokenUnwary(p) ==
  /\ InGetblk(p, "got")
  /\ GotBlk(p, bp[p], b_flags[bp[p]], iodone[bp[p]])
  /\ UNCHANGED <<id, lists, b_alloc, invals, data>>

(* Mutant: getblk drops a bad buffer it was handed without releasing it. *)
WokenDrops(p) ==
  /\ InGetblk(p, "got")
  /\ LET b == bp[p] IN
     IF b_flags[b] \cap Bad # {}
     THEN /\ pc' = Goto(p, "loop")
          /\ bp' = [bp EXCEPT ![p] = None]
          /\ UNCHANGED <<id, b_flags, iodone, io, lists, b_alloc, invals, call, blkno, kept, data>>
     ELSE /\ GotBlk(p, b, b_flags[b], iodone[b])
          /\ UNCHANGED <<id, lists, b_alloc, invals, data>>

(* getblk() wakes with the buffer it slept for. *)
Woken(p) ==
  /\ InGetblk(p, "got")
  /\ LET b == bp[p] IN
     IF b_flags[b] \cap Bad # {}
     THEN /\ brelse(b, b_flags[b], Goto(p, "loop"))
          /\ bp' = [bp EXCEPT ![p] = None]
          /\ UNCHANGED <<iodone, io, invals, call, blkno, kept, data>>
     ELSE /\ GotBlk(p, b, b_flags[b], iodone[b])
          /\ UNCHANGED <<id, lists, b_alloc, invals, data>>

(* getblk() and geteblk() (getnewbuf()) when the block is in no buffer. *)
Misses(p) ==
  /\ pc[p] = "loop"
  /\ call[p] = "geteblk" \/ (call[p] \in Getters \ {"baddr"} /\ Hits(p) = {})

NoBuf(p) ==
  /\ Misses(p) /\ Free = {}
  /\ pc' = Goto(p, "nobuf")
  /\ UNCHANGED <<id, b_flags, iodone, io, lists, b_alloc, invals, call, blkno, bp, kept, data>>

(* The first free buffer is dirty: write it and look again. *)
Clean(p) ==
  /\ Misses(p) /\ Free # {}
  /\ LET b == Head(age \o lru) IN
       /\ "DELWRI" \in b_flags[b]
       /\ notavail(b)
       /\ bwrite(b, b_flags[b] \cup {"ASYNC"})
  /\ UNCHANGED <<id, b_alloc, invals, procs, data>>

(* Mutant: a dirty buffer is taken for another block as it is. *)
StealDirty(p) ==
  /\ Misses(p) /\ Free # {}
  /\ LET b == Head(age \o lru) IN
       /\ notavail(b)
       /\ id' = [id EXCEPT ![b] = IF call[p] = "geteblk" THEN None ELSE Wanted(p)]
       /\ bp' = [bp EXCEPT ![p] = b]
       /\ pc' = Goto(p, "stolen")
       /\ current' = current \ {b}
  /\ UNCHANGED <<b_flags, iodone, io, b_alloc, invals, call, blkno, kept, written, unchanged>>

(* The first free buffer becomes a buffer of the block. *)
Steal(p) ==
  /\ Misses(p) /\ Free # {}
  /\ LET b == Head(age \o lru) IN
       /\ "DELWRI" \notin b_flags[b]
       /\ notavail(b)
       /\ id' = [id EXCEPT ![b] = IF call[p] = "geteblk" THEN None ELSE Wanted(p)]
       /\ bp' = [bp EXCEPT ![p] = b]
       /\ pc' = Goto(p, "stolen")
       /\ current' = current \ {b}
  /\ UNCHANGED <<b_flags, iodone, io, b_alloc, invals, call, blkno, kept, written, unchanged>>

(* Mutant: the buffer is still "done" for its new block. *)
StolenDone(p) ==
  /\ pc[p] = "stolen"
  /\ GotBlk(p, bp[p], IF call[p] = "geteblk" THEN {"INVAL"} ELSE {}, iodone[bp[p]])
  /\ UNCHANGED <<id, lists, b_alloc, invals, data>>

(* Its flags, after the lists are unlocked. *)
Stolen(p) ==
  /\ pc[p] = "stolen"
  /\ LET b == bp[p] IN
       IF call[p] = "geteblk"
       THEN GotBlk(p, b, {"INVAL"}, iodone[b])
       ELSE GotBlk(p, b, {}, FALSE)
  /\ UNCHANGED <<id, lists, b_alloc, invals, data>>

(* baddr(): BG_NOMISS *)
Absent(p) ==
  /\ InGetblk(p, "loop") /\ call[p] = "baddr" /\ Hits(p) = {}
  /\ pc' = Goto(p, "idle")
  /\ Leave(p)
  /\ UNCHANGED <<id, b_flags, iodone, io, lists, b_alloc, invals, current, written>>
-----------------------------------------------------------------------------
(* The transfer of a buffer ends. *)

(* biowait(): in bread() and breada(), and in bwrite(), which then releases*)
(* the buffer.                                                             *)
biowait(p) ==
  /\ pc[p] = "biowait" /\ iodone[bp[p]]
  /\ pc' = Goto(p, "hold")
  /\ UNCHANGED <<id, b_flags, iodone, io, lists, b_alloc, invals, call, blkno, bp, kept, data>>

Written(p) ==
  /\ pc[p] = "bwrite" /\ iodone[bp[p]]
  /\ brelse(bp[p], b_flags[bp[p]], Goto(p, "idle"))
  /\ Leave(p)
  /\ UNCHANGED <<iodone, io, invals, current, written>>

(* The last contents of a buffer are given up with it, or its block read   *)
(* back as it is on the disk.                                              *)
Discard(b) ==
  /\ current' = current \ {b}
  /\ written' = IF b \in current THEN written \cup {id[b]} ELSE written

(* biodone(), from the interrupt of the driver, after it set B_ERROR or    *)
(* moved the data.                                                         *)
biodone(b) ==
  /\ io[b] # "none"
  /\ io' = [io EXCEPT ![b] = "none"]
  /\ iodone' = [iodone EXCEPT ![b] = TRUE]
  /\ \E f \in {b_flags[b], b_flags[b] \cup {"ERROR"}} :
       /\ CASE f \cap Bad # {} -> Discard(b)
            [] f \cap Bad = {} /\ io[b] = "read" ->
                 /\ current' = IF id[b] \in written THEN current \cup {b} ELSE current
                 /\ UNCHANGED written
            [] OTHER -> /\ written' = IF b \in current THEN written \cup {id[b]} ELSE written
                        /\ UNCHANGED current
       /\ IF "ASYNC" \in f
          THEN brelse(b, f, pc)
          ELSE /\ b_flags' = [b_flags EXCEPT ![b] = f]
               /\ UNCHANGED <<id, lists, b_alloc, pc>>
  /\ UNCHANGED <<invals, call, blkno, bp, kept, unchanged>>
-----------------------------------------------------------------------------
(* What the file systems do with the buffer they got (rwip()); files that  *)
(* are mapped, and direct I/O, invalidate what baddr() finds.              *)

Release(p) ==
  /\ pc[p] = "hold" /\ call[p] # "baddr"
  /\ \E f \in {{}, {"AGE"}} : brelse(bp[p], b_flags[bp[p]] \cup f, Goto(p, "idle"))
  /\ Leave(p)
  /\ UNCHANGED <<iodone, io, invals, current, written>>

Invalidate(p) ==
  /\ pc[p] = "hold" /\ call[p] = "baddr"
  /\ brelse(bp[p], b_flags[bp[p]] \cup {"INVAL"}, Goto(p, "idle"))
  /\ Discard(bp[p])
  /\ Leave(p)
  /\ UNCHANGED <<iodone, io, invals>>

WriteBack(p) ==
  /\ pc[p] = "hold" /\ call[p] = "baddr" /\ "DELWRI" \in b_flags[bp[p]]
  /\ bwrite(bp[p], b_flags[bp[p]] \cup {"INVAL"})
  /\ pc' = Goto(p, "bwrite")
  /\ UNCHANGED <<id, lists, b_alloc, invals, call, blkno, bp, kept, data>>

(* The process puts new contents into its buffer. *)
Change(p) ==
  /\ pc[p] = "hold" /\ call[p] \in {"bread", "getblk"}
  /\ "ERROR" \notin b_flags[bp[p]]
  /\ current' = (current \ {b \in Buf : id[b] = id[bp[p]]}) \cup {bp[p]}
  /\ written' = written \ {id[bp[p]]}
  /\ call' = [call EXCEPT ![p] = None]
  /\ blkno' = [blkno EXCEPT ![p] = None]
  /\ unchanged' = unchanged \ Changed(id[bp[p]])
  /\ UNCHANGED kept

Bwrite(p) ==
  /\ Change(p)
  /\ bwrite(bp[p], b_flags[bp[p]])
  /\ pc' = Goto(p, "bwrite")
  /\ UNCHANGED <<id, lists, b_alloc, invals, bp>>

bawrite(p) ==
  /\ Change(p)
  /\ bwrite(bp[p], b_flags[bp[p]] \cup {"ASYNC", "AGE"})
  /\ bp' = [bp EXCEPT ![p] = None]
  /\ pc' = Goto(p, "idle")
  /\ UNCHANGED <<id, lists, b_alloc, invals>>

bdwrite(p) ==
  /\ Change(p)
  /\ iodone' = [iodone EXCEPT ![bp[p]] = TRUE]
  /\ brelse(bp[p], b_flags[bp[p]] \cup {"DELWRI"}, Goto(p, "idle"))
  /\ bp' = [bp EXCEPT ![p] = None]
  /\ UNCHANGED <<io, invals>>
-----------------------------------------------------------------------------
In(p, place, f) == pc[p] = place /\ call[p] = f

(* A function that finds nothing more to do. *)
Done(p) ==
  /\ pc' = Goto(p, "idle")
  /\ Leave(p)
  /\ invals' = IF invals = p THEN None ELSE invals
  /\ UNCHANGED <<id, b_flags, iodone, io, lists, b_alloc, current, written>>

(* bwrite() of a free buffer by a process that does not keep it. *)
WriteAsync(b) ==
  /\ notavail(b)
  /\ bwrite(b, b_flags[b] \cup {"ASYNC"})
  /\ UNCHANGED <<id, b_alloc, invals, procs, data>>

(* bwrite() of the dirty buffer p has allocated. *)
WriteSync(p, b) ==
  /\ bwrite(b, b_flags[b])
  /\ bp' = [bp EXCEPT ![p] = b]
  /\ pc' = Goto(p, "bwrite")
  /\ UNCHANGED <<id, b_alloc, invals, call, blkno, kept, data>>

(* Mutant: blkflush leaves a buffer in use to its user. *)
FlushIdleOnly(p) ==
  /\ In(p, "loop", "blkflush")
  /\ LET dirty == {b \in Buf : id[b] = blkno[p] /\ b \in Free /\ "DELWRI" \in b_flags[b]}
     IN \/ dirty = {} /\ Done(p)
        \/ \E b \in dirty : notavail(b) /\ WriteSync(p, b)

blkflush(p) ==
  /\ In(p, "loop", "blkflush")
  /\ LET found == {b \in Buf : id[b] = blkno[p]}
         dirty == {b \in found : "DELWRI" \in b_flags[b]}
     IN \/ found \subseteq Free \ dirty /\ Done(p)
        \/ \E b \in found \ Free : SleepFor(p, b)
        \/ \E b \in found \cap Free \cap dirty : notavail(b) /\ WriteSync(p, b)

blkflushWoken(p) ==
  /\ In(p, "got", "blkflush")
  /\ LET b == bp[p] IN
     IF b_flags[b] \cap Bad = {} /\ "DELWRI" \in b_flags[b]
     THEN WriteSync(p, b) /\ UNCHANGED lists
     ELSE /\ brelse(b, b_flags[b], Goto(p, "idle"))
          /\ Leave(p)
          /\ UNCHANGED <<iodone, io, invals, current, written>>

(* A buffer p has allocated, in blkinval(), binval() or binvalfree(). *)
Inval(p, b) ==
  /\ brelse(b, b_flags[b] \cup {"INVAL"}, Goto(p, "loop"))
  /\ bp' = [bp EXCEPT ![p] = None]
  /\ UNCHANGED <<iodone, io, invals, call, blkno, kept, unchanged>>

(* brelse() of a buffer that is taken off its free list in the same step.  *)
FreeInval(b) ==
  /\ b_flags' = [b_flags EXCEPT ![b] = {"INVAL"}]
  /\ id' = [id EXCEPT ![b] = None]
  /\ lru' = Without(lru, b)
  /\ age' = <<b>> \o Without(age, b)
  /\ UNCHANGED <<iodone, io, b_alloc, invals, procs, unchanged>>

blkinval(p) ==
  /\ In(p, "loop", "blkinval")
  /\ LET found == {b \in Buf : id[b] = blkno[p]} IN
     \/ found = {} /\ Done(p)
     \/ \E b \in found \ Free : SleepFor(p, b)
     \/ \E b \in found \cap Free : FreeInval(b) /\ Discard(b)

blkinvalWoken(p) ==
  /\ In(p, "got", "blkinval")
  /\ Inval(p, bp[p])
  /\ Discard(bp[p])

bflush(p) ==
  /\ In(p, "loop", "bflush")
  /\ LET dirty == {b \in Free : id[b] # None /\ "DELWRI" \in b_flags[b]} IN
     \/ dirty = {} /\ Done(p)
     \/ \E b \in dirty : WriteAsync(b)

(* binval() and binvalfree() do not mean to lose anything. *)
InvalClean(b) == current' = current \ {b} /\ UNCHANGED written

binval(p) ==
  /\ In(p, "loop", "binval")
  /\ LET found == {b \in Buf : id[b] # None} IN
     \/ found = {} /\ Done(p)
     \/ \E b \in found \ Free : SleepFor(p, b)
     \/ \E b \in found \cap Free :
          IF "DELWRI" \in b_flags[b]
          THEN \* brelse() puts it back behind the others
               /\ lru' = Append(Without(lru, b), b)
               /\ age' = Without(age, b)
               /\ invals' = None
               /\ pc' = Goto(p, "idle")
               /\ Leave(p)
               /\ UNCHANGED <<id, b_flags, iodone, io, b_alloc, current, written>>
          ELSE FreeInval(b) /\ InvalClean(b)

binvalWoken(p) ==
  /\ In(p, "got", "binval")
  /\ IF "DELWRI" \in b_flags[bp[p]]
     THEN /\ brelse(bp[p], b_flags[bp[p]], Goto(p, "idle"))
          /\ Leave(p)
          /\ invals' = None
          /\ UNCHANGED <<iodone, io, current, written>>
     ELSE Inval(p, bp[p]) /\ InvalClean(bp[p])

binvalfree(p) ==
  /\ In(p, "loop", "binvalfree")
  /\ LET found == {k \in DOMAIN (lru \o age) : id[(lru \o age)[k]] # None} IN
     \/ found = {} /\ Done(p)
     \/ \E k \in found :
          LET b == (lru \o age)[k] IN
          /\ \A j \in found : k <= j
          /\ IF "DELWRI" \in b_flags[b] THEN WriteAsync(b)
             ELSE FreeInval(b) /\ InvalClean(b)
-----------------------------------------------------------------------------
Next ==
  \/ \E p \in Proc :
       \/ Call(p) \/ Hit(p) \/ Woken(p) \/ NoBuf(p) \/ Clean(p) \/ Steal(p)
       \/ Stolen(p) \/ Absent(p) \/ biowait(p) \/ Written(p)
       \/ Release(p) \/ Invalidate(p) \/ WriteBack(p) \/ Bwrite(p) \/ bawrite(p) \/ bdwrite(p)
       \/ blkflush(p) \/ blkflushWoken(p) \/ blkinval(p) \/ blkinvalWoken(p)
       \/ bflush(p) \/ binval(p) \/ binvalWoken(p) \/ binvalfree(p)
  \/ \E b \in Buf : biodone(b)

Spec == Init /\ [][Next]_vars
-----------------------------------------------------------------------------
(* A buffer is in one place: free with nobody queued for it, allocated to  *)
(* one process, or in asynchronous I/O.  brelse() and getblk() hand it     *)
(* over without a lock held by the process that gets it.                   *)
Holders(b) ==
  {p \in Proc : (bp[p] = b /\ pc[p] # "asleep") \/ kept[p] = b}
OneOwner ==
  \A b \in Buf :
    CASE b \in Free -> Holders(b) = {} /\ io[b] = "none" /\ b_alloc[b] = <<>>
      [] b \notin Free /\ io[b] # "none" /\ "ASYNC" \in b_flags[b] -> Holders(b) = {}
      [] OTHER -> Cardinality(Holders(b)) = 1

(* A block is never in two buffers ("A disk block must be mapped by at     *)
(* most one buffer", vfs_bio.c:742), and a buffer that getblk() returns is *)
(* that of the block it was asked for, though getblk() does not look at    *)
(* the identity again after it slept for the buffer.                       *)
OneBuffer ==
  /\ \A b, c \in Buf : id[b] = id[c] /\ id[b] # None => b = c
  /\ \A p \in Proc : pc[p] \in {"biowait", "hold"} /\ call[p] # "geteblk"
                        => id[bp[p]] = blkno[p]

(* What a process reads, or will find in the cache, is what was last put   *)
(* into the block.                                                         *)
ReadsCurrent ==
  /\ \A p \in {p \in Proc : pc[p] = "hold" /\ call[p] \in {"bread", "breada"}} :
       "ERROR" \notin b_flags[bp[p]] => bp[p] \in current
  /\ \A b \in Free : id[b] # None /\ iodone[b] => b \in current

(* No contents are lost but by a write error or blkinval(): until they are *)
(* on the disk a buffer of the block has them, which is being written, or  *)
(* marked to be, whoever allocates, frees or takes over buffers.           *)
NoLostWrite ==
  \A k \in Blk \ written :
    \E b \in current : id[b] = k /\ (io[b] = "write" \/ "DELWRI" \in b_flags[b])

(* No process sleeps on buf_wait while a buffer is free. *)
NoFreeBufMissed == \A p \in Proc : pc[p] = "nobuf" => Free = {}

(* When blkflush() returns, what the block had when it was called is on    *)
(* the disk, also if the buffer was in use or being written.               *)
FlushWrites ==
  [][\A p \in unchanged : p \notin unchanged' /\ pc'[p] = "idle"
                             => blkno[p] \in written']_vars
=============================================================================
