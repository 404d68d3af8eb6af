------------------------------ MODULE SysVSem ------------------------------
(***************************************************************************)
(* System V semaphores (common/sys/vipc_sem.c): semget(), semop(),         *)
(* semctl() and semexit(), over the resource map of the semaphores.        *)
(*                                                                         *)
(* A call finds its set with semconv(), which returns it locked            *)
(* (semid_lock).  semop() does one operation after the other, keeps the    *)
(* adjustments to be made when the process exits in its undo block, and    *)
(* takes back what it did when an operation must wait or fails.  Undo      *)
(* blocks in use are on a chain with a lock of its own (semunp_lock) that  *)
(* semunrm() walks: so an operation is a step, and the chain may change in *)
(* between.  What is done under semid_lock alone is one step.              *)
(*                                                                         *)
(* Left out: permissions, user memory that faults (but in SETALL), the     *)
(* calls that only look, times and process ids.                            *)
(***************************************************************************)
EXTENDS RMap, FiniteSets, FiniteSetsExt

CONSTANTS Proc,      \* processes
          None,
          semmni,    \* seminfo: sets,
          semmns,    \*          semaphores,
          semmap,    \*          the size of their map,
          semmnu,    \*          undo blocks,
          semume,    \*          entries in a block,
          semvmx,    \*          the largest value,
          semaem,    \*          the largest adjustment
          OpLists,   \* the lists of operations semop() is called with
          Sizes,     \* the sizes of sets semget() is called with
          Removable, \* sets IPC_RMID is called for
          Waiting,   \* sets on which operations may wait
          Reused,    \* slots semget() uses again after IPC_RMID
          Values,    \* what SETVAL and SETALL set semaphores to
          MaxSeq     \* bound on sem_perm.seq

Slot == 0 .. semmni - 1
Sem == 1 .. semmns
Op == [num : Nat, op : Int, undo : BOOLEAN, nowait : BOOLEAN]

ASSUME ProcAssumption == None \notin Proc /\ IsFiniteSet(Proc)
ASSUME InfoAssumption ==
  /\ {semmni, semmns, semmnu, semume, semvmx, semaem, MaxSeq} \subseteq Nat
  /\ semmap \in Nat /\ semmap >= 3 /\ semmns # 0
ASSUME CallAssumption ==
  /\ OpLists \subseteq Seq(Op)
  /\ Sizes \subseteq 1 .. semmns
  /\ {Removable, Waiting, Reused} \subseteq SUBSET Slot
  /\ Values \subseteq 0 .. semvmx

VARIABLES
  live,        \* sem_perm.mode & IPC_ALLOC
  seq,         \* sem_perm.seq
  sem_base, sem_nsems,
  semid_flag,  \* the set is held over a copy from user memory
  semid_lock,  \* the process that holds the lock of the set
  freemap,     \* semmap
  semval,
  un_ent,      \* the undo entries of a process, sorted
  block,       \* processes that have an undo block
  chain,       \* processes whose block is on the chain
  pc, semid, ops, i,     \* of a process: place, and what it works on
  pushed,      \* it has put its empty block on the chain
  wait,        \* the semaphore and queue it sleeps on, or is going to
  start,       \* values and own entries when it locked the set
  net,         \* value a semaphore has when all adjustments are made
  lost         \* semaphores the map has dropped

setVars == <<live, seq, sem_base, sem_nsems, semid_flag, semid_lock, freemap, lost>>
undoVars == <<un_ent, block, chain>>
callVars == <<semid, ops, i, pushed, wait, start>>
vars == <<setVars, semval, undoVars, pc, callVars, net>>

Working == {"ops", "undo"}
Aoe == -semaem .. semaem
TypeOK ==
  /\ live \in [Slot -> BOOLEAN] /\ semid_flag \in [Slot -> BOOLEAN]
  /\ seq \in [Slot -> 0 .. MaxSeq]
  /\ sem_base \in [Slot -> Nat] /\ sem_nsems \in [Slot -> Nat]
  /\ semid_lock \in [Slot -> Proc \cup {None}]
  /\ semval \in [Sem -> 0 .. semvmx] /\ net \in [Sem -> Int]
  /\ lost \subseteq Sem /\ Len(freemap) <= semmap - 2
  /\ \A p \in Proc : /\ Len(un_ent[p]) <= semume
                     /\ \A k \in DOMAIN un_ent[p] : un_ent[p][k].aoe \in Aoe \ {0}
  /\ {block, chain} \subseteq SUBSET Proc /\ Cardinality(block) <= semmnu
  /\ pc \in [Proc -> Working \cup {"idle", "asleep", "again", "setall", "rmid", "rmfree", "exit"}]
  /\ semid \in [Proc -> Nat] /\ i \in [Proc -> Nat] /\ pushed \in [Proc -> BOOLEAN]

(* seminit() *)
Init ==
  /\ live = [s \in Slot |-> FALSE] /\ semid_flag = [s \in Slot |-> FALSE]
  /\ seq = [s \in Slot |-> 0]
  /\ sem_base = [s \in Slot |-> 0] /\ sem_nsems = [s \in Slot |-> 0]
  /\ semid_lock = [s \in Slot |-> None]
  /\ freemap = rminit(semmns, 1) /\ lost = {}
  /\ semval = [n \in Sem |-> 0] /\ net = [n \in Sem |-> 0]
  /\ un_ent = [p \in Proc |-> <<>>] /\ block = {} /\ chain = {}
  /\ pc = [p \in Proc |-> "idle"] /\ semid = [p \in Proc |-> 0]
  /\ ops = [p \in Proc |-> <<>>] /\ i = [p \in Proc |-> 0]
  /\ pushed = [p \in Proc |-> FALSE]
  /\ wait = [p \in Proc |-> None] /\ start = [p \in Proc |-> None]
-----------------------------------------------------------------------------
(* Sets. *)

SlotOf(id) == id % semmni
IdOf(s) == seq[s] * semmni + s
Exists(id) == live[SlotOf(id)] /\ IdOf(SlotOf(id)) = id
SemOf(id, num) == sem_base[SlotOf(id)] + num
SemsOf(s) == sem_base[s] .. sem_base[s] + sem_nsems[s] - 1

(* semconv() can go on: nobody has the set. *)
semconv(id) ==
  /\ Exists(id)
  /\ semid_lock[SlotOf(id)] = None /\ ~semid_flag[SlotOf(id)]
Lock(s, p) == semid_lock' = [semid_lock EXCEPT ![s] = p]

(* Place of p, and of the processes vall_sema() wakes. *)
Goto(p, place) == pc' = [pc EXCEPT ![p] = place]
GotoWaking(p, place, queues) ==
  pc' = [q \in Proc |-> CASE q = p -> place
                          [] q # p /\ pc[q] = "asleep" /\ wait[q] \in queues -> "again"
                          [] OTHER -> pc[q]]

(* A call is over, or the process sleeps: the rest is of no more use. *)
Forget(p) ==
  /\ ops' = [ops EXCEPT ![p] = <<>>] /\ i' = [i EXCEPT ![p] = 0]
  /\ wait' = [wait EXCEPT ![p] = None] /\ start' = [start EXCEPT ![p] = None]
  /\ semid' = [semid EXCEPT ![p] = 0]
  /\ UNCHANGED pushed

(* semget() of a new set, in the first slot that is free. *)
semget(p) ==
  /\ pc[p] = "idle"
  /\ \E s \in Slot, n \in Sizes :
       LET got == rmalloc(freemap, n) IN
       /\ ~live[s] /\ \A t \in Slot : t < s => live[t]
       /\ seq[s] > 0 => s \in Reused
       /\ got.addr # 0
       /\ semid_lock[s] = None
       /\ live' = [live EXCEPT ![s] = TRUE]
       /\ sem_base' = [sem_base EXCEPT ![s] = got.addr]
       /\ sem_nsems' = [sem_nsems EXCEPT ![s] = n]
       /\ freemap' = got.map
       /\ net' = [m \in Sem |-> IF m \in got.addr .. got.addr + n - 1 THEN 0 ELSE net[m]]
  /\ UNCHANGED <<seq, semid_flag, semid_lock, lost, semval, undoVars, pc, callVars>>
-----------------------------------------------------------------------------
(* Undo entries.                                                           *)

Entry(p, id, num) == SelectInSeq(un_ent[p], LAMBDA e : e.id = id /\ e.num = num)

(* What entries add to a semaphore, those of a process or of all. *)
Adjustment(entries, id, num) ==
  LET sum[k \in 0 .. Len(entries)] ==
        IF k = 0 THEN 0
        ELSE sum[k - 1] + IF entries[k].id = id /\ entries[k].num = num
                          THEN entries[k].aoe ELSE 0
  IN sum[Len(entries)]
Adjustments(entries, id, num) ==
  LET procs == SetToSeq(Proc)
      sum[k \in 0 .. Cardinality(Proc)] ==
        IF k = 0 THEN 0 ELSE sum[k - 1] + Adjustment(entries[procs[k]], id, num)
  IN sum[Cardinality(Proc)]

(* semaoe() fails: ERANGE, ENOSPC or EINVAL. *)
AoeFails(p, val, id, num) ==
  LET k == Entry(p, id, num) IN
  \/ val \notin Aoe
  \/ p \notin block /\ Cardinality(block) = semmnu
  \/ k = 0 /\ Len(un_ent[p]) >= semume
  \/ k # 0 /\ un_ent[p][k].aoe - val \notin Aoe

(* It puts an empty block on the chain before it adds the entry, with the  *)
(* block unlocked in between.                                              *)
MustPush(p) == un_ent[p] = <<>> /\ ~pushed[p]
Push(p) ==
  /\ block' = block \cup {p}
  /\ chain' = chain \cup {p}
  /\ pushed' = [pushed EXCEPT ![p] = TRUE]
  /\ UNCHANGED <<setVars, semval, un_ent, pc, semid, ops, i, wait, start, net>>

(* Mutant: an entry that comes to nothing stays. *)
semaoeKeeps(p, val, id, num) ==
  LET k == Entry(p, id, num)
      later == SelectInSeq(un_ent[p], LAMBDA e : e.id > id \/ (e.id = id /\ e.num > num))
      at == IF later = 0 THEN Len(un_ent[p]) + 1 ELSE later
  IN /\ un_ent' = [un_ent EXCEPT ![p] =
          IF k = 0 THEN InsertAt(@, at, [id |-> id, num |-> num, aoe |-> -val])
          ELSE [@ EXCEPT ![k].aoe = IF @ = val THEN @ ELSE @ - val]]
     /\ pushed' = [pushed EXCEPT ![p] = FALSE]
     /\ UNCHANGED <<block, chain>>

(* semaoe() succeeds. *)
semaoe(p, val, id, num) ==
  LET k == Entry(p, id, num)
      later == SelectInSeq(un_ent[p], LAMBDA e : e.id > id \/ (e.id = id /\ e.num > num))
      at == IF later = 0 THEN Len(un_ent[p]) + 1 ELSE later
      entries == CASE k = 0 -> InsertAt(un_ent[p], at, [id |-> id, num |-> num, aoe |-> -val])
                   [] k # 0 /\ un_ent[p][k].aoe = val -> RemoveAt(un_ent[p], k)
                   [] OTHER -> [un_ent[p] EXCEPT ![k].aoe = @ - val]
  IN /\ un_ent' = [un_ent EXCEPT ![p] = entries]
     /\ chain' = IF entries = <<>> THEN chain \ {p} ELSE chain
     /\ pushed' = [pushed EXCEPT ![p] = FALSE]
     /\ UNCHANGED block

(* semunrm(): the entries the blocks on the chain have for semaphores low  *)
(* to high of the set; blocks without entries leave the chain.             *)
Kept(entries, id, low, high) ==
  LET other(e) == e.id # id \/ e.num < low \/ e.num > high
      kept[k \in 0 .. Len(entries)] ==
        IF k = 0 THEN <<>>
        ELSE IF other(entries[k]) THEN Append(kept[k - 1], entries[k]) ELSE kept[k - 1]
  IN kept[Len(entries)]
semunrm(id, low, high) ==
  /\ un_ent' = [p \in Proc |-> IF p \in chain THEN Kept(un_ent[p], id, low, high)
                               ELSE un_ent[p]]
  /\ chain' = {p \in chain : Kept(un_ent[p], id, low, high) # <<>>}
  /\ UNCHANGED block
-----------------------------------------------------------------------------
(* semop() *)

Holds(p, s) == [vals |-> [num \in 0 .. sem_nsems[s] - 1 |-> semval[sem_base[s] + num]],
                adj  |-> [num \in 0 .. sem_nsems[s] - 1 |-> Adjustment(un_ent[p], IdOf(s), num)]]

(* semconv() has locked the set for p, which begins with its operations. *)
Begin(p, id, list) ==
  /\ Lock(SlotOf(id), p)
  /\ semid' = [semid EXCEPT ![p] = id]
  /\ ops' = [ops EXCEPT ![p] = list]
  /\ i' = [i EXCEPT ![p] = 1]
  /\ start' = [start EXCEPT ![p] = Holds(p, SlotOf(id))]
  /\ wait' = [wait EXCEPT ![p] = None]
  /\ Goto(p, "ops")
  /\ UNCHANGED <<live, seq, sem_base, sem_nsems, semid_flag, freemap, lost,
                 semval, undoVars, pushed, net>>

semop(p) ==
  /\ pc[p] = "idle"
  /\ \E s \in Slot, list \in OpLists :
       /\ live[s] /\ semconv(IdOf(s))
       /\ \A k \in DOMAIN list : list[k].num < sem_nsems[s]
       /\ s \in Waiting \/ \A k \in DOMAIN list : list[k].nowait
       /\ Begin(p, IdOf(s), list)

(* Awake: the set may be gone.  Then the lock is given up that semconv()   *)
(* has not taken.                                                          *)
Again(p) ==
  /\ pc[p] = "again"
  /\ \/ semconv(semid[p]) /\ Begin(p, semid[p], ops[p])
     \/ /\ ~Exists(semid[p])
        /\ Lock(SlotOf(semid[p]), None)
        /\ Goto(p, "idle") /\ Forget(p)
        /\ UNCHANGED <<live, seq, sem_base, sem_nsems, semid_flag, freemap, lost,
                       semval, undoVars, net>>

(* A signal ends the sleep. *)
Interrupt(p) ==
  /\ pc[p] = "asleep"
  /\ Goto(p, "idle") /\ Forget(p)
  /\ UNCHANGED <<setVars, semval, undoVars, net>>

(* Mutant: the largest value is not looked at. *)
CanDoUnbounded(op, val) ==
  CASE op.op > 0 -> TRUE
    [] op.op < 0 -> val >= -op.op
    [] OTHER -> val = 0

CanDo(op, val) ==
  CASE op.op > 0 -> val + op.op <= semvmx
    [] op.op < 0 -> val >= -op.op
    [] OTHER -> val = 0
MustWait(op, val) == op.op <= 0 /\ ~CanDo(op, val)
(* Mutant: who waits for zero is only woken by SETVAL. *)
QueuesUp(op, n, val) == IF op.op > 0 THEN {<<"semncnt_wait", n>>} ELSE {}

Queues(op, n, val) ==
  (IF op.op > 0 THEN {<<"semncnt_wait", n>>} ELSE {}) \cup
  (IF op.op # 0 /\ val = 0 THEN {<<"semzcnt_wait", n>>} ELSE {})

Current(p) == ops[p][i[p]]
CurrentSem(p) == SemOf(semid[p], Current(p).num)
AtOp(p, place) == pc[p] = place /\ i[p] \in DOMAIN ops[p]

PushFirst(p) ==
  /\ AtOp(p, "ops") \/ AtOp(p, "undo")
  /\ Current(p).undo /\ Current(p).op # 0
  /\ pc[p] = "ops" => CanDo(Current(p), semval[CurrentSem(p)])
  /\ ~AoeFails(p, Current(p).op, semid[p], Current(p).num)
  /\ MustPush(p)
  /\ Push(p)

(* One operation is done. *)
Do(p) ==
  /\ AtOp(p, "ops")
  /\ LET op == Current(p)
         n == CurrentSem(p)
         val == semval[n] + op.op
     IN /\ CanDo(op, semval[n])
        /\ IF op.undo /\ op.op # 0
           THEN /\ ~MustPush(p)
                /\ ~AoeFails(p, op.op, semid[p], op.num)
                /\ semaoe(p, op.op, semid[p], op.num)
           ELSE UNCHANGED <<undoVars, pushed>>
        /\ semval' = [semval EXCEPT ![n] = val]
        /\ GotoWaking(p, "ops", Queues(op, n, val))
  /\ i' = [i EXCEPT ![p] = @ + 1]
  /\ UNCHANGED <<setVars, semid, ops, wait, start, net>>

(* One operation must wait or fails: those before it are taken back. *)
Refuse(p) ==
  /\ AtOp(p, "ops")
  /\ LET op == Current(p)
         n == CurrentSem(p)
     IN /\ \/ ~CanDo(op, semval[n])
           \/ op.undo /\ op.op # 0 /\ AoeFails(p, op.op, semid[p], op.num)
        /\ wait' = [wait EXCEPT ![p] =
             IF MustWait(op, semval[n]) /\ ~op.nowait
             THEN <<IF op.op = 0 THEN "semzcnt_wait" ELSE "semncnt_wait", n>>
             ELSE None]
  /\ Goto(p, "undo")
  /\ i' = [i EXCEPT ![p] = @ - 1]
  /\ UNCHANGED <<setVars, semval, undoVars, semid, ops, pushed, start, net>>

(* Mutant: semundo leaves the adjustments alone. *)
semundoValuesOnly(p) ==
  /\ AtOp(p, "undo")
  /\ semval' = [semval EXCEPT ![CurrentSem(p)] = @ - Current(p).op]
  /\ i' = [i EXCEPT ![p] = @ - 1]
  /\ UNCHANGED <<setVars, undoVars, pc, semid, ops, pushed, wait, start, net>>

(* semundo() takes one back. *)
semundo(p) ==
  /\ AtOp(p, "undo")
  /\ LET op == Current(p) IN
     /\ semval' = [semval EXCEPT ![CurrentSem(p)] = @ - op.op]
     /\ IF op.undo /\ op.op # 0 /\ ~AoeFails(p, -op.op, semid[p], op.num)
        THEN ~MustPush(p) /\ semaoe(p, -op.op, semid[p], op.num)
        ELSE UNCHANGED <<undoVars, pushed>>
  /\ i' = [i EXCEPT ![p] = @ - 1]
  /\ UNCHANGED <<setVars, pc, semid, ops, wait, start, net>>

Unlock(p) == semid_lock' = [semid_lock EXCEPT ![SlotOf(semid[p])] = None]
Undone(p) ==
  /\ pc[p] = "undo" /\ i[p] = 0
  /\ Unlock(p)
  /\ IF wait[p] # None
     THEN /\ Goto(p, "asleep")
          /\ start' = [start EXCEPT ![p] = None]
          /\ UNCHANGED <<semid, ops, i, pushed, wait>>
     ELSE Goto(p, "idle") /\ Forget(p)
  /\ UNCHANGED <<live, seq, sem_base, sem_nsems, semid_flag, freemap, lost,
                 semval, undoVars, net>>

(* What the first operations of a list do to a semaphore, all of them or   *)
(* those that are, or are not, undone when the process exits.              *)
Effects(list, num, undone) ==
  LET sum[k \in 0 .. Len(list)] ==
        IF k = 0 THEN 0
        ELSE sum[k - 1] + IF list[k].num = num /\ list[k].undo \in undone
                          THEN list[k].op ELSE 0
  IN sum
Effect(list, num, undone) == Effects(list, num, undone)[Len(list)]

Succeed(p) ==
  /\ pc[p] = "ops" /\ i[p] > Len(ops[p])
  /\ Unlock(p)
  /\ Goto(p, "idle") /\ Forget(p)
  /\ net' = [n \in Sem |-> net[n] +
       IF n \in SemsOf(SlotOf(semid[p]))
       THEN Effect(ops[p], n - sem_base[SlotOf(semid[p])], {FALSE}) ELSE 0]
  /\ UNCHANGED <<live, seq, sem_base, sem_nsems, semid_flag, freemap, lost,
                 semval, undoVars>>
-----------------------------------------------------------------------------
(* semctl() *)

(* Values a call puts into semaphores of a set, and whom it wakes. *)
SetValues(p, id, values) ==
  LET set == {SemOf(id, num) : num \in DOMAIN values}
      nums == DOMAIN values
  IN /\ semval' = [n \in Sem |-> IF n \in set THEN values[n - SemOf(id, 0)] ELSE semval[n]]
     /\ GotoWaking(p, "idle",
          {<<IF values[num] = 0 THEN "semzcnt_wait" ELSE "semncnt_wait", SemOf(id, num)>>
             : num \in nums})
     /\ net' = [n \in Sem |-> IF n \in set
          THEN values[n - SemOf(id, 0)] + Adjustments(un_ent', id, n - SemOf(id, 0))
          ELSE net[n]]

SETVAL(p) ==
  /\ pc[p] = "idle"
  /\ \E s \in Slot : \E num \in 0 .. sem_nsems[s] - 1, val \in Values :
       /\ live[s] /\ semconv(IdOf(s))
       /\ semunrm(IdOf(s), num, num)
       /\ SetValues(p, IdOf(s), [k \in {num} |-> val])
  /\ UNCHANGED <<setVars, callVars>>

(* SETALL gives the lock up to copy the values, and holds the set with     *)
(* semid_flag; GETALL and IPC_SET do the same and change nothing here.     *)
SETALL(p) ==
  /\ pc[p] = "idle"
  /\ \E s \in Slot :
       /\ live[s] /\ semconv(IdOf(s))
       /\ semid_flag' = [semid_flag EXCEPT ![s] = TRUE]
       /\ semid' = [semid EXCEPT ![p] = IdOf(s)]
  /\ Goto(p, "setall")
  /\ UNCHANGED <<live, seq, sem_base, sem_nsems, semid_lock, freemap, lost,
                 semval, undoVars, ops, i, pushed, wait, start, net>>

Copied(p) ==
  /\ pc[p] = "setall"
  /\ LET s == SlotOf(semid[p]) IN
     /\ semid_lock[s] = None
     /\ semid_flag' = [semid_flag EXCEPT ![s] = FALSE]
     /\ \/ \E values \in [0 .. sem_nsems[s] - 1 -> Values] :
             /\ semunrm(semid[p], 0, sem_nsems[s])
             /\ SetValues(p, semid[p], values)
        \/ \* EFAULT, ERANGE, or another call than SETALL
           Goto(p, "idle") /\ UNCHANGED <<semval, undoVars, net>>
  /\ Forget(p)
  /\ UNCHANGED <<live, seq, sem_base, sem_nsems, semid_lock, freemap, lost>>

(* IPC_RMID marks the set removed, cleans up and frees the semaphores,     *)
(* under semid_lock.                                                       *)
IPC_RMID(p) ==
  /\ pc[p] = "idle"
  /\ \E s \in Removable :
       /\ live[s] /\ semconv(IdOf(s))
       /\ seq[s] < MaxSeq
       /\ Lock(s, p)
       /\ semid' = [semid EXCEPT ![p] = IdOf(s)]
       /\ live' = [live EXCEPT ![s] = FALSE]
       /\ seq' = [seq EXCEPT ![s] = @ + 1]
  /\ Goto(p, "rmid")
  /\ UNCHANGED <<sem_base, sem_nsems, semid_flag, freemap, lost, semval, undoVars,
                 ops, i, pushed, wait, start, net>>

CleanUp(p) ==
  /\ pc[p] = "rmid"
  /\ LET s == SlotOf(semid[p]) IN
     /\ semunrm(semid[p], 0, sem_nsems[s])
     /\ semval' = [n \in Sem |-> IF n \in SemsOf(s) THEN 0 ELSE semval[n]]
     /\ GotoWaking(p, "rmfree", {"semncnt_wait", "semzcnt_wait"} \X SemsOf(s))
  /\ UNCHANGED <<setVars, callVars, net>>

FreeSems(p) ==
  /\ pc[p] = "rmfree"
  /\ LET s == SlotOf(semid[p]) IN
     /\ freemap' = rmfree(freemap, sem_nsems[s], sem_base[s], semmap)
     /\ lost' = lost \cup ((Units(freemap) \cup SemsOf(s)) \ Units(freemap'))
  /\ Unlock(p)
  /\ Goto(p, "idle") /\ Forget(p)
  /\ UNCHANGED <<live, seq, sem_base, sem_nsems, semid_flag, semval, undoVars, net>>
-----------------------------------------------------------------------------
(* semexit(), with a signal or a normal exit: the block leaves the chain,  *)
(* its entries are applied from the last to the first, and it is free.     *)

semexit(p) ==
  /\ pc[p] = "idle" /\ p \in block
  /\ chain' = chain \ {p}
  /\ Goto(p, "exit")
  /\ UNCHANGED <<setVars, semval, un_ent, block, callVars, net>>

Adjust(p) ==
  /\ pc[p] = "exit" /\ un_ent[p] # <<>>
  /\ LET e == Last(un_ent[p])
         n == SemOf(e.id, e.num)
         v == semval[n] + e.aoe
     IN \/ /\ ~Exists(e.id)
           /\ UNCHANGED <<semval, pc, net>>
        \/ /\ semconv(e.id) /\ v \notin 0 .. semvmx
           /\ net' = [net EXCEPT ![n] = @ - e.aoe]
           /\ UNCHANGED <<semval, pc>>
        \/ /\ semconv(e.id) /\ v \in 0 .. semvmx
           /\ semval' = [semval EXCEPT ![n] = v]
           /\ GotoWaking(p, "exit",
                (IF v = 0 THEN {<<"semzcnt_wait", n>>} ELSE {}) \cup
                (IF e.aoe > 0 THEN {<<"semncnt_wait", n>>} ELSE {}))
           /\ UNCHANGED net
  /\ un_ent' = [un_ent EXCEPT ![p] = Front(@)]
  /\ UNCHANGED <<setVars, block, chain, callVars>>

Exited(p) ==
  /\ pc[p] = "exit" /\ un_ent[p] = <<>>
  /\ block' = block \ {p}
  /\ Goto(p, "idle")
  /\ UNCHANGED <<setVars, semval, un_ent, chain, callVars, net>>
-----------------------------------------------------------------------------
Next ==
  \E p \in Proc :
    \/ semget(p) \/ semop(p) \/ Again(p) \/ Interrupt(p) \/ PushFirst(p) \/ Do(p)
    \/ Refuse(p) \/ semundo(p) \/ Undone(p) \/ Succeed(p)
    \/ SETVAL(p) \/ SETALL(p) \/ Copied(p)
    \/ IPC_RMID(p) \/ CleanUp(p) \/ FreeSems(p)
    \/ semexit(p) \/ Adjust(p) \/ Exited(p)

Spec == Init /\ [][Next]_vars
-----------------------------------------------------------------------------
(* semop() does all its operations or none, to the values and to its own   *)
(* adjustments, although it does and undoes them one after the other and   *)
(* the undo block may run out of entries on the way.                       *)
Whole(p) ==
  pc[p] \in Working /\ pc'[p] \notin Working =>
    LET s == SlotOf(semid[p])
        done(num, undone) == IF pc[p] = "ops" THEN Effect(ops[p], num, undone) ELSE 0
    IN \A num \in 0 .. sem_nsems[s] - 1 :
         /\ semval'[sem_base[s] + num] = start[p].vals[num] + done(num, BOOLEAN)
         /\ Adjustment(un_ent'[p], semid[p], num) = start[p].adj[num] - done(num, {TRUE})
AllOrNothing == [][\A p \in Proc : Whole(p)]_vars

(* While no call has the set, the value of a semaphore and the adjustments *)
(* outstanding make what it has been set to and changed by for good: the   *)
(* exits of all processes lead back to it.                                 *)
UndoBalanced ==
  \A s \in Slot : live[s] /\ semid_lock[s] = None =>
    \A num \in 0 .. sem_nsems[s] - 1 :
      semval[sem_base[s] + num] + Adjustments(un_ent, IdOf(s), num) = net[sem_base[s] + num]

(* Nobody sleeps whose operations could be done: every change that lets    *)
(* them pass has woken it.                                                 *)
Blocks(list, base) ==
  \E k \in DOMAIN list :
    MustWait(list[k], semval[base + list[k].num] + Effects(list, list[k].num, BOOLEAN)[k - 1])
SleepersWait ==
  \A p \in Proc :
    /\ pc[p] = "asleep" /\ Exists(semid[p])
    /\ semid_lock[SlotOf(semid[p])] = None
    => Blocks(ops[p], SemOf(semid[p], 0))

(* Every semaphore is in one set, in one that is being removed, in the     *)
(* map, or was dropped by the map; in the map it is zero and nobody sleeps *)
(* on it.                                                                  *)
Removing(s) == \E p \in Proc : pc[p] \in {"rmid", "rmfree"} /\ SlotOf(semid[p]) = s
SemsDisjoint ==
  /\ \A n \in Sem :
       Cardinality({s \in Slot : (live[s] \/ Removing(s)) /\ n \in SemsOf(s)})
         + Cardinality({k \in DOMAIN freemap : n \in Unit(freemap[k])})
         + Cardinality(lost \cap {n}) = 1
  /\ \A n \in Units(freemap) :
       semval[n] = 0 /\ \A p \in Proc : pc[p] = "asleep" => wait[p][2] # n
=============================================================================
