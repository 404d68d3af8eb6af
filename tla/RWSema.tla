------------------------------- MODULE RWSema -------------------------------
(***************************************************************************)
(* The reader/writer semaphores of the DYNIX kernel (common/sys/rwsema.c). *)
(*                                                                         *)
(* The mutex of a semaphore (rw_mutex) is a gate: what is done between     *)
(* enter() and exit() is one step here, since nothing that is done there   *)
(* waits for anything but the caller's own p_state.  rwsema_wake() runs    *)
(* after exit(), and so do the switch of a process that has to wait, with  *)
(* the release of the lock it passed, and the look at rw_rdwait that ends  *)
(* v_writer(): these are steps of their own.  A process that gets in at    *)
(* once drops its lock in the same step.                                   *)
(*                                                                         *)
(* All sleeps are at pri <= PZERO: signals never take a process off a      *)
(* queue, and the only other code that touches a sleeper is the swapper.   *)
(***************************************************************************)
EXTENDS Integers, FiniteSets, SequencesExt

CONSTANTS Proc,       \* processes
          Lock,       \* locks handed to p_reader_v_lock(), p_writer_v_lock()
          None,       \* no process, no lock
          Swappable   \* processes that may be swapped out

ASSUME ProcAssumption == IsFiniteSet(Proc)
ASSUME NoneAssumption == None \notin Proc \cup Lock
ASSUME SwapAssumption == Swappable \subseteq Proc

VARIABLES
  policy,   \* rw_policy: RWSEMA_SWP (vnodes) or RWSEMA_WWP
  count,    \* rw_count: readers inside, or -1 for a writer
  rdwait,   \* rw_rdwait, from head to tail
  wrwait,   \* rw_wrwait
  plock,    \* p_state: who holds the lock of a process
  spin,     \* who holds the locks of the callers
  stat,     \* p_stat
  loaded,   \* SLOAD in p_flag
  runq,     \* how many times a process is on the run queue
  pc,       \* where a process is in the code
  arg,      \* the lock a process passed
  tgt,      \* the process a waker has taken off a queue
  mode      \* what a process holds: "none", "read", "write"

semaVars == <<count, rdwait, wrwait>>
runVars == <<stat, loaded, runq>>
vars == <<policy, semaVars, plock, spin, runVars, pc, arg, tgt, mode>>

Strong == policy = "SWP"

Label == {"run", "sleep", "swtch", "off", "wake", "wake_reader", "look", "loop"}

TypeOK ==
  /\ policy \in {"SWP", "WWP"}
  /\ count \in Int
  /\ rdwait \in Seq(Proc) /\ wrwait \in Seq(Proc)
  /\ plock \in [Proc -> Proc \cup {None}]
  /\ spin \in [Lock -> Proc \cup {None}]
  /\ stat \in [Proc -> {"SONPROC", "SRUN", "SSLEEP"}]
  /\ loaded \in [Proc -> BOOLEAN]
  /\ runq \in [Proc -> Nat]
  /\ pc \in [Proc -> Label]
  /\ arg \in [Proc -> Lock \cup {None}]
  /\ tgt \in [Proc -> Proc \cup {None}]
  /\ mode \in [Proc -> {"none", "read", "write"}]

(* _init_rwsema() *)
Init ==
  /\ policy \in {"SWP", "WWP"}
  /\ count = 0 /\ rdwait = <<>> /\ wrwait = <<>>
  /\ plock = [p \in Proc |-> None]
  /\ spin = [l \in Lock |-> None]
  /\ stat = [p \in Proc |-> "SONPROC"]
  /\ loaded = [p \in Proc |-> TRUE]
  /\ runq = [p \in Proc |-> 0]
  /\ pc = [p \in Proc |-> "run"]
  /\ arg = [p \in Proc |-> None]
  /\ tgt = [p \in Proc |-> None]
  /\ mode = [p \in Proc |-> "none"]
-----------------------------------------------------------------------------
Goto(p, label) == pc' = [pc EXCEPT ![p] = label]

Release(l) == spin' = IF l = None THEN spin ELSE [spin EXCEPT ![l] = None]

(* Mutant: p_lock() does not wait. *)
NeverWait(p) == TRUE

StateFree(p) == plock[p] = None

(* Mutant: readers pass a queued writer whatever the policy. *)
ReadOKWeak == count >= 0

(* RWSEMA_RDOK and the policy: may a reader enter? *)
ReadOK == count >= 0 /\ (Strong => wrwait = <<>>)

(* What the callers respect: a process takes the semaphore once, and holds *)
(* the one lock it passes. *)
MayEnter(p, l) ==
  /\ pc[p] = "run" /\ mode[p] = "none"
  /\ \A k \in Lock : spin[k] = p <=> k = l

(* The part of rwsema_block() that is done inside the gate. *)
Block(p, l) ==
  /\ StateFree(p)
  /\ plock' = [plock EXCEPT ![p] = p]
  /\ arg' = [arg EXCEPT ![p] = l]
  /\ Goto(p, "sleep")
  /\ UNCHANGED <<count, spin, mode>>

Enter(p, l, m) ==
  /\ mode' = [mode EXCEPT ![p] = m]
  /\ Release(l)
  /\ UNCHANGED <<rdwait, wrwait, plock, pc, arg>>

(* p_reader(rw, pri), and p_reader_v_lock(rw, pri, l). *)
PReader(p, l) ==
  /\ MayEnter(p, l)
  /\ IF ReadOK
     THEN count' = count + 1 /\ Enter(p, l, "read")
     ELSE /\ rdwait' = Append(rdwait, p)
          /\ UNCHANGED wrwait
          /\ Block(p, l)
  /\ UNCHANGED <<policy, runVars, tgt>>

(* p_writer(rw, pri), and p_writer_v_lock(rw, pri, l). *)
PWriter(p, l) ==
  /\ MayEnter(p, l)
  /\ IF count = 0
     THEN count' = -1 /\ Enter(p, l, "write")
     ELSE /\ wrwait' = Append(wrwait, p)
          /\ UNCHANGED rdwait
          /\ Block(p, l)
  /\ UNCHANGED <<policy, runVars, tgt>>

(* cp_reader(rw) and cp_writer(rw), when they succeed. *)
CPReader(p) ==
  /\ pc[p] = "run" /\ mode[p] = "none"
  /\ ReadOK
  /\ count' = count + 1
  /\ mode' = [mode EXCEPT ![p] = "read"]
  /\ UNCHANGED <<policy, rdwait, wrwait, plock, spin, runVars, pc, arg, tgt>>

CPWriter(p) ==
  /\ pc[p] = "run" /\ mode[p] = "none"
  /\ count = 0
  /\ count' = -1
  /\ mode' = [mode EXCEPT ![p] = "write"]
  /\ UNCHANGED <<policy, rdwait, wrwait, plock, spin, runVars, pc, arg, tgt>>

(* The rest of rwsema_block(), after exit(). *)
Sleep(p) ==
  /\ pc[p] = "sleep"
  /\ Release(arg[p])
  /\ arg' = [arg EXCEPT ![p] = None]
  /\ stat' = [stat EXCEPT ![p] = "SSLEEP"]
  /\ Goto(p, "swtch")
  /\ UNCHANGED <<policy, semaVars, plock, loaded, runq, tgt, mode>>

(* swtch(p): the context is saved, then p_state is released. *)
Swtch(p) ==
  /\ pc[p] = "swtch"
  /\ plock' = [plock EXCEPT ![p] = None]
  /\ Goto(p, "off")
  /\ UNCHANGED <<policy, semaVars, spin, runVars, arg, tgt, mode>>
-----------------------------------------------------------------------------
(* Taking the first waiter off a queue: it has the semaphore from now on. *)
Pick(p, q, m) ==
  /\ tgt' = [tgt EXCEPT ![p] = q]
  /\ mode' = [mode EXCEPT ![p] = "none", ![q] = m]

LeaveMode(p) == mode' = [mode EXCEPT ![p] = "none"]

(* Mutant: the semaphore looks idle while it is handed to a writer. *)
VReaderIdle(p) ==
  /\ pc[p] = "run" /\ mode[p] = "read"
  /\ count' = count - 1
  /\ IF count = 1 /\ wrwait # <<>>
     THEN /\ wrwait' = Tail(wrwait)
          /\ Pick(p, Head(wrwait), "write")
          /\ Goto(p, "wake")
     ELSE /\ LeaveMode(p)
          /\ UNCHANGED <<wrwait, tgt, pc>>
  /\ UNCHANGED <<policy, rdwait, plock, spin, runVars, arg>>

(* v_reader(rw) *)
VReader(p) ==
  /\ pc[p] = "run" /\ mode[p] = "read"
  /\ IF count = 1 /\ wrwait # <<>>
     THEN /\ count' = -1
          /\ wrwait' = Tail(wrwait)
          /\ Pick(p, Head(wrwait), "write")
          /\ Goto(p, "wake")
     ELSE /\ count' = count - 1
          /\ LeaveMode(p)
          /\ UNCHANGED <<wrwait, tgt, pc>>
  /\ UNCHANGED <<policy, rdwait, plock, spin, runVars, arg>>

(* v_writer(rw): a queued writer is next; otherwise the loop over the      *)
(* queued readers starts in the section that makes the semaphore idle.     *)
VWriter(p) ==
  /\ pc[p] = "run" /\ mode[p] = "write"
  /\ IF wrwait # <<>>
     THEN /\ wrwait' = Tail(wrwait)
          /\ Pick(p, Head(wrwait), "write")
          /\ Goto(p, "wake")
          /\ UNCHANGED <<count, rdwait>>
     ELSE /\ UNCHANGED wrwait
          /\ IF rdwait # <<>>
             THEN /\ count' = 1
                  /\ rdwait' = Tail(rdwait)
                  /\ Pick(p, Head(rdwait), "read")
                  /\ Goto(p, "wake_reader")
             ELSE /\ count' = 0
                  /\ LeaveMode(p)
                  /\ UNCHANGED <<rdwait, tgt, pc>>
  /\ UNCHANGED <<policy, plock, spin, runVars, arg>>

(* The gate again: the condition of the while loop. *)
LoopAgain(p) ==
  /\ pc[p] = "loop"
  /\ IF rdwait # <<>> /\ ReadOK
     THEN /\ count' = count + 1
          /\ rdwait' = Tail(rdwait)
          /\ tgt' = [tgt EXCEPT ![p] = Head(rdwait)]
          /\ mode' = [mode EXCEPT ![Head(rdwait)] = "read"]
          /\ Goto(p, "wake_reader")
     ELSE Goto(p, "run") /\ UNCHANGED <<count, rdwait, tgt, mode>>
  /\ UNCHANGED <<policy, wrwait, plock, spin, runVars, arg>>

(* Mutant: v_writer() lets one reader in. *)
LookOutOnce(p) ==
  /\ pc[p] = "look"
  /\ Goto(p, "run")
  /\ UNCHANGED <<policy, semaVars, plock, spin, runVars, arg, tgt, mode>>

(* The look at rw_rdwait without the gate, which may end the loop. *)
LookOut(p) ==
  /\ pc[p] = "look"
  /\ Goto(p, IF rdwait = <<>> THEN "run" ELSE "loop")
  /\ UNCHANGED <<policy, semaVars, plock, spin, runVars, arg, tgt, mode>>

(* rwsema_wake(q).  A process that is not in memory is left to the swapper *)
(* (v_sema(&runout)). *)
Wake(p) ==
  LET q == tgt[p] IN
  /\ pc[p] \in {"wake", "wake_reader"}
  /\ StateFree(q)
  /\ stat' = [stat EXCEPT ![q] = "SRUN"]
  /\ runq' = IF loaded[q] THEN [runq EXCEPT ![q] = @ + 1] ELSE runq
  /\ tgt' = [tgt EXCEPT ![p] = None]
  /\ Goto(p, IF pc[p] = "wake" THEN "run" ELSE "look")
  /\ UNCHANGED <<policy, semaVars, plock, spin, loaded, arg, mode>>
-----------------------------------------------------------------------------
(* The dispatcher and the swapper, as in Sema. *)

Dispatch(p) ==
  /\ runq[p] > 0
  /\ runq' = [runq EXCEPT ![p] = @ - 1]
  /\ stat' = [stat EXCEPT ![p] = "SONPROC"]
  /\ Goto(p, "run")
  /\ UNCHANGED <<policy, semaVars, plock, spin, loaded, arg, tgt, mode>>

(* Mutant: a sleeper is taken off the run queue. *)
SwapOutSleeping(p) ==
  /\ p \in Swappable /\ loaded[p] /\ stat[p] # "SONPROC"
  /\ StateFree(p)
  /\ loaded' = [loaded EXCEPT ![p] = FALSE]
  /\ runq' = [runq EXCEPT ![p] = @ - 1]
  /\ UNCHANGED <<policy, semaVars, plock, spin, stat, pc, arg, tgt, mode>>

SwapOut(p) ==
  /\ p \in Swappable /\ loaded[p] /\ stat[p] # "SONPROC"
  /\ StateFree(p)
  /\ loaded' = [loaded EXCEPT ![p] = FALSE]
  /\ runq' = IF stat[p] = "SRUN" THEN [runq EXCEPT ![p] = @ - 1] ELSE runq
  /\ UNCHANGED <<policy, semaVars, plock, spin, stat, pc, arg, tgt, mode>>

SwapIn(p) ==
  /\ StateFree(p)
  /\ ~loaded[p] /\ stat[p] = "SRUN"
  /\ loaded' = [loaded EXCEPT ![p] = TRUE]
  /\ runq' = [runq EXCEPT ![p] = @ + 1]
  /\ UNCHANGED <<policy, semaVars, plock, spin, stat, pc, arg, tgt, mode>>

(* The callers of the _v_lock() forms take and drop their locks. *)
TakeLock(p, l) ==
  /\ pc[p] = "run" /\ spin[l] = None
  /\ \A k \in Lock : spin[k] # p
  /\ spin' = [spin EXCEPT ![l] = p]
  /\ UNCHANGED <<policy, semaVars, plock, runVars, pc, arg, tgt, mode>>

DropLock(p, l) ==
  /\ pc[p] = "run" /\ spin[l] = p
  /\ spin' = [spin EXCEPT ![l] = None]
  /\ UNCHANGED <<policy, semaVars, plock, runVars, pc, arg, tgt, mode>>
-----------------------------------------------------------------------------
Inside(p) == Sleep(p) \/ Swtch(p) \/ Wake(p) \/ LookOut(p) \/ LoopAgain(p)

Calls(p) ==
  \/ \E l \in Lock \cup {None} : PReader(p, l) \/ PWriter(p, l)
  \/ CPReader(p) \/ CPWriter(p) \/ VReader(p) \/ VWriter(p)

Next == \E p \in Proc :
          \/ Inside(p) \/ Calls(p)
          \/ Dispatch(p) \/ SwapOut(p) \/ SwapIn(p)
          \/ \E l \in Lock : TakeLock(p, l) \/ DropLock(p, l)

Spec == Init /\ [][Next]_vars

(* A process inside the kernel keeps executing, a spinning p_lock()        *)
(* eventually wins, a runnable process is swapped in and dispatched, and a *)
(* holder releases the semaphore.                                          *)
Fairness == \A p \in Proc : /\ SF_vars(Inside(p)) /\ SF_vars(Dispatch(p))
                            /\ WF_vars(SwapIn(p))
                            /\ WF_vars(VReader(p)) /\ WF_vars(VWriter(p))

FairSpec == Spec /\ Fairness
-----------------------------------------------------------------------------
Holders(m) == {p \in Proc : mode[p] = m}

(* rw_count is the number of readers inside, those that were let in but    *)
(* have not run yet included, or -1 when a writer is: the assertions of    *)
(* v_reader(), v_writer() and of the blocked p_reader(), p_writer().       *)
CountMatchesHolders ==
  \/ count = -1 /\ Holders("read") = {} /\ \E w \in Proc : Holders("write") = {w}
  \/ count = Cardinality(Holders("read")) /\ Holders("write") = {}

(* Whoever waits has somebody ahead who will let it in: a queued writer    *)
(* means that the semaphore is busy, a queued reader that a writer is in   *)
(* or first in line, or that a process is inside the loop of v_writer(),   *)
(* although that loop drops the gate between two readers and may return    *)
(* without taking it again.                                                *)
NobodyForgotten ==
  /\ wrwait # <<>> => count # 0
  /\ rdwait # <<>> => \/ count < 0
                      \/ Strong /\ wrwait # <<>>
                      \/ \E p \in Proc : pc[p] \in {"wake_reader", "look", "loop"}

(* A process that waits is on one queue, or has been handed the semaphore  *)
(* and is in the hands of one waker or runnable: it is woken once, with    *)
(* its context saved.                                                      *)
WokenOnce ==
  \A p \in Proc :
    LET queued == p \in ToSet(rdwait) \cup ToSet(wrwait)
        wakers == {a \in Proc : tgt[a] = p} IN
    /\ queued => mode[p] = "none" /\ wakers = {} /\ stat[p] # "SRUN"
    /\ Cardinality(wakers) <= 1
    /\ runq[p] <= 1
    /\ runq[p] = 1 => pc[p] = "off" /\ ~queued /\ wakers = {} /\ mode[p] # "none"
    /\ pc[p] = "off" /\ stat[p] = "SSLEEP" => queued \/ wakers # {}

(* A queued writer gets the semaphore under strong writer preference.      *)
WriterServed ==
  \A p \in Proc : Strong /\ p \in ToSet(wrwait) ~> (mode[p] = "write" /\ pc[p] = "run")

(* The semaphore is the lock of RWLock. *)
Abstract == INSTANCE RWLock WITH strong <- Strong, readers <- Holders("read"),
                                 writers <- Holders("write"),
                                 rq <- rdwait, wq <- wrwait
AbstractSpec == Abstract!Spec
AbstractFairSpec == Abstract!FairSpec
=============================================================================
