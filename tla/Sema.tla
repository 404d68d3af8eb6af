-------------------------------- MODULE Sema --------------------------------
(***************************************************************************)
(* The counting semaphores of the DYNIX kernel (i386/machine/sema.c), with *)
(* the parts of signal delivery (common/sys/kern_sig.c), dispatching       *)
(* (common/sys/kern_synch.c, i386/machine/cswitch.s) and swapping          *)
(* (common/sys/vm_swap.c) that meet them on struct proc.                   *)
(*                                                                         *)
(* Several processors run this code at once.  Three kinds of lock keep     *)
(* them apart:                                                             *)
(*   - the gate of a semaphore (s_gate) and the run-queue gate (G_RUNQ)    *)
(*     protect short, straight-line sections in which no other lock is     *)
(*     taken: each section is one atomic step here;                        *)
(*   - p_state, the spin lock of a process, is held across such sections,  *)
(*     by the process itself until its context is saved: it is the         *)
(*     variable plock;                                                     *)
(*   - the lock a caller of p_sema_v_lock() holds: the variable spin.      *)
(* The tests of s_count made before the gate is taken are steps of their   *)
(* own, because the count can change before the gate is entered.           *)
(*                                                                         *)
(* Signals are abstracted to INT (anything but SIGKILL that is caught or   *)
(* terminates, neither masked nor ignored), STOP and CONT.  SIGKILL, which *)
(* starts a stopped process, tracing, vfork children and the notification  *)
(* of the parent by stop() are left out.                                   *)
(***************************************************************************)
EXTENDS Integers, FiniteSets, SequencesExt

CONSTANTS Proc,      \* processes (slots of proc[])
          Intr,      \* interrupt contexts: they run the V side, never sleep
          Sema,      \* semaphores, runout among them
          Lock,      \* locks handed to p_sema_v_lock()
          None,      \* no process, no semaphore, no lock
          Mutex,     \* semaphores initialised to 1 and V'ed by their holder
          Event,     \* semaphores used with p_event(), v_event()
          sched,     \* process 0, the only one to P runout
          runout,    \* where the swapper waits for work
          Swappable, \* processes that may be swapped out (not SSYS, SNOSWAP)
          Wakers,    \* actors that call v_sema(), cv_sema(), vall_sema()
          Signallers, \* actors that send signals
          MaxCount   \* bound on s_count (SCOUNT_RANGE of a debug kernel)

Actor == Proc \cup Intr

ASSUME ActorsDiffer == /\ Proc \cap Intr = {}
                       /\ None \notin Actor \cup Sema \cup Lock
(* sched may be left out of Proc where nothing is swapped. *)
ASSUME SchedAssumption == sched \notin Intr /\ Swappable \subseteq Proc \ {sched}
ASSUME SemaAssumption == /\ runout \in Sema
                         /\ Mutex \subseteq Sema \ {runout}
                         /\ Event \subseteq Sema \ ({runout} \cup Mutex)
ASSUME CallerAssumption == Wakers \subseteq Actor /\ Signallers \subseteq Actor
ASSUME BoundAssumption == MaxCount \in Nat \ {0}

VARIABLES
  count,    \* s_count of a semaphore
  queue,    \* the processes between s_head and s_tail
  plock,    \* p_state: who holds the lock of a process
  spin,     \* who holds the locks of p_sema_v_lock()'s callers
  stat,     \* p_stat
  link,     \* p_link # NULL
  sigwoke,  \* SIGWOKE in p_flag
  loaded,   \* SLOAD in p_flag
  wchan,    \* p_wchan
  soft,     \* p_pri > PZERO, as the last sleep left it
  sig,      \* p_sig
  runq,     \* how many times a process is on the run queue
  pc,       \* where an actor is in the code
  call,     \* the call an actor is executing
  tgt,      \* the process a waker has picked
  held,     \* the process whose p_state a waker keeps over v_sema(&runout)
  own       \* who holds the semaphores of Mutex

semaVars == <<count, queue>>
lockVars == <<plock, spin>>
sleepVars == <<sigwoke, wchan, soft>>
runVars == <<stat, link, loaded, runq>>
actorVars == <<pc, call, tgt, held>>
vars == <<semaVars, lockVars, sleepVars, runVars, sig, actorVars, own>>

Signal == {"INT", "STOP"}      \* CONT is acted on, never left pending

NoCall == [op |-> "none", sem |-> runout, soft |-> FALSE, lock |-> None,
           slept |-> FALSE, stopped |-> FALSE, left |-> 0]

CallType == [op : {"none", "p", "cp", "v", "event", "cv", "vall"}, sem : Sema,
             soft : BOOLEAN, lock : Lock \cup {None}, slept : BOOLEAN,
             stopped : BOOLEAN, left : Int]

PLabel == {"p_try", "p_lock", "p_gate", "p_sleep", "p_swtch", "off", "back",
           "relock", "issig", "stop_swtch", "stop_off", "stop_back"}
VLabel == {"cp_gate", "cv_gate", "vall", "wake", "runout_gate", "runout_wake",
           "force_gate", "force_run"}

TypeOK ==
  /\ count \in [Sema -> Int]
  /\ queue \in [Sema -> Seq(Proc)]
  /\ plock \in [Proc -> Actor \cup {None}]
  /\ spin \in [Lock -> Actor \cup {None}]
  /\ stat \in [Proc -> {"SONPROC", "SRUN", "SSLEEP", "SSTOP"}]
  /\ link \in [Proc -> BOOLEAN]
  /\ sigwoke \in [Proc -> BOOLEAN]
  /\ loaded \in [Proc -> BOOLEAN]
  /\ wchan \in [Proc -> Sema \cup {None}]
  /\ soft \in [Proc -> BOOLEAN]
  /\ sig \in [Proc -> SUBSET Signal]
  /\ runq \in [Proc -> Nat]
  /\ pc \in [Actor -> {"run"} \cup PLabel \cup VLabel]
  /\ call \in [Actor -> CallType]
  /\ tgt \in [Actor -> Proc \cup {None}]
  /\ held \in [Actor -> Proc \cup {None}]
  /\ own \in [Sema -> SUBSET Proc]

Init ==
  /\ count = [s \in Sema |-> IF s \in Mutex THEN 1 ELSE 0]
  /\ queue = [s \in Sema |-> <<>>]
  /\ plock = [p \in Proc |-> None]
  /\ spin = [l \in Lock |-> None]
  /\ stat = [p \in Proc |-> "SONPROC"]
  /\ link = [p \in Proc |-> TRUE]
  /\ sigwoke = [p \in Proc |-> FALSE]
  /\ loaded = [p \in Proc |-> TRUE]
  /\ wchan = [p \in Proc |-> None]
  /\ soft = [p \in Proc |-> FALSE]
  /\ sig = [p \in Proc |-> {}]
  /\ runq = [p \in Proc |-> 0]
  /\ pc = [a \in Actor |-> "run"]
  /\ call = [a \in Actor |-> NoCall]
  /\ tgt = [a \in Actor |-> None]
  /\ held = [a \in Actor |-> None]
  /\ own = [s \in Sema |-> {}]
-----------------------------------------------------------------------------
OnQueue(p) == \E s \in Sema : p \in ToSet(queue[s])

(* remque(): unlink p from a queue. *)
Without(seq, p) ==
  IF p \in ToSet(seq)
  THEN RemoveAt(seq, CHOOSE i \in DOMAIN seq : seq[i] = p) ELSE seq

(* Control: where an actor goes next. *)

Goto(a, label) == pc' = [pc EXCEPT ![a] = label]

Return(a) == /\ Goto(a, "run")
             /\ call' = [call EXCEPT ![a] = NoCall]

(* v_lock() stores into the lock, whoever holds it. *)
Release(p) == plock' = [plock EXCEPT ![p] = None]

(* Mutant: only a process about to sleep drops its caller's lock. *)
ReleaseIfSleeping(p) ==
  spin' = IF call[p].lock = None \/ pc[p] # "p_sleep" THEN spin
          ELSE [spin EXCEPT ![call[p].lock] = None]

ReleaseCallersLock(p) ==
  spin' = IF call[p].lock = None THEN spin
          ELSE [spin EXCEPT ![call[p].lock] = None]

(* Mutant: p_lock() does not wait. *)
NeverWait(q) == TRUE

(* p_lock(&q->p_state) spins until this holds. *)
StateFree(q) == plock[q] = None

(* A waker is done with its target: vall_sema() goes round again, the      *)
(* p_state kept over v_sema(&runout) is released.                          *)
WakerDone(a) ==
  /\ IF call[a].op = "vall" THEN Goto(a, "vall") /\ UNCHANGED call ELSE Return(a)
  /\ tgt' = [tgt EXCEPT ![a] = None]
  /\ held' = [held EXCEPT ![a] = None]
  /\ IF held[a] = None THEN UNCHANGED plock ELSE Release(held[a])

(* The return of p_sema() or cp_sema() with a unit of the semaphore. *)
Grant(p) ==
  /\ Return(p)
  /\ own' = IF call[p].sem \in Mutex
            THEN [own EXCEPT ![call[p].sem] = @ \cup {p}] ELSE own

(* setrq(): insert into the run queue (insque() sets p_link). *)
SetRq(q) == /\ runq' = [runq EXCEPT ![q] = @ + 1]
            /\ link' = [link EXCEPT ![q] = TRUE]

(* Mutant: a V leaves SIGWOKE as it finds it. *)
MakeRunnableKeep(q, forced) ==
  /\ sigwoke' = [sigwoke EXCEPT ![q] = @ \/ forced]
  /\ stat' = [stat EXCEPT ![q] = "SRUN"]
  /\ wchan' = [wchan EXCEPT ![q] = None]

(* Under p_state: the end of a sleep; SIGWOKE tells whether a V or         *)
(* force_v_sema() ended it.                                                *)
MakeRunnable(q, forced) ==
  /\ sigwoke' = [sigwoke EXCEPT ![q] = forced]
  /\ stat' = [stat EXCEPT ![q] = "SRUN"]
  /\ wchan' = [wchan EXCEPT ![q] = None]
-----------------------------------------------------------------------------
(* p_sema(sema, pri), p_event() and p_sema_v_lock(sema, pri, lock).        *)
(* isSoft is pri > PZERO; l is None in p_sema().                           *)

SemaCall(p, s, isSoft, l) ==
  [NoCall EXCEPT !.op = "p", !.sem = s, !.soft = isSoft, !.lock = l]

(* Entry.  A hard P looks at the count before it enters the gate. *)
PSema(p, s, isSoft, l) ==
  /\ pc[p] = "run"
  /\ (p = sched) = (s = runout)
  /\ s \in Mutex \cup {runout} => ~isSoft /\ l = None
  /\ p \notin own[s]
  /\ \A k \in Lock : spin[k] = p <=> k = l
  /\ call' = [call EXCEPT ![p] = SemaCall(p, s, isSoft, l)]
  /\ Goto(p, IF ~isSoft /\ count[s] > 0 THEN "p_try" ELSE "p_lock")
  /\ UNCHANGED <<semaVars, lockVars, sleepVars, runVars, sig, tgt, held, own>>

(* Mutant: no second look at the count under the gate. *)
PSemaTryBlind(p) ==
  /\ pc[p] = "p_try"
  /\ count' = [count EXCEPT ![call[p].sem] = @ - 1]
  /\ ReleaseCallersLock(p)
  /\ Grant(p)
  /\ UNCHANGED <<queue, plock, sleepVars, runVars, sig, tgt, held>>

(* Under the gate, without p_state: take a unit, or lose the race. *)
PSemaTry(p) ==
  LET s == call[p].sem IN
  /\ pc[p] = "p_try"
  /\ IF count[s] > 0
     THEN /\ count' = [count EXCEPT ![s] = @ - 1]
          /\ ReleaseCallersLock(p)
          /\ Grant(p)
     ELSE /\ Goto(p, "p_lock")
          /\ UNCHANGED <<count, spin, call, own>>
  /\ UNCHANGED <<queue, plock, sleepVars, runVars, sig, tgt, held>>

(* Mutant: only a pending stop is noticed before the sleep. *)
QueuedStop(p) == call[p].soft /\ "STOP" \in sig[p]

QueuedSig(p) == call[p].soft /\ sig[p] # {}

(* p_lock(&p->p_state); a soft P then looks for a signal (QUEUEDSIG). *)
PSemaLock(p) ==
  /\ pc[p] = "p_lock"
  /\ StateFree(p)
  /\ plock' = [plock EXCEPT ![p] = p]
  /\ Goto(p, IF QueuedSig(p) THEN "issig" ELSE "p_gate")
  /\ UNCHANGED <<semaVars, spin, sleepVars, runVars, sig, call, tgt, held, own>>

(* Under the gate and p_state: take a unit, or join the queue. *)
PSemaGate(p) ==
  LET s == call[p].sem IN
  /\ pc[p] = "p_gate"
  /\ count' = [count EXCEPT ![s] = @ - 1]
  /\ IF count[s] - 1 >= 0
     THEN /\ Release(p)
          /\ ReleaseCallersLock(p)
          /\ Grant(p)
          /\ UNCHANGED <<queue, link>>
     ELSE /\ queue' = [queue EXCEPT ![s] = Append(@, p)]
          /\ link' = [link EXCEPT ![p] = TRUE]
          /\ Goto(p, "p_sleep")
          /\ UNCHANGED <<plock, spin, call, own>>
  /\ UNCHANGED <<sleepVars, stat, loaded, runq, sig, tgt, held>>

(* On the queue: drop the caller's lock and become SSLEEP. *)
PSemaSleep(p) ==
  /\ pc[p] = "p_sleep"
  /\ ReleaseCallersLock(p)
  /\ stat' = [stat EXCEPT ![p] = "SSLEEP"]
  /\ wchan' = [wchan EXCEPT ![p] = call[p].sem]
  /\ soft' = [soft EXCEPT ![p] = call[p].soft]
  /\ call' = [call EXCEPT ![p].lock = None]
  /\ Goto(p, "p_swtch")
  /\ UNCHANGED <<semaVars, plock, sigwoke, link, loaded, runq, sig, tgt, held, own>>

(* swtch(p): the context is saved, then p_state is released. *)
PSemaSwtch(p) ==
  /\ pc[p] = "p_swtch"
  /\ Release(p)
  /\ Goto(p, "off")
  /\ UNCHANGED <<semaVars, spin, sleepVars, runVars, sig, call, tgt, held, own>>

(* Back from swtch(): woken by a V, or look for the signal. *)
PSemaBack(p) ==
  /\ pc[p] = "back"
  /\ IF sigwoke[p]
     THEN Goto(p, "relock") /\ UNCHANGED <<call, own>>
     ELSE Grant(p)
  /\ UNCHANGED <<semaVars, lockVars, sleepVars, runVars, sig, tgt, held>>

PSemaRelock(p) ==
  /\ pc[p] = "relock"
  /\ StateFree(p)
  /\ plock' = [plock EXCEPT ![p] = p]
  /\ call' = [call EXCEPT ![p].slept = TRUE]
  /\ Goto(p, "issig")
  /\ UNCHANGED <<semaVars, spin, sleepVars, runVars, sig, tgt, held, own>>
-----------------------------------------------------------------------------
(* cp_sema(sema), which never sleeps: the test of sema_avail() before the  *)
(* gate; without a unit it returns FALSE at once.  An interrupt routine    *)
(* may call it, on a semaphore that is not a mutex here.                   *)
CPSema(a, s) ==
  /\ pc[a] = "run"
  /\ s \notin Event \cup {runout}
  /\ IF s \in Mutex THEN a \in Proc \ (own[s] \cup {sched}) ELSE a \in Wakers
  /\ count[s] > 0
  /\ call' = [call EXCEPT ![a] = [NoCall EXCEPT !.op = "cp", !.sem = s]]
  /\ Goto(a, "cp_gate")
  /\ UNCHANGED <<semaVars, lockVars, sleepVars, runVars, sig, tgt, held, own>>

(* Under the gate: take a unit and return TRUE, or find it gone. *)
CPGate(a) ==
  LET s == call[a].sem IN
  /\ pc[a] = "cp_gate"
  /\ IF count[s] > 0
     THEN /\ count' = [count EXCEPT ![s] = @ - 1]
          /\ Grant(a)
     ELSE /\ Return(a)
          /\ UNCHANGED <<count, own>>
  /\ UNCHANGED <<queue, lockVars, sleepVars, runVars, sig, tgt, held>>
-----------------------------------------------------------------------------
(* issig(held_lock), called by p_sema() with p_state held: before the      *)
(* sleep (~slept) or after it.                                             *)

(* No signal left.  Before the sleep, go on to the gate unless the process *)
(* stopped here; after it, return although no unit was given.              *)
IssigNone(p) ==
  LET c == call[p] IN
  /\ pc[p] = "issig"
  /\ sig[p] = {}
  /\ IF ~c.slept /\ ~c.stopped
     THEN Goto(p, "p_gate") /\ UNCHANGED <<plock, call, sigwoke>>
     ELSE /\ Release(p)
          /\ Return(p)
          /\ sigwoke' = [sigwoke EXCEPT ![p] = @ \/ ~c.slept]
  /\ UNCHANGED <<semaVars, spin, wchan, soft, runVars, sig, tgt, held, own>>

(* GOTSIG or STPGOTSIG: longjmp out of p_sema().  p_sema_v_lock() drops    *)
(* the caller's lock unless issig() did when it stopped the process.       *)
IssigGot(p) ==
  LET c == call[p] IN
  /\ pc[p] = "issig"
  /\ "INT" \in sig[p]
  /\ sig' = [sig EXCEPT ![p] = @ \ {"INT"}]
  /\ Release(p)
  /\ IF ~c.slept /\ ~c.stopped THEN ReleaseCallersLock(p) ELSE UNCHANGED spin
  /\ sigwoke' = [sigwoke EXCEPT ![p] = @ \/ ~c.slept]
  /\ Return(p)
  /\ UNCHANGED <<semaVars, wchan, soft, runVars, tgt, held, own>>

(* Mutant: held_lock is not zeroed once issig() has released it. *)
StoppedKeep(p) == [call[p] EXCEPT !.stopped = TRUE]

StoppedCall(p) == [call[p] EXCEPT !.stopped = TRUE, !.lock = None]

(* A stop signal: stop(), drop the caller's lock. *)
IssigStop(p) ==
  /\ pc[p] = "issig"
  /\ "STOP" \in sig[p]
  /\ sig' = [sig EXCEPT ![p] = @ \ {"STOP"}]
  /\ stat' = [stat EXCEPT ![p] = "SSTOP"]
  /\ ReleaseCallersLock(p)
  /\ call' = [call EXCEPT ![p] = StoppedCall(p)]
  /\ Goto(p, "stop_swtch")
  /\ UNCHANGED <<semaVars, plock, sleepVars, link, loaded, runq, tgt, held, own>>

IssigSwtch(p) ==
  /\ pc[p] = "stop_swtch"
  /\ Release(p)
  /\ Goto(p, "stop_off")
  /\ UNCHANGED <<semaVars, spin, sleepVars, runVars, sig, call, tgt, held, own>>

IssigRelock(p) ==
  /\ pc[p] = "stop_back"
  /\ StateFree(p)
  /\ plock' = [plock EXCEPT ![p] = p]
  /\ Goto(p, "issig")
  /\ UNCHANGED <<semaVars, spin, sleepVars, runVars, sig, call, tgt, held, own>>
-----------------------------------------------------------------------------
(* v_sema(), v_event(), cv_sema() and vall_sema(). *)

(* Mutant: the count is not bumped for the process taken off. *)
DequeueNoBump(a, s) ==
  /\ UNCHANGED count
  /\ queue' = [queue EXCEPT ![s] = Tail(@)]
  /\ link' = [link EXCEPT ![Head(queue[s])] = FALSE]
  /\ tgt' = [tgt EXCEPT ![a] = Head(queue[s])]

(* Mutant: p_link is left alone. *)
DequeueLinked(a, s) ==
  /\ count' = [count EXCEPT ![s] = @ + 1]
  /\ queue' = [queue EXCEPT ![s] = Tail(@)]
  /\ UNCHANGED link
  /\ tgt' = [tgt EXCEPT ![a] = Head(queue[s])]

(* Under the gate of s, with waiters: bump the count, take the first off   *)
(* the queue and zero its p_link, which tells force_v_sema().              *)
Dequeue(a, s) ==
  /\ count' = [count EXCEPT ![s] = @ + 1]
  /\ queue' = [queue EXCEPT ![s] = Tail(@)]
  /\ link' = [link EXCEPT ![Head(queue[s])] = FALSE]
  /\ tgt' = [tgt EXCEPT ![a] = Head(queue[s])]

(* Who may V: the holder of a mutex; anyone on the others; runout is V'ed  *)
(* by the wakers below.                                                    *)
MayV(a, s) ==
  /\ s # runout
  /\ IF s \in Mutex THEN a \in own[s] ELSE a \in Wakers
  /\ count[s] < MaxCount

(* Mutant: off by one, a single waiter is not seen. *)
NoWaiterOffByOne(s) == count[s] + 1 >= 0

(* ++s_count > 0: nobody waits. *)
NoWaiter(s) == count[s] + 1 > 0

(* v_sema(sema), and v_event(sema) which pins the count at 1. *)
VSema(a, s) ==
  /\ pc[a] = "run"
  /\ MayV(a, s)
  /\ own' = [own EXCEPT ![s] = @ \ {a}]
  /\ IF NoWaiter(s)
     THEN /\ count' = [count EXCEPT ![s] = IF s \in Event THEN 1 ELSE @ + 1]
          /\ UNCHANGED <<queue, link, tgt, pc, call>>
     ELSE /\ Dequeue(a, s)
          /\ call' = [call EXCEPT ![a] = [NoCall EXCEPT
                        !.op = IF s \in Event THEN "event" ELSE "v", !.sem = s]]
          /\ Goto(a, "wake")
  /\ UNCHANGED <<lockVars, sleepVars, stat, loaded, runq, sig, held>>

(* cv_sema(sema): the test of blocked_sema() before the gate. *)
CVSema(a, s) ==
  /\ pc[a] = "run"
  /\ a \in Wakers
  /\ s \notin Mutex \cup Event \cup {runout}
  /\ count[s] < 0
  /\ call' = [call EXCEPT ![a] = [NoCall EXCEPT !.op = "cv", !.sem = s]]
  /\ Goto(a, "cv_gate")
  /\ UNCHANGED <<semaVars, lockVars, sleepVars, runVars, sig, tgt, held, own>>

(* vall_sema(sema): the number of waiters is read once, on entry. *)
VAllSema(a, s) ==
  /\ pc[a] = "run"
  /\ a \in Wakers
  /\ s \notin Mutex \cup Event \cup {runout}
  /\ count[s] < 0
  /\ call' = [call EXCEPT ![a] = [NoCall EXCEPT
                 !.op = "vall", !.sem = s, !.left = count[s]]]
  /\ Goto(a, "vall")
  /\ UNCHANGED <<semaVars, lockVars, sleepVars, runVars, sig, tgt, held, own>>

(* One turn of its loop, up to cv_sema()'s test of blocked_sema(). *)
VAllNext(a) ==
  /\ pc[a] = "vall"
  /\ IF call[a].left < 0 /\ count[call[a].sem] < 0
     THEN /\ call' = [call EXCEPT ![a].left = @ + 1]
          /\ Goto(a, "cv_gate")
     ELSE Return(a)
  /\ UNCHANGED <<semaVars, lockVars, sleepVars, runVars, sig, tgt, held, own>>

(* cv_sema() under the gate. *)
CVGate(a) ==
  LET s == call[a].sem IN
  /\ pc[a] = "cv_gate"
  /\ IF count[s] >= 0
     THEN Return(a) /\ UNCHANGED <<count, queue, link, tgt>>
     ELSE /\ Dequeue(a, s)
          /\ Goto(a, "wake")
          /\ UNCHANGED call
  /\ UNCHANGED <<lockVars, sleepVars, stat, loaded, runq, sig, held, own>>

(* With the target's p_state: make it runnable.  A process that is not in  *)
(* memory is left to the swapper.                                          *)
Wake(a) ==
  LET q == tgt[a] IN
  /\ pc[a] = "wake"
  /\ StateFree(q)
  /\ MakeRunnable(q, FALSE)
  /\ IF loaded[q]
     THEN /\ SetRq(q)
          /\ WakerDone(a)
     ELSE /\ Goto(a, "runout_gate")
          /\ UNCHANGED <<runq, link, plock, call, tgt, held>>
  /\ UNCHANGED <<semaVars, spin, soft, loaded, sig, own>>

(* v_sema(&runout): under the gate, then waking sched. *)
RunoutGate(a) ==
  /\ pc[a] = "runout_gate"
  /\ count[runout] < MaxCount
  /\ IF NoWaiter(runout)
     THEN /\ count' = [count EXCEPT ![runout] = @ + 1]
          /\ WakerDone(a)
          /\ UNCHANGED <<queue, link>>
     ELSE /\ Dequeue(a, runout)
          /\ Goto(a, "runout_wake")
          /\ UNCHANGED <<plock, call, held>>
  /\ UNCHANGED <<spin, sleepVars, stat, loaded, runq, sig, own>>

(* sched is a system process (SSYS): always in memory. *)
RunoutWake(a) ==
  LET q == tgt[a] IN
  /\ pc[a] = "runout_wake"
  /\ StateFree(q)
  /\ MakeRunnable(q, FALSE)
  /\ SetRq(q)
  /\ WakerDone(a)
  /\ UNCHANGED <<semaVars, spin, soft, loaded, sig, own>>
-----------------------------------------------------------------------------
(* psignal(): lpsignal() under p_state, and force_v_sema(). *)

(* Post INT or STOP.  A soft sleeper is forced off its semaphore, with its *)
(* p_state kept; a stopped process takes no further stop.                  *)
PSignal(a, q, g) ==
  /\ pc[a] = "run"
  /\ StateFree(q)
  /\ sig' = [sig EXCEPT ![q] = IF stat[q] = "SSTOP" /\ g = "STOP" THEN @ \ {g}
                               ELSE @ \cup {g}]
  /\ IF stat[q] = "SSLEEP" /\ soft[q]
     THEN /\ plock' = [plock EXCEPT ![q] = a]
          /\ tgt' = [tgt EXCEPT ![a] = q]
          /\ Goto(a, "force_gate")
     ELSE UNCHANGED <<plock, tgt, pc>>
  /\ UNCHANGED <<semaVars, spin, sleepVars, runVars, call, held, own>>

(* CONT takes away pending stops and sets a stopped process running        *)
(* (setrun()).  By default it is then forgotten.                           *)
PSignalCont(a, q) ==
  /\ pc[a] = "run"
  /\ StateFree(q)
  /\ sig' = [sig EXCEPT ![q] = @ \ {"STOP"}]
  /\ IF stat[q] # "SSTOP"
     THEN UNCHANGED <<stat, runq, link, plock, pc, held>>
     ELSE /\ stat' = [stat EXCEPT ![q] = "SRUN"]
          /\ IF loaded[q]
             THEN /\ SetRq(q)
                  /\ UNCHANGED <<plock, pc, held>>
             ELSE /\ plock' = [plock EXCEPT ![q] = a]
                  /\ held' = [held EXCEPT ![a] = q]
                  /\ Goto(a, "runout_gate")
                  /\ UNCHANGED <<runq, link>>
  /\ UNCHANGED <<semaVars, spin, sleepVars, loaded, call, tgt, own>>

(* force_v_sema() under the gate of p_wchan: if p_link is zero a V got to  *)
(* the process first; otherwise yank it off the queue.                     *)
ForceGate(a) ==
  LET q == tgt[a]
      s == wchan[q] IN
  /\ pc[a] = "force_gate"
  /\ IF ~link[q]
     THEN /\ Release(q)
          /\ tgt' = [tgt EXCEPT ![a] = None]
          /\ Return(a)
          /\ UNCHANGED semaVars
     ELSE /\ queue' = [queue EXCEPT ![s] = Without(@, q)]
          /\ count' = [count EXCEPT ![s] = @ + 1]
          /\ Goto(a, "force_run")
          /\ UNCHANGED <<plock, call, tgt>>
  /\ UNCHANGED <<spin, sleepVars, runVars, sig, held, own>>

(* The rest of force_v_sema(), and the v_lock() of psignal(). *)
ForceRun(a) ==
  LET q == tgt[a] IN
  /\ pc[a] = "force_run"
  /\ MakeRunnable(q, TRUE)
  /\ tgt' = [tgt EXCEPT ![a] = None]
  /\ IF loaded[q]
     THEN /\ SetRq(q)
          /\ Release(q)
          /\ Return(a)
          /\ UNCHANGED held
     ELSE /\ held' = [held EXCEPT ![a] = q]
          /\ Goto(a, "runout_gate")
          /\ UNCHANGED <<runq, link, plock, call>>
  /\ UNCHANGED <<semaVars, spin, soft, loaded, sig, own>>
-----------------------------------------------------------------------------
(* The dispatcher and the swapper. *)

(* swtch()/resume() on some processor: take p off the run queue and return *)
(* to where its context was saved.                                         *)
Dispatch(p) ==
  /\ runq[p] > 0
  /\ runq' = [runq EXCEPT ![p] = @ - 1]
  /\ stat' = [stat EXCEPT ![p] = "SONPROC"]
  /\ Goto(p, IF pc[p] = "stop_off" THEN "stop_back" ELSE "back")
  /\ UNCHANGED <<semaVars, lockVars, sleepVars, link, loaded, sig, call, tgt,
                 held, own>>

(* Mutant: SLOAD is not looked at again under p_state. *)
CanSwapOutTwice(q) == q \in Swappable /\ stat[q] # "SONPROC"

CanSwapOut(q) == q \in Swappable /\ loaded[q] /\ stat[q] # "SONPROC"

(* swapout() of another process, under its p_state: a sleeper or a stopped *)
(* process, or a runnable one, which leaves the run queue.                 *)
SwapOut(q) ==
  /\ CanSwapOut(q)
  /\ StateFree(q)
  /\ loaded' = [loaded EXCEPT ![q] = FALSE]
  /\ runq' = IF stat[q] = "SRUN" THEN [runq EXCEPT ![q] = @ - 1] ELSE runq
  /\ UNCHANGED <<semaVars, lockVars, sleepVars, stat, link, sig, actorVars, own>>

(* The last section of swapin(): sched brings back runnable processes. *)
SwapIn(q) ==
  /\ StateFree(q)
  /\ ~loaded[q]
  /\ stat[q] = "SRUN"
  /\ loaded' = [loaded EXCEPT ![q] = TRUE]
  /\ SetRq(q)
  /\ UNCHANGED <<semaVars, lockVars, sleepVars, stat, sig, actorVars, own>>

(* sched() zeroes the count of runout before it looks for work. *)
ClearRunout ==
  /\ sched \in Proc
  /\ pc[sched] = "run"
  /\ count[runout] # 0
  /\ count' = [count EXCEPT ![runout] = 0]
  /\ UNCHANGED <<queue, lockVars, sleepVars, runVars, sig, actorVars, own>>

(* p_lock() and v_lock() by the callers of p_sema_v_lock(). *)
TakeLock(p, l) ==
  /\ pc[p] = "run"
  /\ spin[l] = None
  /\ \A k \in Lock : spin[k] # p
  /\ p # sched
  /\ spin' = [spin EXCEPT ![l] = p]
  /\ UNCHANGED <<semaVars, plock, sleepVars, runVars, sig, actorVars, own>>

DropLock(p, l) ==
  /\ pc[p] = "run"
  /\ spin[l] = p
  /\ spin' = [spin EXCEPT ![l] = None]
  /\ UNCHANGED <<semaVars, plock, sleepVars, runVars, sig, actorVars, own>>
-----------------------------------------------------------------------------
(* What an actor does inside a call, and the calls it may start. *)

PStep(p) ==
  \/ PSemaTry(p) \/ PSemaLock(p) \/ PSemaGate(p) \/ PSemaSleep(p)
  \/ PSemaSwtch(p) \/ PSemaBack(p) \/ PSemaRelock(p)
  \/ IssigNone(p) \/ IssigGot(p) \/ IssigStop(p) \/ IssigSwtch(p) \/ IssigRelock(p)

VStep(a) ==
  \/ CPGate(a) \/ CVGate(a) \/ VAllNext(a) \/ Wake(a) \/ RunoutGate(a) \/ RunoutWake(a)
  \/ ForceGate(a) \/ ForceRun(a)

PCall(p) == \E s \in Sema, isSoft \in BOOLEAN, l \in Lock \cup {None} :
              PSema(p, s, isSoft, l)

(* The holder of a mutex V's it; other V's and signals come from Wakers and  *)
(* Signallers, any actors.                                                  *)
VCall(a) == \E s \in Sema : CPSema(a, s) \/ VSema(a, s) \/ CVSema(a, s) \/ VAllSema(a, s)

SignalCall(a) == a \in Signallers /\ \E q \in Proc \ {sched} :
                   PSignalCont(a, q) \/ \E g \in Signal : PSignal(a, q, g)

Next ==
  \/ \E p \in Proc : PCall(p) \/ PStep(p) \/ Dispatch(p)
                     \/ SwapOut(p) \/ SwapIn(p) \/ \E l \in Lock : TakeLock(p, l) \/ DropLock(p, l)
  \/ \E a \in Actor : VCall(a) \/ VStep(a) \/ SignalCall(a)
  \/ ClearRunout

Spec == Init /\ [][Next]_vars
-----------------------------------------------------------------------------
(* Where a process that is not running may be. *)

Picked(p) == {a \in Actor : /\ pc[a] \in {"wake", "runout_wake", "force_run"}
                            /\ tgt[a] = p}

(* s_count and the queue agree whenever the gate is free: with a negative  *)
(* count as many processes wait, otherwise none (v_sema(), cv_sema() and   *)
(* force_v_sema() each take one process off for one unit).                 *)
CountMatchesQueue ==
  \A s \in Sema : Len(queue[s]) = IF count[s] < 0 THEN -count[s] ELSE 0

(* A process is on the run queue at most once, and only when its context   *)
(* is saved, it is in memory and runnable: two processors never run it.    *)
RunQueueSound ==
  \A p \in Proc :
    /\ runq[p] \in {0, 1}
    /\ runq[p] = 1 => /\ pc[p] \in {"off", "stop_off"}
                      /\ stat[p] = "SRUN"
                      /\ loaded[p]

(* A process that switched away in p_sema() is in exactly one place: on    *)
(* the queue of p_wchan, in the hands of one waker, or runnable, on the    *)
(* run queue when in memory.  No wakeup is lost and none is given twice,   *)
(* whichever of v_sema(), force_v_sema() and the swapper race.             *)
SleeperInOnePlace ==
  \A p \in Proc :
    pc[p] = "off" =>
      \/ /\ stat[p] = "SSLEEP" /\ OnQueue(p) /\ Picked(p) = {}
         /\ wchan[p] = call[p].sem
      \/ /\ stat[p] = "SSLEEP" /\ ~OnQueue(p)
         /\ \E a \in Actor : Picked(p) = {a}
      \/ /\ stat[p] = "SRUN" /\ ~OnQueue(p) /\ Picked(p) = {}
         /\ loaded[p] = (runq[p] = 1)

(* A sleep at pri <= PZERO is never cut short by a signal: when it is      *)
(* resumed SIGWOKE is clear, although an earlier P may have left it set.   *)
HardSleepUninterrupted ==
  \A p \in Proc : pc[p] = "back" /\ sigwoke[p] => call[p].soft

(* No process sleeps at pri > PZERO on a signal it has not looked at: the  *)
(* test of QUEUEDSIG and the sleep are one section under p_state.          *)
SignalNotSlept ==
  \A p \in Proc :
    pc[p] = "off" /\ OnQueue(p) /\ soft[p] /\ plock[p] = None => sig[p] = {}

(* The units of a mutex semaphore are conserved: one process holds it, or  *)
(* its count is one, or one process is on its way out of p_sema().         *)
Granted(m) == {p \in Proc : /\ call[p].op = "p" /\ call[p].sem = m
                            /\ pc[p] \in {"p_sleep", "p_swtch", "off", "back"}
                            /\ ~OnQueue(p)}

MutexUnits ==
  \A m \in Mutex :
    Cardinality(own[m]) + Cardinality(Granted(m))
      + (IF count[m] > 0 THEN count[m] ELSE 0) = 1

(* A process inside p_sema_v_lock() that has not yet dropped its caller's  *)
(* lock still holds it: no path drops it twice, on some later holder.      *)
CallersLockHeld ==
  \A p \in Proc : call[p].lock # None => spin[call[p].lock] = p

(* Every way out of p_sema_v_lock(), longjmp and stops included, has       *)
(* dropped the caller's lock.                                              *)
ReturnsUnlocked ==
  [][\A p \in Proc : call[p].op = "p" /\ pc'[p] = "run"
                       => \A l \in Lock : spin'[l] # p]_vars
-----------------------------------------------------------------------------
(* Fairness.  A processor that is inside the kernel keeps executing, and a *)
(* spinning p_lock() eventually wins the lock, which is never held for     *)
(* long; a runnable process is eventually swapped in (sched() prefers the  *)
(* one that waited longest) and dispatched (a sleeper resumes at its       *)
(* kernel priority, and sched() leaves a process it swapped in alone for a *)
(* while: p_time = 0); a holder eventually V's its mutex; sched() loops.   *)
Fairness ==
  /\ \A p \in Proc : /\ SF_vars(PStep(p))
                      /\ SF_vars(Dispatch(p))
                      /\ WF_vars(SwapIn(p))
                      /\ \A m \in Mutex : WF_vars(VSema(p, m))
  /\ \A a \in Actor : SF_vars(VStep(a))
  /\ WF_vars(ClearRunout)

FairSpec == Spec /\ Fairness

(* A process that P's a mutex gets it: v_sema() serves its queue in order, *)
(* and a newcomer finds no unit while others wait.                         *)
MutexObtained ==
  \A p \in Proc, m \in Mutex :
    (call[p].op = "p" /\ call[p].sem = m) ~> (p \in own[m])

(* A signal ends a sleep at pri > PZERO: the process leaves p_sema(), or a *)
(* stop posted as well stops it first.                                     *)
SignalEndsSleep ==
  \A p \in Proc :
    (pc[p] = "off" /\ soft[p] /\ "INT" \in sig[p])
      ~> (pc[p] = "run" \/ stat[p] = "SSTOP")
=============================================================================
