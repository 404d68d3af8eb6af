---------------------------- MODULE SleepWakeup ----------------------------
(***************************************************************************)
(* sleep() and wakeup() for mono-processor drivers (balance/monop.c), on   *)
(* one of the hashed semaphores slpsemas[].                                *)
(*                                                                         *)
(* SETUP_AFF binds a process that is in such a driver to one processor,    *)
(* where the driver's interrupts are taken too, and drivers hold them off  *)
(* with spl calls: no other process of the drivers runs, and no other      *)
(* wakeup() is called, before a wakeup() returns.  Signals come from every *)
(* processor, and get in when wakeup() has dropped the gate of the         *)
(* semaphore and does not hold p_state yet.  What is done under p_state is *)
(* one step; sleepers are in memory.                                       *)
(***************************************************************************)
EXTENDS Integers, FiniteSets, SequencesExt

CONSTANTS Proc,       \* processes in mono-processor drivers
          Chan,       \* channels that SLPHASH() maps to this semaphore
          Soft,       \* the channels whose sleeps are at pri > PZERO
          None        \* no process, no channel

ASSUME NoneAssumption == None \notin Proc \cup Chan
ASSUME SoftAssumption == Soft \subseteq Chan

VARIABLES
  count,    \* s_count
  queue,    \* the semaphore's queue, from s_head to s_tail
  yawc,     \* p_yawc
  asleep,   \* p_stat is SSLEEP and p_wchan the semaphore
  sigwoke,  \* SIGWOKE in p_flag
  sig,      \* a signal is pending
  runq,     \* how many times a process is on the run queue
  pc,       \* of a process: "run", "sleep" (in sleep()), "p_sema"
  wpc,      \* of wakeup(): "idle", "walk", "p_lock", "done"
  wchan,    \* the channel of wakeup()
  wproc,    \* p in wakeup()
  alone,    \* wakeup() was called with all sleepers on one channel
  ender     \* what ended the last sleep: "wakeup" or "signal"

procVars == <<yawc, sig, pc>>
sleepVars == <<count, queue, asleep, sigwoke, runq, ender>>
wakeVars == <<wpc, wchan, wproc, alone>>
vars == <<procVars, sleepVars, wakeVars>>

TypeOK ==
  /\ count \in Int /\ count <= 0
  /\ queue \in Seq(Proc)
  /\ yawc \in [Proc -> Chan \cup {None}]
  /\ asleep \in [Proc -> BOOLEAN]
  /\ sigwoke \in [Proc -> BOOLEAN]
  /\ sig \in [Proc -> BOOLEAN]
  /\ runq \in [Proc -> Nat]
  /\ pc \in [Proc -> {"run", "sleep", "p_sema"}]
  /\ wpc \in {"idle", "walk", "p_lock", "done"}
  /\ wchan \in Chan \cup {None}
  /\ wproc \in Proc \cup {None}
  /\ alone \in BOOLEAN
  /\ ender \in [Proc -> {"wakeup", "signal"}]

(* slpboot() *)
Init ==
  /\ count = 0 /\ queue = <<>>
  /\ yawc = [p \in Proc |-> None]
  /\ asleep = [p \in Proc |-> FALSE]
  /\ sigwoke = [p \in Proc |-> FALSE]
  /\ sig = [p \in Proc |-> FALSE]
  /\ runq = [p \in Proc |-> 0]
  /\ pc = [p \in Proc |-> "run"]
  /\ wpc = "idle" /\ wchan = None /\ wproc = None /\ alone = FALSE
  /\ ender = [p \in Proc |-> "wakeup"]
-----------------------------------------------------------------------------
(* sleep(chan, pri): p_yawc is set before p_sema() is called. *)
Sleep(p, c) ==
  /\ wpc = "idle" /\ pc[p] = "run"
  /\ yawc' = [yawc EXCEPT ![p] = c]
  /\ pc' = [pc EXCEPT ![p] = "sleep"]
  /\ UNCHANGED <<sig, sleepVars, wakeVars>>

(* p_sema(), under p_state.  A soft sleep with a signal pending ends       *)
(* before it starts: SIGWOKE is set, and the signal is taken.              *)
PSema(p) ==
  /\ wpc = "idle" /\ pc[p] = "sleep"
  /\ IF yawc[p] \in Soft /\ sig[p]
     THEN /\ sigwoke' = [sigwoke EXCEPT ![p] = TRUE]
          /\ sig' = [sig EXCEPT ![p] = FALSE]
          /\ pc' = [pc EXCEPT ![p] = "run"]
          /\ UNCHANGED <<count, queue, asleep>>
     ELSE /\ count' = count - 1
          /\ queue' = Append(queue, p)
          /\ asleep' = [asleep EXCEPT ![p] = TRUE]
          /\ pc' = [pc EXCEPT ![p] = "p_sema"]
          /\ UNCHANGED <<sigwoke, sig>>
  /\ UNCHANGED <<yawc, runq, ender, wakeVars>>

(* The process is dispatched and returns from p_sema(), where SIGWOKE      *)
(* makes it look for a signal.                                             *)
Resume(p) ==
  /\ wpc = "idle" /\ pc[p] = "p_sema" /\ runq[p] > 0
  /\ runq' = [runq EXCEPT ![p] = @ - 1]
  /\ sig' = [sig EXCEPT ![p] = @ /\ ~sigwoke[p]]
  /\ pc' = [pc EXCEPT ![p] = "run"]
  /\ UNCHANGED <<yawc, count, queue, asleep, sigwoke, ender, wakeVars>>

(* remque() *)
Without(seq, p) ==
  IF p \in ToSet(seq)
  THEN RemoveAt(seq, CHOOSE i \in DOMAIN seq : seq[i] = p) ELSE seq

(* Mutant: wakeup() leaves SIGWOKE set. *)
ForceVSemaKeep(p, by) ==
  /\ queue' = Without(queue, p)
  /\ count' = count + 1
  /\ asleep' = [asleep EXCEPT ![p] = FALSE]
  /\ sigwoke' = [sigwoke EXCEPT ![p] = TRUE]
  /\ runq' = [runq EXCEPT ![p] = @ + 1]
  /\ ender' = [ender EXCEPT ![p] = by]

(* force_v_sema(p), and the reset of SIGWOKE that follows in wakeup(). *)
ForceVSema(p, by) ==
  /\ queue' = Without(queue, p)
  /\ count' = count + 1
  /\ asleep' = [asleep EXCEPT ![p] = FALSE]
  /\ sigwoke' = [sigwoke EXCEPT ![p] = (by = "signal")]
  /\ runq' = [runq EXCEPT ![p] = @ + 1]
  /\ ender' = [ender EXCEPT ![p] = by]

(* psignal() on another processor: a soft sleep ends. *)
PSignal(p) ==
  /\ ~sig[p]
  /\ sig' = [sig EXCEPT ![p] = TRUE]
  /\ IF asleep[p] /\ yawc[p] \in Soft THEN ForceVSema(p, "signal")
                                      ELSE UNCHANGED sleepVars
  /\ UNCHANGED <<yawc, pc, wakeVars>>
-----------------------------------------------------------------------------
(* The while loop of wakeup(), from s_head: the first process on channel c *)
(* that is reached by p_rlink, or None at the semaphore.  p_rlink leads    *)
(* towards the head, and from the head to the semaphore.                   *)
Found(c) ==
  LET walk[i \in 0 .. Len(queue)] ==
        IF i = 0 THEN None
        ELSE IF yawc[queue[i]] = c THEN queue[i] ELSE walk[i - 1]
  IN walk[IF queue = <<>> THEN 0 ELSE 1]

(* wakeup(chan) *)
Wakeup(c) ==
  /\ wpc = "idle"
  /\ wpc' = "walk" /\ wchan' = c
  /\ alone' = \A p, q \in ToSet(queue) : yawc[p] = yawc[q]
  /\ UNCHANGED <<procVars, sleepVars, wproc>>

(* Under the gate, which is dropped when a process is found. *)
Walk ==
  /\ wpc = "walk"
  /\ wproc' = Found(wchan)
  /\ wpc' = IF Found(wchan) = None THEN "done" ELSE "p_lock"
  /\ UNCHANGED <<procVars, sleepVars, wchan, alone>>

(* Mutant: no second look at p_wchan. *)
WakeProcBlind ==
  /\ wpc = "p_lock"
  /\ ForceVSema(wproc, "wakeup")
  /\ wpc' = "walk"
  /\ UNCHANGED <<procVars, wchan, wproc, alone>>

(* Mutant: the walk does not start again. *)
WakeProcOnce ==
  /\ wpc = "p_lock"
  /\ IF asleep[wproc] THEN ForceVSema(wproc, "wakeup") ELSE UNCHANGED sleepVars
  /\ wpc' = "done"
  /\ UNCHANGED <<procVars, wchan, wproc, alone>>

(* Under p_state: "recheck in case signal won the race". *)
WakeProc ==
  /\ wpc = "p_lock"
  /\ IF asleep[wproc] THEN ForceVSema(wproc, "wakeup") ELSE UNCHANGED sleepVars
  /\ wpc' = "walk"
  /\ UNCHANGED <<procVars, wchan, wproc, alone>>

WakeupReturn ==
  /\ wpc = "done"
  /\ wpc' = "idle" /\ wchan' = None /\ wproc' = None /\ alone' = FALSE
  /\ UNCHANGED <<procVars, sleepVars>>

Next == \/ \E p \in Proc : PSema(p) \/ Resume(p) \/ PSignal(p)
        \/ \E p \in Proc, c \in Chan : Sleep(p, c)
        \/ \E c \in Chan : Wakeup(c)
        \/ Walk \/ WakeProc \/ WakeupReturn

Spec == Init /\ [][Next]_vars
-----------------------------------------------------------------------------
(* A sleeper is on the queue, once, and is woken once, by wakeup() or by a *)
(* signal, whoever takes p_state first.                                    *)
WokenOnce ==
  /\ \A p \in Proc :
       /\ asleep[p] <=> p \in ToSet(queue)
       /\ asleep[p] => pc[p] = "p_sema" /\ runq[p] = 0
       /\ runq[p] <= IF pc[p] = "p_sema" THEN 1 ELSE 0
       /\ pc[p] = "p_sema" => asleep[p] \/ runq[p] = 1
  /\ count = -Cardinality(ToSet(queue)) /\ Cardinality(ToSet(queue)) = Len(queue)

(* A process that wakeup() made runnable returns from sleep(): it does not *)
(* take a signal that was posted after wakeup(), nor does it give one up.  *)
WakeupNotSignal ==
  \A p \in Proc : runq[p] > 0 => (sigwoke[p] <=> ender[p] = "signal")

(* wakeup(chan) returns with nobody asleep on chan when all the sleepers   *)
(* it found on the semaphore were on one channel.                          *)
WakesAllAlone ==
  wpc = "done" /\ alone => \A p \in ToSet(queue) : yawc[p] # wchan

(* wakeup() does what its comment says, "Wake up all processes sleeping on *)
(* chan", whatever other channels hash to the semaphore.                   *)
WakesAll == wpc = "done" => \A p \in ToSet(queue) : yawc[p] # wchan
=============================================================================
