----------------------------- MODULE SemaProofs -----------------------------
(* The safety properties of Sema hold in every reachable state, for any    *)
(* processes, interrupt contexts, semaphores and locks.  That a mutex      *)
(* excludes is at the end, with an invariant of its own.                   *)
EXTENDS Sema, QueueLemmas, FiniteSetTheorems

-----------------------------------------------------------------------------
(* The inductive invariant, in parts.                                      *)

AsleepLabel == {"p_sleep", "p_swtch", "off"}
StateHeldLabel == {"p_gate", "p_sleep", "p_swtch", "issig", "stop_swtch"}
OffLabel == {"p_swtch", "off", "stop_swtch", "stop_off"}
PickLabel == {"wake", "runout_wake", "force_run"}

(* What the record of an actor's call says at each label.  The caller's    *)
(* lock is gone once the process slept or stopped.                         *)
CallOK(a) ==
  /\ pc[a] = "run" => call[a] = NoCall
  /\ pc[a] \in VLabel => call[a].op # "p" /\ call[a].lock = None
  /\ pc[a] = "cp_gate" /\ call[a].sem \in Mutex => a \in Proc
  /\ pc[a] \in PLabel =>
       /\ a \in Proc
       /\ call[a].op = "p"
       /\ a = sched <=> call[a].sem = runout
       /\ a = sched => ~call[a].soft
       /\ pc[a] \in OffLabel \cup {"back", "relock", "stop_back"} => call[a].lock = None
       /\ call[a].slept \/ call[a].stopped => call[a].lock = None
       /\ pc[a] \in {"p_try", "p_lock", "p_gate"} \cup AsleepLabel =>
            ~call[a].slept /\ ~call[a].stopped
CallInv == \A a \in Actor : CallOK(a)
SpinInv == \A p \in Proc : pc[p] \in PLabel =>
             \A l \in Lock : spin[l] = p => l = call[p].lock

(* Who holds p_state: the process itself up to swtch(), the sender of a    *)
(* signal over force_v_sema(), a waker over v_sema(&runout).               *)
StateInv ==
  /\ \A p \in Proc : pc[p] \in StateHeldLabel => plock[p] = p
  /\ \A a \in Actor : pc[a] \in {"force_gate", "force_run"} =>
       tgt[a] \in Proc /\ plock[tgt[a]] = a
  /\ \A a \in Actor : held[a] # None =>
       pc[a] \in {"runout_gate", "runout_wake"} /\ plock[held[a]] = a

(* A process between joining a queue and being made runnable. *)
Sleeping(p) == pc[p] \in AsleepLabel /\ stat[p] # "SRUN"

(* The queues hold sleepers of their semaphore, each once. *)
QueueInv == \A s \in Sema : IsQueue(queue[s], Proc)
WaiterInv == \A s \in Sema : \A p \in ToSet(queue[s]) :
               Sleeping(p) /\ call[p].sem = s /\ link[p]

(* p_stat and the place in the code agree. *)
RunInv ==
  \A p \in Proc :
    /\ pc[p] \notin OffLabel => stat[p] = "SONPROC"
    /\ pc[p] = "p_swtch" => stat[p] = "SSLEEP"
    /\ pc[p] = "off" => stat[p] \in {"SSLEEP", "SRUN"}
    /\ pc[p] = "stop_swtch" => stat[p] = "SSTOP"
    /\ pc[p] = "stop_off" => stat[p] \in {"SSTOP", "SRUN"}
    /\ runq[p] = IF stat[p] = "SRUN" /\ loaded[p] THEN 1 ELSE 0
    /\ p = sched => loaded[p]
    /\ pc[p] \in {"p_swtch", "off"} =>
         /\ soft[p] <=> call[p].soft
         /\ stat[p] = "SSLEEP" => wchan[p] = call[p].sem

(* The target of a waker sleeps, off the queue, and no other has it. *)
TargetInv ==
  \A a \in Actor : pc[a] \in PickLabel =>
    /\ tgt[a] \in Proc
    /\ Sleeping(tgt[a])
    /\ ~OnQueue(tgt[a])
    /\ pc[a] # "force_run" => ~link[tgt[a]]
    /\ pc[a] = "runout_wake" => tgt[a] = sched
ForceInv ==
  \A a \in Actor : pc[a] \in {"force_gate", "force_run"} =>
    pc[tgt[a]] = "off" /\ stat[tgt[a]] = "SSLEEP" /\ soft[tgt[a]]
OneWakerInv ==
  \A a, b \in Actor :
    pc[a] \in PickLabel /\ pc[b] \in PickLabel /\ tgt[a] = tgt[b] => a = b

(* No wakeup is lost: a process off the queue has been picked or woken. *)
NotLostInv ==
  \A p \in Proc : Sleeping(p) /\ ~OnQueue(p) =>
    \E a \in Actor : pc[a] \in PickLabel /\ tgt[a] = p

(* Signals looked at under p_state, and SIGWOKE. *)
SigSeenInv == \A p \in Proc : /\ pc[p] \in {"p_gate", "p_sleep", "p_swtch"}
                              /\ call[p].soft
                              => sig[p] = {}
Unseen(p) == pc[p] = "off" /\ stat[p] = "SSLEEP" /\ call[p].soft /\ sig[p] # {}
InHand(a, p) == (pc[a] \in PickLabel \/ pc[a] = "force_gate") /\ tgt[a] = p
SigSleepInv == \A p \in Proc : Unseen(p) => \E a \in Actor : InHand(a, p)
HardInv ==
  \A p \in Proc : /\ sigwoke[p]
                  /\ pc[p] = "back" \/ (pc[p] = "off" /\ stat[p] = "SRUN")
                  => call[p].soft

PlaceInv == QueueInv /\ WaiterInv /\ TargetInv /\ OneWakerInv /\ NotLostInv

IInv ==
  /\ TypeOK /\ CallInv /\ SpinInv /\ CallersLockHeld /\ StateInv
  /\ QueueInv /\ WaiterInv /\ TargetInv /\ OneWakerInv /\ NotLostInv
  /\ CountMatchesQueue /\ RunInv /\ ForceInv /\ SigSeenInv /\ SigSleepInv /\ HardInv

USE ActorsDiffer, SchedAssumption, SemaAssumption

-----------------------------------------------------------------------------
(* The part of the invariant about the queues and the wakers.              *)
LEMMA QueueMembers ==
  IInv => \A s \in Sema : ToSet(queue[s]) \subseteq Proc
BY DEF IInv, QueueInv, IsQueue, ToSet

PlaceType == /\ count \in [Sema -> Int]
             /\ queue \in [Sema -> Seq(Proc)]
             /\ link \in [Proc -> BOOLEAN]
             /\ tgt \in [Actor -> Proc \cup {None}]

(* It survives a step that leaves the queues, the sleepers and the wakers  *)
(* with a target alone.                                                    *)
LEMMA PlaceFrame ==
  ASSUME IInv, UNCHANGED queue,
         \A p \in Proc : /\ Sleeping(p)' <=> Sleeping(p)
                         /\ Sleeping(p) => call'[p].sem = call[p].sem /\ link'[p] = link[p],
         \A a \in Actor : pc[a] \in PickLabel \/ pc'[a] \in PickLabel =>
                            pc'[a] = pc[a] /\ tgt'[a] = tgt[a]
  PROVE  PlaceInv'
<1>2. \A p : OnQueue(p)' <=> OnQueue(p)
  BY DEF OnQueue
<1>3. QueueInv'
  BY DEF IInv, QueueInv
<1>4. WaiterInv'
  BY QueueMembers DEF IInv, WaiterInv
<1>5. TargetInv'
  BY <1>2 DEF IInv, TargetInv
<1>6. OneWakerInv'
  BY DEF IInv, OneWakerInv
<1>7. NotLostInv'
  BY <1>2 DEF IInv, NotLostInv
<1> QED
  BY <1>3, <1>4, <1>5, <1>6, <1>7 DEF PlaceInv

(* A V with waiters: the head of the queue becomes the target of a.        *)
LEMMA PlaceDequeue ==
  ASSUME IInv, NEW a \in Actor, NEW s \in Sema, count[s] < 0, Dequeue(a, s),
         pc[a] \notin PickLabel, NEW label \in {"wake", "runout_wake"},
         label = "runout_wake" => s = runout,
         pc' = [pc EXCEPT ![a] = label], pc[a] \notin AsleepLabel,
         UNCHANGED stat, \A p \in Proc : Sleeping(p) => call'[p].sem = call[p].sem
  PROVE  PlaceType' /\ PlaceInv' /\ CountMatchesQueue'
<1> DEFINE h == Head(queue[s])
<1>1. /\ Len(queue[s]) = -count[s] /\ Len(queue[s]) > 0
      /\ IsQueue(queue[s], Proc)
  BY DEF IInv, TypeOK, CountMatchesQueue, QueueInv
<1>2. /\ IsQueue(Tail(queue[s]), Proc)
      /\ Len(Tail(queue[s])) = Len(queue[s]) - 1
      /\ h \in ToSet(queue[s])
      /\ h \in Proc
      /\ ToSet(Tail(queue[s])) = ToSet(queue[s]) \ {h}
  BY <1>1, QueueTail
<1> HIDE DEF h
<1>3. /\ queue' = [queue EXCEPT ![s] = Tail(queue[s])]
      /\ count' = [count EXCEPT ![s] = count[s] + 1]
      /\ link' = [link EXCEPT ![h] = FALSE]
      /\ tgt' = [tgt EXCEPT ![a] = h]
  BY DEF Dequeue, h
<1>4. /\ count \in [Sema -> Int] /\ queue \in [Sema -> Seq(Proc)]
      /\ link \in [Proc -> BOOLEAN] /\ tgt \in [Actor -> Proc \cup {None}]
      /\ DOMAIN pc = Actor
  BY DEF IInv, TypeOK
<1>5. \A r \in Sema : ToSet(queue'[r]) = ToSet(queue[r]) \ {h}
  <2>1. ASSUME NEW r \in Sema, r # s PROVE h \notin ToSet(queue[r])
    BY <2>1, <1>2 DEF IInv, WaiterInv
  <2> QED
    BY <2>1, <1>2, <1>3, <1>4
<1>6. \A p : OnQueue(p)' <=> OnQueue(p) /\ p # h
  BY <1>5 DEF OnQueue
<1>7. \A p \in Proc : Sleeping(p)' <=> Sleeping(p)
  <2>1. \A p \in Proc : pc'[p] \in AsleepLabel <=> pc[p] \in AsleepLabel
    BY <1>4 DEF AsleepLabel, Actor
  <2> QED
    BY <2>1 DEF Sleeping
<1>8. /\ Sleeping(h) /\ OnQueue(h) /\ call[h].sem = s
      /\ s = runout => h = sched
  BY <1>2 DEF IInv, WaiterInv, CallInv, CallOK, OnQueue, Sleeping, AsleepLabel, PLabel, Actor
<1>9. QueueInv'
  BY <1>2, <1>3, <1>4 DEF IInv, QueueInv
<1>10. WaiterInv'
  <2>1. SUFFICES ASSUME NEW r \in Sema, NEW p \in ToSet(queue'[r])
                 PROVE  Sleeping(p)' /\ call'[p].sem = r /\ link'[p]
    BY DEF WaiterInv
  <2>2. p \in ToSet(queue[r]) /\ p # h /\ p \in Proc
    BY <1>5, QueueMembers
  <2> QED
    BY <2>2, <1>3, <1>4, <1>7 DEF IInv, WaiterInv
<1>11. TargetInv'
  <2>1. \A b \in Actor : b # a => pc'[b] = pc[b] /\ tgt'[b] = tgt[b]
    BY <1>3, <1>4
  <2>2. pc'[a] = label /\ tgt'[a] = h /\ ~link'[h]
    BY <1>2, <1>3, <1>4
  <2>3. \A b \in Actor : pc[b] \in PickLabel => tgt[b] # h
    BY <1>8 DEF IInv, TargetInv
  <2> QED
    BY <2>1, <2>2, <2>3, <1>2, <1>3, <1>4, <1>6, <1>7, <1>8 DEF IInv, TargetInv
<1>12. OneWakerInv'
  <2>1. \A b \in Actor : b # a => pc'[b] = pc[b] /\ tgt'[b] = tgt[b]
    BY <1>3, <1>4
  <2>2. tgt'[a] = h
    BY <1>3, <1>4
  <2>3. \A b \in Actor : pc[b] \in PickLabel => tgt[b] # h
    BY <1>8 DEF IInv, TargetInv
  <2> QED
    BY <2>1, <2>2, <2>3 DEF IInv, OneWakerInv
<1>13. NotLostInv'
  <2>1. \A b \in Actor : pc[b] \in PickLabel =>
          b # a /\ pc'[b] = pc[b] /\ tgt'[b] = tgt[b]
    BY <1>3, <1>4
  <2>2. pc'[a] \in PickLabel /\ tgt'[a] = h
    BY <1>3, <1>4 DEF PickLabel
  <2> QED
    BY <2>1, <2>2, <1>6, <1>7 DEF IInv, NotLostInv
<1>14. CountMatchesQueue'
  BY <1>1, <1>2, <1>3, <1>4 DEF IInv, CountMatchesQueue
<1>15. PlaceType'
  BY <1>2, <1>3, <1>4 DEF PlaceType, IsQueue
<1> QED
  BY <1>9, <1>10, <1>11, <1>12, <1>13, <1>14, <1>15 DEF PlaceInv

(* The end of a sleep: the target of a becomes runnable.                   *)
LEMMA PlaceAwaken ==
  ASSUME IInv, NEW a \in Actor, pc[a] \in PickLabel, UNCHANGED queue,
         NEW q \in Proc, q = tgt[a], ~Sleeping(q)', pc'[a] \notin PickLabel,
         \A b \in Actor : b # a => pc'[b] = pc[b] /\ tgt'[b] = tgt[b],
         \A p \in Proc : p # q =>
            /\ Sleeping(p)' <=> Sleeping(p)
            /\ Sleeping(p) => call'[p].sem = call[p].sem /\ link'[p] = link[p]
  PROVE  PlaceInv'
<1>2. \A p : OnQueue(p)' <=> OnQueue(p)
  BY DEF OnQueue
<1>3. ~OnQueue(q)
  BY DEF IInv, TargetInv
<1>4. \A b \in Actor : b # a /\ pc[b] \in PickLabel => tgt[b] # q
  BY DEF IInv, OneWakerInv
<1>5. QueueInv'
  BY DEF IInv, QueueInv
<1>6. WaiterInv'
  BY <1>3, QueueMembers DEF IInv, WaiterInv, OnQueue
<1>7. TargetInv'
  BY <1>2, <1>4 DEF IInv, TargetInv
<1>8. OneWakerInv'
  BY DEF IInv, OneWakerInv
<1>9. NotLostInv'
  BY <1>2 DEF IInv, NotLostInv
<1> QED
  BY <1>5, <1>6, <1>7, <1>8, <1>9 DEF PlaceInv

(* Joining the queue of s, in p_sema().                                    *)
LEMMA PlaceAppend ==
  ASSUME IInv, NEW p \in Proc, NEW s \in Sema, pc[p] = "p_gate", call[p].sem = s,
         count[s] <= 0,
         count' = [count EXCEPT ![s] = @ - 1],
         queue' = [queue EXCEPT ![s] = Append(@, p)],
         link' = [link EXCEPT ![p] = TRUE],
         pc' = [pc EXCEPT ![p] = "p_sleep"],
         UNCHANGED <<call, stat, tgt>>
  PROVE  PlaceType' /\ PlaceInv' /\ CountMatchesQueue'
<1>1. /\ count \in [Sema -> Int] /\ queue \in [Sema -> Seq(Proc)]
      /\ link \in [Proc -> BOOLEAN] /\ DOMAIN pc = Actor
      /\ IsQueue(queue[s], Proc)
  BY DEF IInv, TypeOK, QueueInv
<1> stat[p] = "SONPROC"
  BY DEF IInv, RunInv, OffLabel
<1>2. ~Sleeping(p) /\ Sleeping(p)'
  BY <1>1 DEF Sleeping, AsleepLabel, Actor
<1>3. \A q \in Proc : q # p => (Sleeping(q)' <=> Sleeping(q))
  BY <1>1 DEF Sleeping, Actor
<1>4. \A r \in Sema : p \notin ToSet(queue[r])
  BY <1>2 DEF IInv, WaiterInv
<1>5. /\ IsQueue(Append(queue[s], p), Proc)
      /\ Len(Append(queue[s], p)) = Len(queue[s]) + 1
      /\ ToSet(Append(queue[s], p)) = ToSet(queue[s]) \cup {p}
  BY <1>1, <1>4, QueueAppend
<1>6. \A r \in Sema : ToSet(queue'[r]) = ToSet(queue[r]) \cup (IF r = s THEN {p} ELSE {})
  BY <1>1, <1>5
<1>7. \A q : OnQueue(q)' <=> OnQueue(q) \/ q = p
  BY SMTT(60), <1>6 DEF OnQueue
<1>8. QueueInv'
  BY <1>1, <1>5 DEF IInv, QueueInv
<1>9. WaiterInv'
  <2>1. SUFFICES ASSUME NEW r \in Sema, NEW q \in ToSet(queue'[r])
                 PROVE  Sleeping(q)' /\ call'[q].sem = r /\ link'[q]
    BY DEF WaiterInv
  <2>2. CASE q = p
    BY <2>2, <1>1, <1>2, <1>4, <1>6
  <2>3. CASE q # p
    <3>1. q \in ToSet(queue[r])
      <4>1. ToSet(queue'[r]) \subseteq ToSet(queue[r]) \cup {p}
        BY <1>6
      <4> QED
        BY <4>1, <2>1, <2>3
    <3>2. q \in Proc
      BY <3>1, QueueMembers
    <3> QED
      BY <3>1, <3>2, <2>3, <1>1, <1>3 DEF IInv, WaiterInv
  <2> QED
    BY <2>2, <2>3
<1>10. \A a \in Actor : pc[a] \in PickLabel \/ pc'[a] \in PickLabel =>
                          a # p /\ pc'[a] = pc[a]
  BY <1>1 DEF PickLabel, Actor
<1>11. TargetInv'
  BY <1>1, <1>2, <1>3, <1>7, <1>10 DEF IInv, TargetInv
<1>12. OneWakerInv'
  BY <1>10 DEF IInv, OneWakerInv
<1>13. NotLostInv'
  BY <1>3, <1>7, <1>10 DEF IInv, NotLostInv
<1>14. CountMatchesQueue'
  BY <1>1, <1>5 DEF IInv, CountMatchesQueue
<1>15. PlaceType'
  BY <1>1, <1>5 DEF IInv, TypeOK, PlaceType, IsQueue
<1> QED
  BY <1>8, <1>9, <1>11, <1>12, <1>13, <1>14, <1>15 DEF PlaceInv

(* The removal of q from the queue it is on, by force_v_sema().            *)
LEMMA PlaceYank ==
  ASSUME IInv, NEW a \in Actor, NEW q \in Proc, NEW s \in Sema,
         pc[a] = "force_gate", tgt[a] = q, q \in ToSet(queue[s]),
         count' = [count EXCEPT ![s] = @ + 1],
         queue' = [queue EXCEPT ![s] = Without(@, q)],
         pc' = [pc EXCEPT ![a] = "force_run"],
         UNCHANGED <<call, stat, tgt, link>>
  PROVE  PlaceType' /\ PlaceInv' /\ CountMatchesQueue'
<1>1. /\ count \in [Sema -> Int] /\ queue \in [Sema -> Seq(Proc)]
      /\ DOMAIN pc = Actor
      /\ IsQueue(queue[s], Proc)
  BY DEF IInv, TypeOK, QueueInv
<1>2. /\ IsQueue(Without(queue[s], q), Proc)
      /\ Len(Without(queue[s], q)) = Len(queue[s]) - 1
      /\ ToSet(Without(queue[s], q)) = ToSet(queue[s]) \ {q}
  <2> DEFINE k == CHOOSE i \in DOMAIN queue[s] : queue[s][i] = q
  <2>1. k \in DOMAIN queue[s] /\ queue[s][k] = q
    BY DEF ToSet
  <2>2. Without(queue[s], q) = RemoveAt(queue[s], k)
    BY DEF Without
  <2> HIDE DEF k
  <2> QED
    BY <1>1, <2>1, <2>2, QueueRemoveAt
<1>3. \A p \in Proc : Sleeping(p)' <=> Sleeping(p)
  <2>1. \A p \in Proc : pc'[p] \in AsleepLabel <=> pc[p] \in AsleepLabel
    BY <1>1 DEF AsleepLabel, Actor
  <2> QED
    BY <2>1 DEF Sleeping
<1>4. \A r \in Sema : ToSet(queue'[r]) = ToSet(queue[r]) \ {q}
  <2>1. ASSUME NEW r \in Sema, r # s PROVE q \notin ToSet(queue[r])
    BY <2>1 DEF IInv, WaiterInv
  <2> QED
    BY <2>1, <1>1, <1>2
<1>5. \A p : OnQueue(p)' <=> OnQueue(p) /\ p # q
  BY <1>4 DEF OnQueue
<1>6. Sleeping(q) /\ OnQueue(q)
  BY DEF IInv, WaiterInv, OnQueue
<1>7. \A b \in Actor : pc[b] \in PickLabel => b # a /\ pc'[b] = pc[b] /\ tgt[b] # q
  BY <1>1, <1>6 DEF IInv, TargetInv, PickLabel
<1>8. \A b \in Actor : pc'[b] \in PickLabel => pc[b] \in PickLabel \/ b = a
  BY <1>1
<1>9. pc'[a] = "force_run" /\ pc'[a] \in PickLabel
  BY <1>1 DEF PickLabel
<1>10. QueueInv'
  BY <1>1, <1>2 DEF IInv, QueueInv
<1>11. WaiterInv'
  <2>1. SUFFICES ASSUME NEW r \in Sema, NEW p \in ToSet(queue'[r])
                 PROVE  Sleeping(p)' /\ call'[p].sem = r /\ link'[p]
    BY DEF WaiterInv
  <2>2. p \in ToSet(queue[r]) /\ p \in Proc
    BY <1>4, QueueMembers
  <2> QED
    BY <2>2, <1>3 DEF IInv, WaiterInv
<1>12. TargetInv'
  BY <1>3, <1>5, <1>6, <1>7, <1>8, <1>9 DEF IInv, TargetInv
<1>13. OneWakerInv'
  BY <1>7, <1>8 DEF IInv, OneWakerInv
<1>14. NotLostInv'
  BY <1>3, <1>5, <1>7, <1>9 DEF IInv, NotLostInv
<1>15. CountMatchesQueue'
  <2>1. Len(queue[s]) \in Nat /\ Len(queue[s]) > 0
    BY <1>1, LenProperties DEF ToSet
  <2> QED
    BY <2>1, <1>1, <1>2 DEF IInv, CountMatchesQueue
<1>16. PlaceType'
  BY <1>1, <1>2 DEF IInv, TypeOK, PlaceType, IsQueue
<1> QED
  BY <1>10, <1>11, <1>12, <1>13, <1>14, <1>15, <1>16 DEF PlaceInv

(* An actor's record is replaced.                                          *)
LEMMA CallReplaced ==
  ASSUME IInv, NEW a \in Actor, NEW c \in CallType, call' = [call EXCEPT ![a] = c]
  PROVE  /\ call' \in [Actor -> CallType]
         /\ call'[a] = c
         /\ \A b \in Actor : b # a => call'[b] = call[b]
BY DEF IInv, TypeOK

(* What a waker that has the target's p_state finds.                       *)
LEMMA TargetState ==
  ASSUME IInv, NEW a \in Actor, pc[a] \in PickLabel, NEW q \in Proc, q = tgt[a],
         plock[q] = None \/ pc[a] = "force_run"
  PROVE  /\ pc[q] = "off" /\ stat[q] = "SSLEEP" /\ runq[q] = 0
         /\ q # a
<1>1. pc[q] = "off"
  <2>1. CASE pc[a] = "force_run"
    BY <2>1 DEF IInv, ForceInv
  <2>2. CASE plock[q] = None
    <3>1. pc[q] \in AsleepLabel
      BY DEF IInv, TargetInv, Sleeping
    <3>2. q # None
      BY ActorsDiffer DEF Actor
    <3> QED
      BY <2>2, <3>1, <3>2 DEF IInv, StateInv, StateHeldLabel, AsleepLabel
  <2> QED
    BY <2>1, <2>2
<1>2. stat[q] = "SSLEEP"
  BY <1>1 DEF IInv, TargetInv, RunInv, Sleeping
<1> QED
  BY <1>1, <1>2 DEF IInv, RunInv, PickLabel

(* A process that sleeps or is stopped has its context saved when its      *)
(* p_state is free.                                                        *)
LEMMA ContextSaved ==
  ASSUME IInv, NEW q \in Proc, plock[q] = None
  PROVE  /\ stat[q] = "SSLEEP" => pc[q] = "off"
         /\ stat[q] = "SSTOP" => pc[q] = "stop_off"
<1>1. q # None
  BY ActorsDiffer DEF Actor
<1>2. pc[q] # "p_swtch" /\ pc[q] # "stop_swtch"
  BY <1>1 DEF IInv, StateInv, StateHeldLabel
<1> QED
  BY <1>2 DEF IInv, RunInv, OffLabel

(* A process on the run queue is runnable and its context is saved.        *)
LEMMA RunQueueState ==
  ASSUME IInv, NEW p \in Proc, runq[p] > 0
  PROVE  /\ stat[p] = "SRUN" /\ loaded[p] /\ runq[p] = 1
         /\ pc[p] \in {"off", "stop_off"}
<1>1. stat[p] = "SRUN" /\ loaded[p] /\ runq[p] = 1
  BY DEF IInv, RunInv
<1> QED
  BY <1>1 DEF IInv, RunInv, OffLabel

(* The end of a V: a returns, or goes round vall_sema()'s loop, and drops  *)
(* the p_state it kept over v_sema(&runout).                               *)
LEMMA WakerDoneEffect ==
  ASSUME IInv, NEW a \in Actor, pc[a] \in VLabel, WakerDone(a)
  PROVE  /\ call' \in [Actor -> CallType]
         /\ pc' \in [Actor -> {"run"} \cup PLabel \cup VLabel]
         /\ tgt' \in [Actor -> Proc \cup {None}]
         /\ held' \in [Actor -> Proc \cup {None}]
         /\ plock' \in [Proc -> Actor \cup {None}]
         /\ pc'[a] \in {"run", "vall"}
         /\ pc'[a] = "run" => call'[a] = NoCall
         /\ pc'[a] = "vall" => call'[a] = call[a]
         /\ tgt'[a] = None /\ held'[a] = None
         /\ \A b \in Actor : b # a => /\ pc'[b] = pc[b] /\ call'[b] = call[b]
                                     /\ tgt'[b] = tgt[b] /\ held'[b] = held[b]
         /\ \A p \in Proc : plock'[p] = IF p = held[a] THEN None ELSE plock[p]
<1> USE DEF WakerDone
<1>1. /\ pc \in [Actor -> {"run"} \cup PLabel \cup VLabel] /\ call \in [Actor -> CallType]
      /\ tgt \in [Actor -> Proc \cup {None}] /\ held \in [Actor -> Proc \cup {None}]
      /\ plock \in [Proc -> Actor \cup {None}]
      /\ NoCall \in CallType
  BY SemaAssumption DEF IInv, TypeOK, CallType, NoCall
<1>2. /\ tgt' \in [Actor -> Proc \cup {None}]
      /\ held' \in [Actor -> Proc \cup {None}]
      /\ tgt'[a] = None /\ held'[a] = None
      /\ \A b \in Actor : b # a => tgt'[b] = tgt[b] /\ held'[b] = held[b]
  BY <1>1
<1>3. /\ plock' \in [Proc -> Actor \cup {None}]
      /\ \A p \in Proc : plock'[p] = IF p = held[a] THEN None ELSE plock[p]
  BY <1>1, ActorsDiffer DEF Release, Actor
<1>4. CASE call[a].op = "vall"
  <2>1. pc' = [pc EXCEPT ![a] = "vall"] /\ call' = call
    BY <1>4 DEF Goto
  <2> QED
    BY <2>1, <1>1, <1>2, <1>3 DEF VLabel
<1>5. CASE call[a].op # "vall"
  <2>1. pc' = [pc EXCEPT ![a] = "run"] /\ call' = [call EXCEPT ![a] = NoCall]
    BY <1>5 DEF Return, Goto
  <2> QED
    BY <2>1, <1>1, <1>2, <1>3
<1> QED
  BY <1>4, <1>5

(* A sleeper with a signal to look at keeps somebody who has it in hand.   *)
LEMMA SigSleepFrame ==
  ASSUME IInv, NEW a \in Actor,
         \A b \in Actor : b # a => pc'[b] = pc[b] /\ tgt'[b] = tgt[b],
         \A p \in Proc : Unseen(p)' => InHand(a, p)' \/ (Unseen(p) /\ ~InHand(a, p))
  PROVE  SigSleepInv'
<1>1. SUFFICES ASSUME NEW p \in Proc, Unseen(p)'
               PROVE  \E b \in Actor : InHand(b, p)'
  BY DEF SigSleepInv
<1>2. CASE InHand(a, p)'
  BY <1>2
<1>3. CASE Unseen(p) /\ ~InHand(a, p)
  <2>1. PICK b \in Actor : InHand(b, p)
    BY <1>3 DEF IInv, SigSleepInv
  <2>2. b # a
    BY <1>3, <2>1
  <2> QED
    BY <2>1, <2>2 DEF InHand
<1> QED
  BY <1>1, <1>2, <1>3

(* The records of the other actors are left alone. *)
LEMMA CallFrame ==
  ASSUME IInv, NEW a \in Actor, CallOK(a)',
         \A b \in Actor : b # a => pc'[b] = pc[b] /\ call'[b] = call[b]
  PROVE  CallInv'
BY DEF IInv, CallInv, CallOK

-----------------------------------------------------------------------------
(* Each action preserves the invariant. *)

USE DEF IInv, TypeOK, NoCall, Actor, PLabel, VLabel, OffLabel, AsleepLabel,
        StateHeldLabel, PickLabel

(* The first look under the gate: 2 outcomes. *)
LEMMA PSemaTry1Step ==
  ASSUME IInv, NEW p \in Proc, PSemaTry(p), count[call[p].sem] > 0
  PROVE  IInv'
<1>1. /\ pc[p] = "p_try" /\ pc' = [pc EXCEPT ![p] = "run"]
      /\ call' = [call EXCEPT ![p] = NoCall]
      /\ spin' = IF call[p].lock = None THEN spin ELSE [spin EXCEPT ![call[p].lock] = None]
      /\ count' = [count EXCEPT ![call[p].sem] = @ - 1]
      /\ UNCHANGED <<queue, plock, sigwoke, wchan, soft, stat, link, loaded, runq, sig,
                     tgt, held>>
  BY DEF PSemaTry, Goto, ReleaseCallersLock, Grant, sleepVars, runVars, Return
<1>2. own' \in [Sema -> SUBSET Proc]
  <2>1. own' = IF call[p].sem \in Mutex THEN [own EXCEPT ![call[p].sem] = @ \cup {p}] ELSE own
    BY DEF PSemaTry, Grant
  <2> QED
    BY <2>1 DEF IInv, TypeOK
<1>3. PlaceInv'
  BY <1>1, <1>2, PlaceFrame DEF Sleeping, RunInv
<1>4. CountMatchesQueue'
  BY <1>1 DEF CountMatchesQueue
<1>5. TypeOK'
  <2>1. call[p].sem \in Sema /\ call[p].lock \in Lock \cup {None}
    BY DEF CallType
  <2>2. call' \in [Actor -> CallType]
    <3>1. NoCall \in CallType
      BY DEF CallType
    <3> QED
      BY <1>1, <3>1, CallReplaced DEF Actor
  <2>3. count' \in [Sema -> Int]
    BY <1>1, <2>1
  <2>4. spin' \in [Lock -> Actor \cup {None}]
    BY <1>1, <2>1
  <2>5. pc' \in [Actor -> {"run"} \cup PLabel \cup VLabel]
    BY <1>1
  <2>6. plock' \in [Proc -> Actor \cup {None}]
    BY <1>1
  <2> QED
    BY <1>1, <1>2, <2>2, <2>3, <2>4, <2>5, <2>6
<1>6. CallInv'
  BY ZenonT(60), <1>1, <1>2, CallFrame DEF CallInv, CallOK
<1>7. SigSleepInv'
  BY <1>1, <1>2, SigSleepFrame DEF Unseen, InHand, RunInv, SigSeenInv
<1>8. /\ SpinInv' /\ CallersLockHeld' /\ StateInv' /\ RunInv'
      /\ ForceInv' /\ SigSeenInv' /\ HardInv'
  BY <1>1, <1>2 DEF SpinInv, CallInv, CallOK, CallersLockHeld, StateInv,
     RunInv, ForceInv, SigSeenInv, HardInv
<1> QED
  BY <1>3, <1>4, <1>5, <1>6, <1>7, <1>8 DEF PlaceInv

LEMMA PSemaTry2Step ==
  ASSUME IInv, NEW p \in Proc, PSemaTry(p), ~(count[call[p].sem] > 0)
  PROVE  IInv'
<1>1. /\ pc[p] = "p_try" /\ pc' = [pc EXCEPT ![p] = "p_lock"]
      /\ UNCHANGED <<count, queue, plock, spin, call, own, sigwoke, wchan, soft, stat,
                     link, loaded, runq, sig, tgt, held>>
  BY DEF PSemaTry, Goto, ReleaseCallersLock, Grant, sleepVars, runVars, Return
<1>2. PlaceInv'
  BY <1>1, PlaceFrame DEF Sleeping, RunInv
<1>3. CountMatchesQueue'
  BY <1>1 DEF CountMatchesQueue
<1>4. TypeOK'
  BY <1>1 DEF CallType, Signal
<1>5. CallInv'
  BY ZenonT(60), <1>1, CallFrame DEF CallInv, CallOK
<1>6. SigSleepInv'
  BY <1>1, SigSleepFrame DEF Unseen, InHand, RunInv, SigSeenInv
<1>7. /\ SpinInv' /\ CallersLockHeld' /\ StateInv' /\ RunInv'
      /\ ForceInv' /\ SigSeenInv' /\ HardInv'
  BY <1>1 DEF SpinInv, CallInv, CallOK, CallersLockHeld, StateInv, RunInv,
     ForceInv, SigSeenInv, HardInv
<1> QED
  BY <1>2, <1>3, <1>4, <1>5, <1>6, <1>7 DEF PlaceInv

LEMMA PSemaTryStep ==
  ASSUME IInv, NEW p \in Proc, PSemaTry(p)
  PROVE  IInv'
BY PSemaTry1Step, PSemaTry2Step

(* Taking p_state. *)
LEMMA PSemaLockStep ==
  ASSUME IInv, NEW p \in Proc, PSemaLock(p)
  PROVE  IInv'
<1>1. /\ pc[p] = "p_lock" /\ plock[p] = None /\ plock' = [plock EXCEPT ![p] = p]
      /\ pc' = [pc EXCEPT ![p] = IF call[p].soft /\ sig[p] # {} THEN "issig" ELSE "p_gate"]
      /\ UNCHANGED <<count, queue, spin, call, own, sigwoke, wchan, soft, stat, link,
                     loaded, runq, sig, tgt, held>>
  BY DEF PSemaLock, Goto, StateFree, QueuedSig, semaVars, sleepVars, runVars
<1>2. PlaceInv'
  BY <1>1, PlaceFrame DEF Sleeping, RunInv
<1>3. CountMatchesQueue'
  BY <1>1 DEF CountMatchesQueue
<1>4. TypeOK'
  BY <1>1 DEF CallType, Signal
<1>5. CallInv'
  BY ZenonT(60), <1>1, CallFrame DEF CallInv, CallOK
<1>6. SigSleepInv'
  BY <1>1, SigSleepFrame DEF Unseen, InHand, RunInv, SigSeenInv
<1>7. /\ SpinInv' /\ CallersLockHeld' /\ StateInv' /\ RunInv'
      /\ ForceInv' /\ SigSeenInv' /\ HardInv'
  BY <1>1 DEF SpinInv, CallInv, CallOK, CallersLockHeld, StateInv, RunInv,
     ForceInv, SigSeenInv, HardInv
<1> QED
  BY <1>2, <1>3, <1>4, <1>5, <1>6, <1>7 DEF PlaceInv

(* Becoming SSLEEP. *)
LEMMA PSemaSleepStep ==
  ASSUME IInv, NEW p \in Proc, PSemaSleep(p)
  PROVE  IInv'
<1>1. /\ pc[p] = "p_sleep" /\ pc' = [pc EXCEPT ![p] = "p_swtch"]
      /\ spin' = IF call[p].lock = None THEN spin ELSE [spin EXCEPT ![call[p].lock] = None]
      /\ stat' = [stat EXCEPT ![p] = "SSLEEP"]
      /\ wchan' = [wchan EXCEPT ![p] = call[p].sem]
      /\ soft' = [soft EXCEPT ![p] = call[p].soft]
      /\ call' = [call EXCEPT ![p].lock = None]
      /\ UNCHANGED <<count, queue, plock, own, sigwoke, link, loaded, runq, sig, tgt,
                     held>>
  BY DEF PSemaSleep, Goto, ReleaseCallersLock, semaVars
<1> DEFINE c == [call[p] EXCEPT !.lock = None]
<1>2. c \in CallType
  <2>1. call[p] \in CallType
    BY DEF Actor
  <2> QED
    BY <2>1 DEF CallType
<1>3. call' = [call EXCEPT ![p] = c]
  BY DEF PSemaSleep, Goto, ReleaseCallersLock, semaVars
<1>4. /\ call' \in [Actor -> CallType]
      /\ call'[p].op = call[p].op
      /\ call'[p].sem = call[p].sem
      /\ call'[p].soft = call[p].soft
      /\ call'[p].lock = None
      /\ call'[p].slept = call[p].slept
      /\ call'[p].stopped = call[p].stopped
      /\ \A b \in Actor : b # p => call'[b] = call[b]
  <2>1. /\ call' \in [Actor -> CallType]
        /\ call'[p] = c
        /\ \A b \in Actor : b # p => call'[b] = call[b]
    BY <1>2, <1>3, CallReplaced DEF Actor
  <2>2. call[p] \in CallType
    BY DEF Actor
  <2> QED
    BY <2>1, <2>2 DEF CallType
<1> HIDE DEF c
<1>5. PlaceInv'
  <2>1. \A r \in Proc : Sleeping(r)' <=> Sleeping(r)
    <3>1. stat[p] = "SONPROC"
      BY <1>1 DEF RunInv
    <3>2. Sleeping(p)' /\ Sleeping(p)
      BY <1>1, <3>1 DEF Sleeping
    <3>3. \A r \in Proc : r # p => pc'[r] = pc[r] /\ stat'[r] = stat[r]
      BY <1>1
    <3> QED
      BY <3>2, <3>3 DEF Sleeping
  <2>2. \A r \in Proc : Sleeping(r) => call'[r].sem = call[r].sem /\ link'[r] = link[r]
    BY <1>1, <1>4 DEF Sleeping
  <2>3. \A b \in Actor : pc[b] \in PickLabel \/ pc'[b] \in PickLabel =>
                            pc'[b] = pc[b] /\ tgt'[b] = tgt[b]
    BY <1>1, <1>4
  <2>4. UNCHANGED queue
    BY <1>1
  <2> QED
    BY <2>1, <2>2, <2>3, <2>4, PlaceFrame
<1>6. CountMatchesQueue'
  BY <1>1 DEF CountMatchesQueue
<1>7. TypeOK'
  BY <1>1, <1>4 DEF CallType, Signal
<1>8. CallInv'
  <2>1. \A b \in Actor : b # p => pc'[b] = pc[b] /\ call'[b] = call[b]
    BY <1>1, <1>4
  <2>2. CallOK(p)'
    BY <1>1, <1>4 DEF CallInv, CallOK
  <2> QED
    BY <2>1, <2>2, CallFrame
<1>9. SigSleepInv'
  <2>1. \A b \in Actor : b # p => pc'[b] = pc[b] /\ tgt'[b] = tgt[b]
    BY <1>1, <1>4
  <2>2. \A r \in Proc : Unseen(r)' => InHand(p, r)' \/ (Unseen(r) /\ ~InHand(p, r))
    BY <1>1, <1>4 DEF Unseen, InHand, RunInv, SigSeenInv
  <2> QED
    BY <2>1, <2>2, SigSleepFrame DEF Actor
<1>10. /\ SpinInv' /\ CallersLockHeld' /\ StateInv' /\ RunInv'
      /\ ForceInv' /\ SigSeenInv' /\ HardInv'
  BY <1>1, <1>4 DEF SpinInv, CallInv, CallOK, CallersLockHeld, StateInv,
     RunInv, ForceInv, SigSeenInv, HardInv
<1> QED
  BY <1>5, <1>6, <1>7, <1>8, <1>9, <1>10 DEF PlaceInv

(* The context is saved. *)
LEMMA PSemaSwtchStep ==
  ASSUME IInv, NEW p \in Proc, PSemaSwtch(p)
  PROVE  IInv'
<1>1. /\ pc[p] = "p_swtch" /\ pc' = [pc EXCEPT ![p] = "off"]
      /\ plock' = [plock EXCEPT ![p] = None]
      /\ UNCHANGED <<count, queue, spin, call, own, sigwoke, wchan, soft, stat, link,
                     loaded, runq, sig, tgt, held>>
  BY DEF PSemaSwtch, Goto, Release, semaVars, sleepVars, runVars
<1>2. PlaceInv'
  BY <1>1, PlaceFrame DEF Sleeping, RunInv
<1>3. CountMatchesQueue'
  BY <1>1 DEF CountMatchesQueue
<1>4. TypeOK'
  BY <1>1 DEF CallType, Signal
<1>5. CallInv'
  BY ZenonT(60), <1>1, CallFrame DEF CallInv, CallOK
<1>6. SigSleepInv'
  <2>1. \A b \in Actor : b # p => pc'[b] = pc[b] /\ tgt'[b] = tgt[b]
    BY <1>1
  <2>2. \A r \in Proc : Unseen(r)' => InHand(p, r)' \/ (Unseen(r) /\ ~InHand(p, r))
    BY <1>1 DEF Unseen, InHand, RunInv, SigSeenInv
  <2> QED
    BY <2>1, <2>2, SigSleepFrame DEF Actor
<1>7. /\ SpinInv' /\ CallersLockHeld' /\ StateInv' /\ RunInv'
      /\ ForceInv' /\ SigSeenInv' /\ HardInv'
  BY <1>1 DEF SpinInv, CallInv, CallOK, CallersLockHeld, StateInv, RunInv,
     ForceInv, SigSeenInv, HardInv
<1> QED
  BY <1>2, <1>3, <1>4, <1>5, <1>6, <1>7 DEF PlaceInv

(* Back from swtch(): 2 outcomes. *)
LEMMA PSemaBack1Step ==
  ASSUME IInv, NEW p \in Proc, PSemaBack(p), sigwoke[p]
  PROVE  IInv'
<1>1. /\ pc[p] = "back" /\ pc' = [pc EXCEPT ![p] = "relock"]
      /\ UNCHANGED <<count, queue, plock, spin, call, own, sigwoke, wchan, soft, stat,
                     link, loaded, runq, sig, tgt, held>>
  BY DEF PSemaBack, Goto, Grant, semaVars, lockVars, sleepVars, runVars,
     Return
<1>2. PlaceInv'
  BY <1>1, PlaceFrame DEF Sleeping, RunInv
<1>3. CountMatchesQueue'
  BY <1>1 DEF CountMatchesQueue
<1>4. TypeOK'
  BY <1>1 DEF CallType, Signal
<1>5. CallInv'
  BY ZenonT(60), <1>1, CallFrame DEF CallInv, CallOK
<1>6. SigSleepInv'
  BY <1>1, SigSleepFrame DEF Unseen, InHand, RunInv, SigSeenInv
<1>7. /\ SpinInv' /\ CallersLockHeld' /\ StateInv' /\ RunInv'
      /\ ForceInv' /\ SigSeenInv' /\ HardInv'
  BY <1>1 DEF SpinInv, CallInv, CallOK, CallersLockHeld, StateInv, RunInv,
     ForceInv, SigSeenInv, HardInv
<1> QED
  BY <1>2, <1>3, <1>4, <1>5, <1>6, <1>7 DEF PlaceInv

LEMMA PSemaBack2Step ==
  ASSUME IInv, NEW p \in Proc, PSemaBack(p), ~sigwoke[p]
  PROVE  IInv'
<1>1. /\ pc[p] = "back" /\ pc' = [pc EXCEPT ![p] = "run"]
      /\ call' = [call EXCEPT ![p] = NoCall]
      /\ UNCHANGED <<count, queue, plock, spin, sigwoke, wchan, soft, stat, link, loaded,
                     runq, sig, tgt, held>>
  BY DEF PSemaBack, Goto, Grant, semaVars, lockVars, sleepVars, runVars,
     Return
<1>2. own' \in [Sema -> SUBSET Proc]
  <2>1. own' = IF call[p].sem \in Mutex THEN [own EXCEPT ![call[p].sem] = @ \cup {p}] ELSE own
    BY DEF PSemaBack, Grant
  <2> QED
    BY <2>1 DEF IInv, TypeOK
<1>3. PlaceInv'
  BY <1>1, <1>2, PlaceFrame DEF Sleeping, RunInv
<1>4. CountMatchesQueue'
  BY <1>1 DEF CountMatchesQueue
<1>5. TypeOK'
  <2>1. pc' \in [Actor -> {"run"} \cup PLabel \cup VLabel]
    BY <1>1, <1>2
  <2>2. call' \in [Actor -> CallType]
    BY <1>1, <1>2 DEF CallType
  <2>3. own' \in [Sema -> SUBSET Proc]
    BY <1>1, <1>2
  <2> QED
    BY <1>1, <1>2, <2>1, <2>2, <2>3
<1>6. CallInv'
  BY ZenonT(60), <1>1, <1>2, CallFrame DEF CallInv, CallOK
<1>7. SigSleepInv'
  BY <1>1, <1>2, SigSleepFrame DEF Unseen, InHand, RunInv, SigSeenInv
<1>8. /\ SpinInv' /\ CallersLockHeld' /\ StateInv' /\ RunInv'
      /\ ForceInv' /\ SigSeenInv' /\ HardInv'
  BY <1>1, <1>2 DEF SpinInv, CallInv, CallOK, CallersLockHeld, StateInv,
     RunInv, ForceInv, SigSeenInv, HardInv
<1> QED
  BY <1>3, <1>4, <1>5, <1>6, <1>7, <1>8 DEF PlaceInv

LEMMA PSemaBackStep ==
  ASSUME IInv, NEW p \in Proc, PSemaBack(p)
  PROVE  IInv'
BY PSemaBack1Step, PSemaBack2Step

(* Taking p_state again. *)
LEMMA PSemaRelockStep ==
  ASSUME IInv, NEW p \in Proc, PSemaRelock(p)
  PROVE  IInv'
<1>1. /\ pc[p] = "relock" /\ plock[p] = None /\ plock' = [plock EXCEPT ![p] = p]
      /\ pc' = [pc EXCEPT ![p] = "issig"] /\ call' = [call EXCEPT ![p].slept = TRUE]
      /\ UNCHANGED <<count, queue, spin, own, sigwoke, wchan, soft, stat, link, loaded,
                     runq, sig, tgt, held>>
  BY DEF PSemaRelock, Goto, StateFree, semaVars, sleepVars, runVars
<1> DEFINE c == [call[p] EXCEPT !.slept = TRUE]
<1>2. c \in CallType
  <2>1. call[p] \in CallType
    BY DEF Actor
  <2> QED
    BY <2>1 DEF CallType
<1>3. call' = [call EXCEPT ![p] = c]
  BY DEF PSemaRelock, Goto, StateFree, semaVars, sleepVars, runVars
<1>4. /\ call' \in [Actor -> CallType]
      /\ call'[p].op = call[p].op
      /\ call'[p].sem = call[p].sem
      /\ call'[p].soft = call[p].soft
      /\ call'[p].lock = call[p].lock
      /\ call'[p].slept = TRUE
      /\ call'[p].stopped = call[p].stopped
      /\ \A b \in Actor : b # p => call'[b] = call[b]
  <2>1. /\ call' \in [Actor -> CallType]
        /\ call'[p] = c
        /\ \A b \in Actor : b # p => call'[b] = call[b]
    BY <1>2, <1>3, CallReplaced DEF Actor
  <2>2. call[p] \in CallType
    BY DEF Actor
  <2> QED
    BY <2>1, <2>2 DEF CallType
<1> HIDE DEF c
<1>5. PlaceInv'
  BY <1>1, <1>4, PlaceFrame DEF Sleeping, RunInv
<1>6. CountMatchesQueue'
  BY <1>1 DEF CountMatchesQueue
<1>7. TypeOK'
  BY <1>1, <1>4 DEF CallType, Signal
<1>8. CallInv'
  <2>1. \A b \in Actor : b # p => pc'[b] = pc[b] /\ call'[b] = call[b]
    BY <1>1, <1>4
  <2>2. CallOK(p)'
    BY <1>1, <1>4 DEF CallInv, CallOK
  <2> QED
    BY <2>1, <2>2, CallFrame
<1>9. SigSleepInv'
  BY <1>1, <1>4, SigSleepFrame DEF Unseen, InHand, RunInv, SigSeenInv
<1>10. /\ SpinInv' /\ CallersLockHeld' /\ StateInv' /\ RunInv'
      /\ ForceInv' /\ SigSeenInv' /\ HardInv'
  BY <1>1, <1>4 DEF SpinInv, CallInv, CallOK, CallersLockHeld, StateInv,
     RunInv, ForceInv, SigSeenInv, HardInv
<1> QED
  BY <1>5, <1>6, <1>7, <1>8, <1>9, <1>10 DEF PlaceInv

(* No signal in issig(): 2 outcomes. *)
LEMMA IssigNone1Step ==
  ASSUME IInv, NEW p \in Proc, IssigNone(p), ~call[p].slept /\
     ~call[p].stopped
  PROVE  IInv'
<1>1. /\ pc[p] = "issig" /\ sig[p] = {} /\ pc' = [pc EXCEPT ![p] = "p_gate"]
      /\ UNCHANGED <<count, queue, plock, spin, call, own, sigwoke, wchan, soft, stat,
                     link, loaded, runq, sig, tgt, held>>
  BY DEF IssigNone, Goto, Return, Release, semaVars, runVars
<1>2. PlaceInv'
  BY <1>1, PlaceFrame DEF Sleeping, RunInv
<1>3. CountMatchesQueue'
  BY <1>1 DEF CountMatchesQueue
<1>4. TypeOK'
  BY <1>1 DEF CallType, Signal
<1>5. CallInv'
  BY ZenonT(60), <1>1, CallFrame DEF CallInv, CallOK
<1>6. SigSleepInv'
  BY <1>1, SigSleepFrame DEF Unseen, InHand, RunInv, SigSeenInv
<1>7. /\ SpinInv' /\ CallersLockHeld' /\ StateInv' /\ RunInv'
      /\ ForceInv' /\ SigSeenInv' /\ HardInv'
  BY <1>1 DEF SpinInv, CallInv, CallOK, CallersLockHeld, StateInv, RunInv,
     ForceInv, SigSeenInv, HardInv
<1> QED
  BY <1>2, <1>3, <1>4, <1>5, <1>6, <1>7 DEF PlaceInv

LEMMA IssigNone2Step ==
  ASSUME IInv, NEW p \in Proc, IssigNone(p), call[p].slept \/ call[p].stopped
  PROVE  IInv'
<1>1. /\ pc[p] = "issig" /\ sig[p] = {} /\ pc' = [pc EXCEPT ![p] = "run"]
      /\ call' = [call EXCEPT ![p] = NoCall] /\ plock' = [plock EXCEPT ![p] = None]
      /\ sigwoke' = [sigwoke EXCEPT ![p] = @ \/ ~call[p].slept]
      /\ UNCHANGED <<count, queue, spin, own, wchan, soft, stat, link, loaded, runq, sig,
                     tgt, held>>
  BY DEF IssigNone, Goto, Return, Release, semaVars, runVars
<1>2. PlaceInv'
  BY <1>1, PlaceFrame DEF Sleeping, RunInv
<1>3. CountMatchesQueue'
  BY <1>1 DEF CountMatchesQueue
<1>4. TypeOK'
  <2>1. sigwoke' \in [Proc -> BOOLEAN]
    BY <1>1
  <2>2. plock' \in [Proc -> Actor \cup {None}]
    BY <1>1
  <2>3. pc' \in [Actor -> {"run"} \cup PLabel \cup VLabel]
    BY <1>1
  <2>4. call' \in [Actor -> CallType]
    BY <1>1 DEF CallType
  <2> QED
    BY <1>1, <2>1, <2>2, <2>3, <2>4
<1>5. CallInv'
  BY ZenonT(60), <1>1, CallFrame DEF CallInv, CallOK
<1>6. SigSleepInv'
  BY <1>1, SigSleepFrame DEF Unseen, InHand, RunInv, SigSeenInv
<1>7. /\ SpinInv' /\ CallersLockHeld' /\ StateInv' /\ RunInv'
      /\ ForceInv' /\ SigSeenInv' /\ HardInv'
  BY <1>1 DEF SpinInv, CallInv, CallOK, CallersLockHeld, StateInv, RunInv,
     ForceInv, SigSeenInv, HardInv
<1> QED
  BY <1>2, <1>3, <1>4, <1>5, <1>6, <1>7 DEF PlaceInv

LEMMA IssigNoneStep ==
  ASSUME IInv, NEW p \in Proc, IssigNone(p)
  PROVE  IInv'
BY IssigNone1Step, IssigNone2Step

(* A signal that is caught or kills. *)
LEMMA IssigGotStep ==
  ASSUME IInv, NEW p \in Proc, IssigGot(p)
  PROVE  IInv'
<1>1. /\ pc[p] = "issig" /\ pc' = [pc EXCEPT ![p] = "run"]
      /\ call' = [call EXCEPT ![p] = NoCall] /\ plock' = [plock EXCEPT ![p] = None]
      /\ sigwoke' = [sigwoke EXCEPT ![p] = @ \/ ~call[p].slept]
      /\ sig' = [sig EXCEPT ![p] = @ \ {"INT"}]
      /\ spin' = IF call[p].slept \/ call[p].stopped \/ call[p].lock = None THEN spin ELSE [spin EXCEPT ![call[p].lock] = None]
      /\ UNCHANGED <<count, queue, own, wchan, soft, stat, link, loaded, runq, tgt, held>>
  BY DEF IssigGot, Return, Release, ReleaseCallersLock, semaVars, runVars,
     Goto
<1>2. PlaceInv'
  BY <1>1, PlaceFrame DEF Sleeping, RunInv
<1>3. CountMatchesQueue'
  BY <1>1 DEF CountMatchesQueue
<1>4. TypeOK'
  BY <1>1 DEF CallType, Signal
<1>5. CallInv'
  BY ZenonT(60), <1>1, CallFrame DEF CallInv, CallOK
<1>6. SigSleepInv'
  <2>1. \A b \in Actor : b # p => pc'[b] = pc[b] /\ tgt'[b] = tgt[b]
    BY <1>1
  <2>2. \A r \in Proc : Unseen(r)' => InHand(p, r)' \/ (Unseen(r) /\ ~InHand(p, r))
    BY <1>1 DEF Unseen, InHand, RunInv, SigSeenInv
  <2> QED
    BY <2>1, <2>2, SigSleepFrame DEF Actor
<1>7. /\ SpinInv' /\ CallersLockHeld' /\ StateInv' /\ RunInv'
      /\ ForceInv' /\ SigSeenInv' /\ HardInv'
  BY SMTT(60), <1>1 DEF SpinInv, CallInv, CallOK, CallersLockHeld, StateInv, RunInv,
     ForceInv, SigSeenInv, HardInv
<1> QED
  BY <1>2, <1>3, <1>4, <1>5, <1>6, <1>7 DEF PlaceInv

(* A stop signal. *)
LEMMA IssigStopStep ==
  ASSUME IInv, NEW p \in Proc, IssigStop(p)
  PROVE  IInv'
<1>1. /\ pc[p] = "issig" /\ pc' = [pc EXCEPT ![p] = "stop_swtch"]
      /\ spin' = IF call[p].lock = None THEN spin ELSE [spin EXCEPT ![call[p].lock] = None]
      /\ stat' = [stat EXCEPT ![p] = "SSTOP"] /\ sig' = [sig EXCEPT ![p] = @ \ {"STOP"}]
      /\ call' = [call EXCEPT ![p] = [@ EXCEPT !.stopped = TRUE, !.lock = None]]
      /\ UNCHANGED <<count, queue, plock, own, sigwoke, wchan, soft, link, loaded, runq,
                     tgt, held>>
  BY DEF IssigStop, Goto, ReleaseCallersLock, StoppedCall, semaVars, sleepVars
<1> DEFINE c == [call[p] EXCEPT !.stopped = TRUE, !.lock = None]
<1>2. c \in CallType
  <2>1. call[p] \in CallType
    BY DEF Actor
  <2> QED
    BY <2>1 DEF CallType
<1>3. call' = [call EXCEPT ![p] = c]
  BY DEF IssigStop, Goto, ReleaseCallersLock, StoppedCall, semaVars, sleepVars
<1>4. /\ call' \in [Actor -> CallType]
      /\ call'[p].op = call[p].op
      /\ call'[p].sem = call[p].sem
      /\ call'[p].soft = call[p].soft
      /\ call'[p].lock = None
      /\ call'[p].slept = call[p].slept
      /\ call'[p].stopped = TRUE
      /\ \A b \in Actor : b # p => call'[b] = call[b]
  <2>1. /\ call' \in [Actor -> CallType]
        /\ call'[p] = c
        /\ \A b \in Actor : b # p => call'[b] = call[b]
    BY <1>2, <1>3, CallReplaced DEF Actor
  <2>2. call[p] \in CallType
    BY DEF Actor
  <2> QED
    BY <2>1, <2>2 DEF CallType
<1> HIDE DEF c
<1>5. PlaceInv'
  BY <1>1, <1>4, PlaceFrame DEF Sleeping, RunInv
<1>6. CountMatchesQueue'
  BY <1>1 DEF CountMatchesQueue
<1>7. TypeOK'
  BY <1>1, <1>4 DEF CallType, Signal
<1>8. CallInv'
  <2>1. \A b \in Actor : b # p => pc'[b] = pc[b] /\ call'[b] = call[b]
    BY <1>1, <1>4
  <2>2. CallOK(p)'
    BY <1>1, <1>4 DEF CallInv, CallOK
  <2> QED
    BY <2>1, <2>2, CallFrame
<1>9. SigSleepInv'
  <2>1. \A b \in Actor : b # p => pc'[b] = pc[b] /\ tgt'[b] = tgt[b]
    BY <1>1, <1>4
  <2>2. \A r \in Proc : Unseen(r)' => InHand(p, r)' \/ (Unseen(r) /\ ~InHand(p, r))
    BY <1>1, <1>4 DEF Unseen, InHand, RunInv, SigSeenInv
  <2> QED
    BY <2>1, <2>2, SigSleepFrame DEF Actor
<1>10. /\ SpinInv' /\ CallersLockHeld' /\ StateInv' /\ RunInv'
      /\ ForceInv' /\ SigSeenInv' /\ HardInv'
  BY <1>1, <1>4 DEF SpinInv, CallInv, CallOK, CallersLockHeld, StateInv,
     RunInv, ForceInv, SigSeenInv, HardInv
<1> QED
  BY <1>5, <1>6, <1>7, <1>8, <1>9, <1>10 DEF PlaceInv

(* A stopped context is saved. *)
LEMMA IssigSwtchStep ==
  ASSUME IInv, NEW p \in Proc, IssigSwtch(p)
  PROVE  IInv'
<1>1. /\ pc[p] = "stop_swtch" /\ pc' = [pc EXCEPT ![p] = "stop_off"]
      /\ plock' = [plock EXCEPT ![p] = None]
      /\ UNCHANGED <<count, queue, spin, call, own, sigwoke, wchan, soft, stat, link,
                     loaded, runq, sig, tgt, held>>
  BY DEF IssigSwtch, Goto, Release, semaVars, sleepVars, runVars
<1>2. PlaceInv'
  BY <1>1, PlaceFrame DEF Sleeping, RunInv
<1>3. CountMatchesQueue'
  BY <1>1 DEF CountMatchesQueue
<1>4. TypeOK'
  BY <1>1 DEF CallType, Signal
<1>5. CallInv'
  BY ZenonT(60), <1>1, CallFrame DEF CallInv, CallOK
<1>6. SigSleepInv'
  BY <1>1, SigSleepFrame DEF Unseen, InHand, RunInv, SigSeenInv
<1>7. /\ SpinInv' /\ CallersLockHeld' /\ StateInv' /\ RunInv'
      /\ ForceInv' /\ SigSeenInv' /\ HardInv'
  BY <1>1 DEF SpinInv, CallInv, CallOK, CallersLockHeld, StateInv, RunInv,
     ForceInv, SigSeenInv, HardInv
<1> QED
  BY <1>2, <1>3, <1>4, <1>5, <1>6, <1>7 DEF PlaceInv

(* Back from the stop. *)
LEMMA IssigRelockStep ==
  ASSUME IInv, NEW p \in Proc, IssigRelock(p)
  PROVE  IInv'
<1>1. /\ pc[p] = "stop_back" /\ plock[p] = None /\ plock' = [plock EXCEPT ![p] = p]
      /\ pc' = [pc EXCEPT ![p] = "issig"]
      /\ UNCHANGED <<count, queue, spin, call, own, sigwoke, wchan, soft, stat, link,
                     loaded, runq, sig, tgt, held>>
  BY DEF IssigRelock, Goto, StateFree, semaVars, sleepVars, runVars
<1>2. PlaceInv'
  BY <1>1, PlaceFrame DEF Sleeping, RunInv
<1>3. CountMatchesQueue'
  BY <1>1 DEF CountMatchesQueue
<1>4. TypeOK'
  BY <1>1 DEF CallType, Signal
<1>5. CallInv'
  BY ZenonT(60), <1>1, CallFrame DEF CallInv, CallOK
<1>6. SigSleepInv'
  BY <1>1, SigSleepFrame DEF Unseen, InHand, RunInv, SigSeenInv
<1>7. /\ SpinInv' /\ CallersLockHeld' /\ StateInv' /\ RunInv'
      /\ ForceInv' /\ SigSeenInv' /\ HardInv'
  BY <1>1 DEF SpinInv, CallInv, CallOK, CallersLockHeld, StateInv, RunInv,
     ForceInv, SigSeenInv, HardInv
<1> QED
  BY <1>2, <1>3, <1>4, <1>5, <1>6, <1>7 DEF PlaceInv

(* A P begins. *)
LEMMA PSemaStep ==
  ASSUME IInv, NEW p \in Proc, NEW s \in Sema, NEW isSoft \in BOOLEAN, NEW l
     \in Lock \cup {None}, PSema(p, s, isSoft, l)
  PROVE  IInv'
<1>1. /\ pc[p] = "run"
      /\ p = sched <=> s = runout
      /\ s = runout => ~isSoft
      /\ \A k \in Lock : spin[k] = p <=> k = l
      /\ pc' = [pc EXCEPT ![p] = IF ~isSoft /\ count[s] > 0 THEN "p_try" ELSE "p_lock"]
      /\ UNCHANGED <<count, queue, plock, spin, sigwoke, wchan, soft, stat, link, loaded,
                     runq, sig, tgt, held, own>>
  BY DEF PSema, Goto, SemaCall, semaVars, lockVars, sleepVars, runVars
<1> DEFINE c == [NoCall EXCEPT !.op = "p", !.sem = s, !.soft = isSoft, !.lock = l]
<1>2. c \in CallType
  <2>1. NoCall \in CallType
    BY DEF CallType
  <2> QED
    BY <2>1 DEF CallType
<1>3. call' = [call EXCEPT ![p] = c]
  BY DEF PSema, Goto, SemaCall, semaVars, lockVars, sleepVars, runVars
<1>4. /\ call' \in [Actor -> CallType]
      /\ call'[p].op = "p"
      /\ call'[p].sem = s
      /\ call'[p].soft = isSoft
      /\ call'[p].lock = l
      /\ call'[p].slept = FALSE
      /\ call'[p].stopped = FALSE
      /\ \A b \in Actor : b # p => call'[b] = call[b]
  <2>1. /\ call' \in [Actor -> CallType]
        /\ call'[p] = c
        /\ \A b \in Actor : b # p => call'[b] = call[b]
    BY <1>2, <1>3, CallReplaced DEF Actor
  <2>2. call[p] \in CallType
    BY DEF Actor
  <2> QED
    BY <2>1, <2>2 DEF CallType
<1> HIDE DEF c
<1>5. PlaceInv'
  BY <1>1, <1>4, PlaceFrame DEF Sleeping, RunInv
<1>6. CountMatchesQueue'
  BY <1>1 DEF CountMatchesQueue
<1>7. TypeOK'
  BY <1>1, <1>4 DEF CallType, Signal
<1>8. CallInv'
  <2>1. \A b \in Actor : b # p => pc'[b] = pc[b] /\ call'[b] = call[b]
    BY <1>1, <1>4
  <2>2. CallOK(p)'
    BY <1>1, <1>4 DEF CallInv, CallOK
  <2> QED
    BY <2>1, <2>2, CallFrame
<1>9. SigSleepInv'
  <2>1. \A b \in Actor : b # p => pc'[b] = pc[b] /\ tgt'[b] = tgt[b]
    BY <1>1, <1>4
  <2>2. \A r \in Proc : Unseen(r)' => InHand(p, r)' \/ (Unseen(r) /\ ~InHand(p, r))
    BY <1>1, <1>4 DEF Unseen, InHand, RunInv, SigSeenInv
  <2> QED
    BY <2>1, <2>2, SigSleepFrame DEF Actor
<1>10. CallersLockHeld'
  <2>1. call'[p].lock # None => spin'[call'[p].lock] = p
    BY <1>1, <1>4
  <2>2. \A r \in Proc : r # p /\ call'[r].lock # None => spin'[call'[r].lock] = r
    BY <1>1, <1>4 DEF CallersLockHeld
  <2> QED
    BY <2>1, <2>2 DEF CallersLockHeld
<1>11. SpinInv' /\ StateInv'
  BY <1>1, <1>4 DEF SpinInv, CallInv, CallOK, CallersLockHeld, StateInv
<1>12. RunInv' /\ ForceInv' /\ SigSeenInv' /\ HardInv'
  BY <1>1, <1>4 DEF RunInv, ForceInv, StateInv, SigSeenInv, HardInv
<1> QED
  BY <1>5, <1>6, <1>7, <1>8, <1>9, <1>10, <1>11, <1>12 DEF PlaceInv

(* The second look under the gate: 2 outcomes. *)
LEMMA PSemaGate1Step ==
  ASSUME IInv, NEW p \in Proc, PSemaGate(p), count[call[p].sem] > 0
  PROVE  IInv'
<1>0. call[p].sem \in Sema /\ count[call[p].sem] \in Int
  BY DEF CallType
<1>1. /\ pc[p] = "p_gate" /\ pc' = [pc EXCEPT ![p] = "run"]
      /\ call' = [call EXCEPT ![p] = NoCall]
      /\ spin' = IF call[p].lock = None THEN spin ELSE [spin EXCEPT ![call[p].lock] = None]
      /\ plock' = [plock EXCEPT ![p] = None]
      /\ count' = [count EXCEPT ![call[p].sem] = @ - 1]
      /\ UNCHANGED <<queue, sigwoke, wchan, soft, stat, link, loaded, runq, sig, tgt,
                     held>>
  BY <1>0 DEF PSemaGate, Goto, Release, ReleaseCallersLock, Grant, sleepVars,
     Return
<1>2. own' \in [Sema -> SUBSET Proc]
  <2>1. own' = IF call[p].sem \in Mutex THEN [own EXCEPT ![call[p].sem] = @ \cup {p}] ELSE own
    BY DEF PSemaGate, Grant
  <2> QED
    BY <2>1 DEF IInv, TypeOK
<1>3. PlaceInv'
  BY <1>1, <1>2, PlaceFrame DEF Sleeping, RunInv
<1>4. CountMatchesQueue'
  BY <1>1 DEF CountMatchesQueue
<1>5. TypeOK'
  <2>1. call[p].sem \in Sema /\ call[p].lock \in Lock \cup {None}
    BY DEF CallType
  <2>2. call' \in [Actor -> CallType]
    <3>1. NoCall \in CallType
      BY DEF CallType
    <3> QED
      BY <1>1, <3>1, CallReplaced DEF Actor
  <2>3. count' \in [Sema -> Int]
    BY <1>1, <2>1
  <2>4. spin' \in [Lock -> Actor \cup {None}]
    BY <1>1, <2>1
  <2>5. pc' \in [Actor -> {"run"} \cup PLabel \cup VLabel]
    BY <1>1
  <2>6. plock' \in [Proc -> Actor \cup {None}]
    BY <1>1
  <2> QED
    BY <1>1, <1>2, <2>2, <2>3, <2>4, <2>5, <2>6
<1>6. CallInv'
  BY ZenonT(60), <1>1, <1>2, CallFrame DEF CallInv, CallOK
<1>7. SigSleepInv'
  BY <1>1, <1>2, SigSleepFrame DEF Unseen, InHand, RunInv, SigSeenInv
<1>8. /\ SpinInv' /\ CallersLockHeld' /\ StateInv' /\ RunInv'
      /\ ForceInv' /\ SigSeenInv' /\ HardInv'
  BY <1>1, <1>2 DEF SpinInv, CallInv, CallOK, CallersLockHeld, StateInv,
     RunInv, ForceInv, SigSeenInv, HardInv
<1> QED
  BY <1>3, <1>4, <1>5, <1>6, <1>7, <1>8 DEF PlaceInv

LEMMA PSemaGate2Step ==
  ASSUME IInv, NEW p \in Proc, PSemaGate(p), ~(count[call[p].sem] > 0)
  PROVE  IInv'
<1>0. call[p].sem \in Sema /\ count[call[p].sem] \in Int
  BY DEF CallType
<1>1. /\ pc[p] = "p_gate" /\ pc' = [pc EXCEPT ![p] = "p_sleep"]
      /\ count' = [count EXCEPT ![call[p].sem] = @ - 1]
      /\ queue' = [queue EXCEPT ![call[p].sem] = Append(@, p)]
      /\ link' = [link EXCEPT ![p] = TRUE]
      /\ UNCHANGED <<plock, spin, sigwoke, wchan, soft, stat, loaded, runq, sig, call,
                     tgt, held, own>>
  BY <1>0 DEF PSemaGate, Goto, Release, ReleaseCallersLock, Grant, sleepVars,
     Return
<1>2. PlaceType' /\ PlaceInv' /\ CountMatchesQueue'
  <2>1. count[call[p].sem] <= 0
    BY <1>0
  <2>2. PICK s \in Sema : s = call[p].sem
    BY <1>0
  <2> QED
    BY <1>1, <2>1, <2>2, PlaceAppend
<1>3. TypeOK'
  BY <1>1, <1>2 DEF PlaceType, CallType, Signal
<1>4. CallInv'
  BY ZenonT(60), <1>1, CallFrame DEF CallInv, CallOK
<1>5. SigSleepInv'
  BY <1>1, SigSleepFrame DEF Unseen, InHand, RunInv, SigSeenInv
<1>6. /\ SpinInv' /\ CallersLockHeld' /\ StateInv' /\ RunInv'
      /\ ForceInv' /\ SigSeenInv' /\ HardInv'
  BY SMTT(60), <1>1 DEF SpinInv, CallInv, CallOK, CallersLockHeld, StateInv, RunInv,
     ForceInv, SigSeenInv, HardInv
<1> QED
  BY <1>2, <1>3, <1>4, <1>5, <1>6 DEF PlaceInv

LEMMA PSemaGateStep ==
  ASSUME IInv, NEW p \in Proc, PSemaGate(p)
  PROVE  IInv'
BY PSemaGate1Step, PSemaGate2Step

(* A V under the gate: 2 outcomes. *)
LEMMA VSema1Step ==
  ASSUME IInv, NEW a \in Actor, NEW s \in Sema, VSema(a, s), count[s] + 1 > 0
  PROVE  IInv'
<1>1. /\ pc[a] = "run"
      /\ count' = [count EXCEPT ![s] = IF s \in Event THEN 1 ELSE @ + 1]
      /\ UNCHANGED <<queue, plock, spin, sigwoke, wchan, soft, stat, link, loaded, runq,
                     sig, pc, call, tgt, held>>
  BY DEF VSema, Goto, lockVars, sleepVars, NoWaiter, MayV, Dequeue
<1>2. own' \in [Sema -> SUBSET Proc]
  <2>1. own' = [own EXCEPT ![s] = @ \ {a}]
    BY DEF VSema
  <2> QED
    BY <2>1 DEF IInv, TypeOK
<1>3. PlaceInv'
  BY <1>1, <1>2, PlaceFrame DEF Sleeping, RunInv
<1>4. CountMatchesQueue'
  BY <1>1 DEF CountMatchesQueue
<1>5. TypeOK'
  <2>1. count' \in [Sema -> Int]
    BY <1>1, <1>2
  <2>2. own' \in [Sema -> SUBSET Proc]
    BY <1>1, <1>2
  <2> QED
    BY <1>1, <1>2, <2>1, <2>2
<1>6. CallInv'
  BY <1>1, <1>2, CallFrame DEF CallInv, CallOK
<1>7. SigSleepInv'
  BY <1>1, <1>2, SigSleepFrame DEF Unseen, InHand, RunInv, SigSeenInv
<1>8. /\ SpinInv' /\ CallersLockHeld' /\ StateInv' /\ RunInv'
      /\ ForceInv' /\ SigSeenInv' /\ HardInv'
  BY <1>1, <1>2 DEF SpinInv, CallInv, CallOK, CallersLockHeld, StateInv,
     RunInv, ForceInv, SigSeenInv, HardInv
<1> QED
  BY <1>3, <1>4, <1>5, <1>6, <1>7, <1>8 DEF PlaceInv

LEMMA VSema2Step ==
  ASSUME IInv, NEW a \in Actor, NEW s \in Sema, VSema(a, s), ~(count[s] + 1 >
     0)
  PROVE  IInv'
<1>1. /\ pc[a] = "run" /\ count[s] < 0 /\ Dequeue(a, s)
      /\ pc' = [pc EXCEPT ![a] = "wake"]
      /\ UNCHANGED <<plock, spin, sigwoke, wchan, soft, stat, loaded, runq, sig, held>>
  BY DEF VSema, Goto, lockVars, sleepVars, NoWaiter, MayV, CallType
<1> DEFINE c == [NoCall EXCEPT !.op = IF s \in Event THEN "event" ELSE "v", !.sem = s]
<1>2. c \in CallType
  <2>1. NoCall \in CallType
    BY DEF CallType
  <2> QED
    BY <2>1 DEF CallType
<1>3. call' = [call EXCEPT ![a] = c]
  BY DEF VSema, Goto, lockVars, sleepVars, NoWaiter, MayV, CallType
<1>4. /\ call' \in [Actor -> CallType]
      /\ call'[a].op = IF s \in Event THEN "event" ELSE "v"
      /\ call'[a].sem = s
      /\ call'[a].soft = FALSE
      /\ call'[a].lock = None
      /\ call'[a].slept = FALSE
      /\ call'[a].stopped = FALSE
      /\ \A b \in Actor : b # a => call'[b] = call[b]
  <2>1. /\ call' \in [Actor -> CallType]
        /\ call'[a] = c
        /\ \A b \in Actor : b # a => call'[b] = call[b]
    BY <1>2, <1>3, CallReplaced DEF Actor
  <2>2. call[a] \in CallType
    BY DEF Actor
  <2> QED
    BY <2>1, <2>2 DEF CallType
<1> HIDE DEF c
<1>5. \A b \in Actor : b # a => tgt'[b] = tgt[b]
  BY <1>1 DEF IInv, TypeOK, Dequeue
<1>6. own' \in [Sema -> SUBSET Proc]
  <2>1. own' = [own EXCEPT ![s] = @ \ {a}]
    BY DEF VSema
  <2> QED
    BY <2>1 DEF IInv, TypeOK
<1>7. PlaceType' /\ PlaceInv' /\ CountMatchesQueue'
  <2>1. s \in Sema /\ pc[a] \notin PickLabel \cup AsleepLabel
    BY <1>1 DEF IInv, TypeOK, CallType, PickLabel, AsleepLabel
  <2>2. \A p \in Proc : Sleeping(p) => call'[p].sem = call[p].sem
    BY <1>1, <1>4, <1>5, <1>6, <2>1 DEF Sleeping, Actor
  <2> QED
    BY <1>1, <2>1, <2>2, PlaceDequeue
<1>8. TypeOK'
  <2>1. pc' \in [Actor -> {"run"} \cup PLabel \cup VLabel]
    BY <1>1, <1>4, <1>5, <1>6, <1>7
  <2>2. own' \in [Sema -> SUBSET Proc]
    BY <1>1, <1>4, <1>5, <1>6, <1>7
  <2> QED
    BY <1>1, <1>4, <1>5, <1>6, <1>7, <2>1, <2>2 DEF PlaceType
<1>9. CallInv'
  <2>1. \A b \in Actor : b # a => pc'[b] = pc[b] /\ call'[b] = call[b]
    BY <1>1, <1>4, <1>5, <1>6
  <2>2. CallOK(a)'
    BY <1>1, <1>4, <1>5, <1>6 DEF CallInv, CallOK
  <2> QED
    BY <2>1, <2>2, CallFrame
<1>10. SigSleepInv'
  <2>1. \A b \in Actor : b # a => pc'[b] = pc[b] /\ tgt'[b] = tgt[b]
    BY <1>1, <1>4, <1>5, <1>6
  <2>2. \A r \in Proc : Unseen(r)' => InHand(a, r)' \/ (Unseen(r) /\ ~InHand(a, r))
    BY <1>1, <1>4, <1>5, <1>6 DEF Unseen, InHand, RunInv, SigSeenInv
  <2> QED
    BY <2>1, <2>2, SigSleepFrame DEF Actor
<1>11. SpinInv'
  BY <1>1, <1>4, <1>5, <1>6 DEF SpinInv, CallInv, CallOK, CallersLockHeld
<1>12. CallersLockHeld'
  BY ZenonT(60), <1>1, <1>4, <1>5, <1>6 DEF CallersLockHeld, CallInv, CallOK
<1>13. StateInv'
  BY <1>1, <1>4, <1>5, <1>6 DEF StateInv
<1>14. RunInv' /\ ForceInv' /\ SigSeenInv' /\ HardInv'
  BY <1>1, <1>4, <1>5, <1>6 DEF RunInv, ForceInv, StateInv, SigSeenInv,
     HardInv
<1> QED
  BY <1>7, <1>8, <1>9, <1>10, <1>11, <1>12, <1>13, <1>14 DEF PlaceInv

LEMMA VSemaStep ==
  ASSUME IInv, NEW a \in Actor, NEW s \in Sema, VSema(a, s)
  PROVE  IInv'
BY VSema1Step, VSema2Step

(* A conditional V begins. *)
LEMMA CVSemaStep ==
  ASSUME IInv, NEW a \in Actor, NEW s \in Sema, CVSema(a, s)
  PROVE  IInv'
<1>1. /\ pc[a] = "run" /\ pc' = [pc EXCEPT ![a] = "cv_gate"]
      /\ UNCHANGED <<count, queue, plock, spin, sigwoke, wchan, soft, stat, link, loaded,
                     runq, sig, tgt, held, own>>
  BY DEF CVSema, Goto, semaVars, lockVars, sleepVars, runVars
<1> DEFINE c == [NoCall EXCEPT !.op = "cv", !.sem = s]
<1>2. c \in CallType
  <2>1. NoCall \in CallType
    BY DEF CallType
  <2> QED
    BY <2>1 DEF CallType
<1>3. call' = [call EXCEPT ![a] = c]
  BY DEF CVSema, Goto, semaVars, lockVars, sleepVars, runVars
<1>4. /\ call' \in [Actor -> CallType]
      /\ call'[a].op = "cv"
      /\ call'[a].sem = s
      /\ call'[a].soft = FALSE
      /\ call'[a].lock = None
      /\ call'[a].slept = FALSE
      /\ call'[a].stopped = FALSE
      /\ \A b \in Actor : b # a => call'[b] = call[b]
  <2>1. /\ call' \in [Actor -> CallType]
        /\ call'[a] = c
        /\ \A b \in Actor : b # a => call'[b] = call[b]
    BY <1>2, <1>3, CallReplaced DEF Actor
  <2>2. call[a] \in CallType
    BY DEF Actor
  <2> QED
    BY <2>1, <2>2 DEF CallType
<1> HIDE DEF c
<1>5. PlaceInv'
  BY <1>1, <1>4, PlaceFrame DEF Sleeping, RunInv
<1>6. CountMatchesQueue'
  BY <1>1 DEF CountMatchesQueue
<1>7. TypeOK'
  BY <1>1, <1>4 DEF CallType, Signal
<1>8. CallInv'
  <2>1. \A b \in Actor : b # a => pc'[b] = pc[b] /\ call'[b] = call[b]
    BY <1>1, <1>4
  <2>2. CallOK(a)'
    BY <1>1, <1>4 DEF CallInv, CallOK
  <2> QED
    BY <2>1, <2>2, CallFrame
<1>9. SigSleepInv'
  <2>1. \A b \in Actor : b # a => pc'[b] = pc[b] /\ tgt'[b] = tgt[b]
    BY <1>1, <1>4
  <2>2. \A r \in Proc : Unseen(r)' => InHand(a, r)' \/ (Unseen(r) /\ ~InHand(a, r))
    BY <1>1, <1>4 DEF Unseen, InHand, RunInv, SigSeenInv
  <2> QED
    BY <2>1, <2>2, SigSleepFrame DEF Actor
<1>10. SpinInv'
  BY <1>1, <1>4 DEF SpinInv, CallInv, CallOK, CallersLockHeld
<1>11. CallersLockHeld'
  <2>1. \A p \in Proc : p # a => call'[p].lock = call[p].lock
    BY <1>4
  <2>2. call'[a].lock = None
    BY <1>4
  <2>3. UNCHANGED spin
    BY <1>1
  <2> QED
    BY <2>1, <2>2, <2>3 DEF CallersLockHeld
<1>12. StateInv'
  BY <1>1, <1>4 DEF StateInv
<1>13. RunInv' /\ ForceInv' /\ SigSeenInv' /\ HardInv'
  BY <1>1, <1>4 DEF RunInv, ForceInv, StateInv, SigSeenInv, HardInv
<1> QED
  BY <1>5, <1>6, <1>7, <1>8, <1>9, <1>10, <1>11, <1>12, <1>13 DEF PlaceInv

(* Vall_sema() begins. *)
LEMMA VAllSemaStep ==
  ASSUME IInv, NEW a \in Actor, NEW s \in Sema, VAllSema(a, s)
  PROVE  IInv'
<1>1. /\ pc[a] = "run" /\ pc' = [pc EXCEPT ![a] = "vall"]
      /\ UNCHANGED <<count, queue, plock, spin, sigwoke, wchan, soft, stat, link, loaded,
                     runq, sig, tgt, held, own>>
  BY DEF VAllSema, Goto, semaVars, lockVars, sleepVars, runVars
<1> DEFINE c == [NoCall EXCEPT !.op = "vall", !.sem = s, !.left = count[s]]
<1>2. c \in CallType
  <2>1. NoCall \in CallType
    BY DEF CallType
  <2> QED
    BY <2>1 DEF CallType
<1>3. call' = [call EXCEPT ![a] = c]
  BY DEF VAllSema, Goto, semaVars, lockVars, sleepVars, runVars
<1>4. /\ call' \in [Actor -> CallType]
      /\ call'[a].op = "vall"
      /\ call'[a].sem = s
      /\ call'[a].soft = FALSE
      /\ call'[a].lock = None
      /\ call'[a].slept = FALSE
      /\ call'[a].stopped = FALSE
      /\ \A b \in Actor : b # a => call'[b] = call[b]
  <2>1. /\ call' \in [Actor -> CallType]
        /\ call'[a] = c
        /\ \A b \in Actor : b # a => call'[b] = call[b]
    BY <1>2, <1>3, CallReplaced DEF Actor
  <2>2. call[a] \in CallType
    BY DEF Actor
  <2> QED
    BY <2>1, <2>2 DEF CallType
<1> HIDE DEF c
<1>5. PlaceInv'
  BY <1>1, <1>4, PlaceFrame DEF Sleeping, RunInv
<1>6. CountMatchesQueue'
  BY <1>1 DEF CountMatchesQueue
<1>7. TypeOK'
  BY <1>1, <1>4 DEF CallType, Signal
<1>8. CallInv'
  <2>1. \A b \in Actor : b # a => pc'[b] = pc[b] /\ call'[b] = call[b]
    BY <1>1, <1>4
  <2>2. CallOK(a)'
    BY <1>1, <1>4 DEF CallInv, CallOK
  <2> QED
    BY <2>1, <2>2, CallFrame
<1>9. SigSleepInv'
  <2>1. \A b \in Actor : b # a => pc'[b] = pc[b] /\ tgt'[b] = tgt[b]
    BY <1>1, <1>4
  <2>2. \A r \in Proc : Unseen(r)' => InHand(a, r)' \/ (Unseen(r) /\ ~InHand(a, r))
    BY <1>1, <1>4 DEF Unseen, InHand, RunInv, SigSeenInv
  <2> QED
    BY <2>1, <2>2, SigSleepFrame DEF Actor
<1>10. SpinInv'
  BY <1>1, <1>4 DEF SpinInv, CallInv, CallOK, CallersLockHeld
<1>11. CallersLockHeld'
  <2>1. \A p \in Proc : p # a => call'[p].lock = call[p].lock
    BY <1>4
  <2>2. call'[a].lock = None
    BY <1>4
  <2>3. UNCHANGED spin
    BY <1>1
  <2> QED
    BY <2>1, <2>2, <2>3 DEF CallersLockHeld
<1>12. StateInv'
  BY <1>1, <1>4 DEF StateInv
<1>13. RunInv' /\ ForceInv' /\ SigSeenInv' /\ HardInv'
  BY <1>1, <1>4 DEF RunInv, ForceInv, StateInv, SigSeenInv, HardInv
<1> QED
  BY <1>5, <1>6, <1>7, <1>8, <1>9, <1>10, <1>11, <1>12, <1>13 DEF PlaceInv

(* One turn of vall_sema(): 2 outcomes. *)
LEMMA VAllNext1Step ==
  ASSUME IInv, NEW a \in Actor, VAllNext(a), call[a].left < 0 /\
     count[call[a].sem] < 0
  PROVE  IInv'
<1>1. /\ pc[a] = "vall" /\ pc' = [pc EXCEPT ![a] = "cv_gate"]
      /\ UNCHANGED <<count, queue, plock, spin, sigwoke, wchan, soft, stat, link, loaded,
                     runq, sig, tgt, held, own>>
  BY DEF VAllNext, Goto, Return, semaVars, lockVars, sleepVars, runVars
<1> DEFINE c == [call[a] EXCEPT !.left = @ + 1]
<1>2. c \in CallType
  <2>1. call[a] \in CallType /\ call[a].left + 1 \in Int
    BY DEF CallType
  <2> QED
    BY <2>1 DEF CallType
<1>3. call' = [call EXCEPT ![a] = c]
  BY DEF VAllNext, Goto, Return, semaVars, lockVars, sleepVars, runVars
<1>4. /\ call' \in [Actor -> CallType]
      /\ call'[a].op = call[a].op
      /\ call'[a].sem = call[a].sem
      /\ call'[a].soft = call[a].soft
      /\ call'[a].lock = call[a].lock
      /\ call'[a].slept = call[a].slept
      /\ call'[a].stopped = call[a].stopped
      /\ \A b \in Actor : b # a => call'[b] = call[b]
  <2>1. /\ call' \in [Actor -> CallType]
        /\ call'[a] = c
        /\ \A b \in Actor : b # a => call'[b] = call[b]
    BY <1>2, <1>3, CallReplaced DEF Actor
  <2>2. call[a] \in CallType
    BY DEF Actor
  <2> QED
    BY <2>1, <2>2 DEF CallType
<1> HIDE DEF c
<1>5. PlaceInv'
  BY <1>1, <1>4, PlaceFrame DEF Sleeping, RunInv
<1>6. CountMatchesQueue'
  BY <1>1 DEF CountMatchesQueue
<1>7. TypeOK'
  BY <1>1, <1>4 DEF CallType, Signal
<1>8. CallInv'
  <2>1. \A b \in Actor : b # a => pc'[b] = pc[b] /\ call'[b] = call[b]
    BY <1>1, <1>4
  <2>2. CallOK(a)'
    BY <1>1, <1>4 DEF CallInv, CallOK
  <2> QED
    BY <2>1, <2>2, CallFrame
<1>9. SigSleepInv'
  <2>1. \A b \in Actor : b # a => pc'[b] = pc[b] /\ tgt'[b] = tgt[b]
    BY <1>1, <1>4
  <2>2. \A r \in Proc : Unseen(r)' => InHand(a, r)' \/ (Unseen(r) /\ ~InHand(a, r))
    BY <1>1, <1>4 DEF Unseen, InHand, RunInv, SigSeenInv
  <2> QED
    BY <2>1, <2>2, SigSleepFrame DEF Actor
<1>10. SpinInv'
  BY <1>1, <1>4 DEF SpinInv, CallInv, CallOK, CallersLockHeld
<1>11. CallersLockHeld'
  BY ZenonT(60), <1>1, <1>4 DEF CallersLockHeld, CallInv, CallOK
<1>12. StateInv'
  BY <1>1, <1>4 DEF StateInv
<1>13. RunInv' /\ ForceInv' /\ SigSeenInv' /\ HardInv'
  BY <1>1, <1>4 DEF RunInv, ForceInv, StateInv, SigSeenInv, HardInv
<1> QED
  BY <1>5, <1>6, <1>7, <1>8, <1>9, <1>10, <1>11, <1>12, <1>13 DEF PlaceInv

LEMMA VAllNext2Step ==
  ASSUME IInv, NEW a \in Actor, VAllNext(a), ~(call[a].left < 0 /\
     count[call[a].sem] < 0)
  PROVE  IInv'
<1>1. /\ pc[a] = "vall" /\ pc' = [pc EXCEPT ![a] = "run"]
      /\ call' = [call EXCEPT ![a] = NoCall]
      /\ UNCHANGED <<count, queue, plock, spin, sigwoke, wchan, soft, stat, link, loaded,
                     runq, sig, tgt, held, own>>
  BY DEF VAllNext, Goto, Return, semaVars, lockVars, sleepVars, runVars
<1>2. PlaceInv'
  BY <1>1, PlaceFrame DEF Sleeping, RunInv
<1>3. CountMatchesQueue'
  BY <1>1 DEF CountMatchesQueue
<1>4. TypeOK'
  BY <1>1 DEF CallType, Signal
<1>5. CallInv'
  BY ZenonT(60), <1>1, CallFrame DEF CallInv, CallOK
<1>6. SigSleepInv'
  BY <1>1, SigSleepFrame DEF Unseen, InHand, RunInv, SigSeenInv
<1>7. /\ SpinInv' /\ CallersLockHeld' /\ StateInv' /\ RunInv'
      /\ ForceInv' /\ SigSeenInv' /\ HardInv'
  BY <1>1 DEF SpinInv, CallInv, CallOK, CallersLockHeld, StateInv, RunInv,
     ForceInv, SigSeenInv, HardInv
<1> QED
  BY <1>2, <1>3, <1>4, <1>5, <1>6, <1>7 DEF PlaceInv

LEMMA VAllNextStep ==
  ASSUME IInv, NEW a \in Actor, VAllNext(a)
  PROVE  IInv'
BY VAllNext1Step, VAllNext2Step

(* Entry to cp_sema(). *)
LEMMA CPSemaStep ==
  ASSUME IInv, NEW a \in Actor, NEW s \in Sema, CPSema(a, s)
  PROVE  IInv'
<1>1. /\ pc[a] = "run" /\ pc' = [pc EXCEPT ![a] = "cp_gate"]
      /\ UNCHANGED <<count, queue, plock, spin, sigwoke, wchan, soft, stat, link, loaded,
                     runq, sig, tgt, held, own>>
  BY DEF CPSema, Goto, semaVars, lockVars, sleepVars, runVars
<1> DEFINE c == [NoCall EXCEPT !.op = "cp", !.sem = s]
<1>2. c \in CallType
  <2>1. NoCall \in CallType
    BY DEF CallType
  <2> QED
    BY <2>1 DEF CallType
<1>3. call' = [call EXCEPT ![a] = c]
  BY DEF CPSema, Goto, semaVars, lockVars, sleepVars, runVars
<1>4. /\ call' \in [Actor -> CallType]
      /\ call'[a].op = "cp"
      /\ call'[a].sem = s
      /\ call'[a].soft = FALSE
      /\ call'[a].lock = None
      /\ call'[a].slept = FALSE
      /\ call'[a].stopped = FALSE
      /\ \A b \in Actor : b # a => call'[b] = call[b]
  <2>1. /\ call' \in [Actor -> CallType]
        /\ call'[a] = c
        /\ \A b \in Actor : b # a => call'[b] = call[b]
    BY <1>2, <1>3, CallReplaced DEF Actor
  <2>2. call[a] \in CallType
    BY DEF Actor
  <2> QED
    BY <2>1, <2>2 DEF CallType
<1> HIDE DEF c
<1>5. PlaceInv'
  BY <1>1, <1>4, PlaceFrame DEF Sleeping, RunInv
<1>6. CountMatchesQueue'
  BY <1>1 DEF CountMatchesQueue
<1>7. TypeOK'
  BY <1>1, <1>4 DEF CallType, Signal
<1>8. CallInv'
  <2>1. \A b \in Actor : b # a => pc'[b] = pc[b] /\ call'[b] = call[b]
    BY <1>1, <1>4
  <2>2. CallOK(a)'
    <3>1. s \in Mutex => a \in Proc
      BY DEF CPSema
    <3> QED
      BY <1>1, <1>4, <3>1 DEF CallOK
  <2> QED
    BY <2>1, <2>2, CallFrame
<1>9. SigSleepInv'
  <2>1. \A b \in Actor : b # a => pc'[b] = pc[b] /\ tgt'[b] = tgt[b]
    BY <1>1, <1>4
  <2>2. \A r \in Proc : Unseen(r)' => InHand(a, r)' \/ (Unseen(r) /\ ~InHand(a, r))
    BY <1>1, <1>4 DEF Unseen, InHand, RunInv, SigSeenInv
  <2> QED
    BY <2>1, <2>2, SigSleepFrame DEF Actor
<1>10. SpinInv'
  BY <1>1, <1>4 DEF SpinInv, CallInv, CallOK, CallersLockHeld
<1>11. CallersLockHeld'
  <2>1. \A p \in Proc : p # a => call'[p].lock = call[p].lock
    BY <1>4
  <2>2. call'[a].lock = None
    BY <1>4
  <2>3. UNCHANGED spin
    BY <1>1
  <2> QED
    BY <2>1, <2>2, <2>3 DEF CallersLockHeld
<1>12. StateInv'
  BY <1>1, <1>4 DEF StateInv
<1>13. RunInv' /\ ForceInv' /\ SigSeenInv' /\ HardInv'
  BY <1>1, <1>4 DEF RunInv, ForceInv, StateInv, SigSeenInv, HardInv
<1> QED
  BY <1>5, <1>6, <1>7, <1>8, <1>9, <1>10, <1>11, <1>12, <1>13 DEF PlaceInv

(* The gate of a cp_sema(): 2 outcomes. *)
LEMMA CPGate1Step ==
  ASSUME IInv, NEW a \in Actor, CPGate(a), count[call[a].sem] > 0
  PROVE  IInv'
<1>1. /\ pc[a] = "cp_gate" /\ pc' = [pc EXCEPT ![a] = "run"]
      /\ call' = [call EXCEPT ![a] = NoCall]
      /\ count' = [count EXCEPT ![call[a].sem] = @ - 1]
      /\ UNCHANGED <<queue, plock, spin, sigwoke, wchan, soft, stat, link, loaded, runq, sig,
                     tgt, held>>
  BY DEF CPGate, Goto, Grant, Return, lockVars, sleepVars, runVars
<1>2. own' \in [Sema -> SUBSET Proc]
  <2>1. own' = IF call[a].sem \in Mutex THEN [own EXCEPT ![call[a].sem] = @ \cup {a}] ELSE own
    BY DEF CPGate, Grant
  <2>2. call[a].sem \in Mutex => a \in Proc
    BY <1>1 DEF CallInv, CallOK
  <2> QED
    BY <2>1, <2>2 DEF IInv, TypeOK
<1>3. PlaceInv'
  BY <1>1, <1>2, PlaceFrame DEF Sleeping, RunInv
<1>4. CountMatchesQueue'
  BY <1>1 DEF CountMatchesQueue
<1>5. TypeOK'
  <2>1. call[a].sem \in Sema /\ NoCall \in CallType
    BY DEF CallType
  <2>2. call' \in [Actor -> CallType]
    BY <1>1, <2>1, CallReplaced
  <2>3. count' \in [Sema -> Int]
    BY <1>1, <2>1
  <2> QED
    BY <1>1, <1>2, <2>2, <2>3
<1>6. CallInv'
  BY ZenonT(60), <1>1, CallFrame DEF CallInv, CallOK
<1>7. SigSleepInv'
  BY <1>1, SigSleepFrame DEF Unseen, InHand, RunInv, SigSeenInv
<1>8. /\ SpinInv' /\ CallersLockHeld' /\ StateInv' /\ RunInv'
      /\ ForceInv' /\ SigSeenInv' /\ HardInv'
  BY <1>1 DEF SpinInv, CallInv, CallOK, CallersLockHeld, StateInv, RunInv,
     ForceInv, SigSeenInv, HardInv
<1> QED
  BY <1>3, <1>4, <1>5, <1>6, <1>7, <1>8 DEF PlaceInv

LEMMA CPGate2Step ==
  ASSUME IInv, NEW a \in Actor, CPGate(a), ~(count[call[a].sem] > 0)
  PROVE  IInv'
<1>1. /\ pc[a] = "cp_gate" /\ pc' = [pc EXCEPT ![a] = "run"]
      /\ call' = [call EXCEPT ![a] = NoCall]
      /\ UNCHANGED <<count, queue, plock, spin, sigwoke, wchan, soft, stat, link, loaded,
                     runq, sig, tgt, held, own>>
  BY DEF CPGate, Goto, Return, lockVars, sleepVars, runVars
<1>2. PlaceInv'
  BY <1>1, PlaceFrame DEF Sleeping, RunInv
<1>3. CountMatchesQueue'
  BY <1>1 DEF CountMatchesQueue
<1>4. TypeOK'
  BY <1>1 DEF CallType, Signal
<1>5. CallInv'
  BY ZenonT(60), <1>1, CallFrame DEF CallInv, CallOK
<1>6. SigSleepInv'
  BY <1>1, SigSleepFrame DEF Unseen, InHand, RunInv, SigSeenInv
<1>7. /\ SpinInv' /\ CallersLockHeld' /\ StateInv' /\ RunInv'
      /\ ForceInv' /\ SigSeenInv' /\ HardInv'
  BY <1>1 DEF SpinInv, CallInv, CallOK, CallersLockHeld, StateInv, RunInv,
     ForceInv, SigSeenInv, HardInv
<1> QED
  BY <1>2, <1>3, <1>4, <1>5, <1>6, <1>7 DEF PlaceInv

LEMMA CPGateStep ==
  ASSUME IInv, NEW a \in Actor, CPGate(a)
  PROVE  IInv'
BY CPGate1Step, CPGate2Step

(* The gate of a cv_sema(): 2 outcomes. *)
LEMMA CVGate1Step ==
  ASSUME IInv, NEW a \in Actor, CVGate(a), count[call[a].sem] >= 0
  PROVE  IInv'
<1>1. /\ pc[a] = "cv_gate" /\ pc' = [pc EXCEPT ![a] = "run"]
      /\ call' = [call EXCEPT ![a] = NoCall]
      /\ UNCHANGED <<count, queue, plock, spin, sigwoke, wchan, soft, stat, link, loaded,
                     runq, sig, tgt, held, own>>
  BY DEF CVGate, Goto, Return, lockVars, sleepVars, Dequeue
<1>2. PlaceInv'
  BY <1>1, PlaceFrame DEF Sleeping, RunInv
<1>3. CountMatchesQueue'
  BY <1>1 DEF CountMatchesQueue
<1>4. TypeOK'
  BY <1>1 DEF CallType, Signal
<1>5. CallInv'
  BY ZenonT(60), <1>1, CallFrame DEF CallInv, CallOK
<1>6. SigSleepInv'
  BY <1>1, SigSleepFrame DEF Unseen, InHand, RunInv, SigSeenInv
<1>7. /\ SpinInv' /\ CallersLockHeld' /\ StateInv' /\ RunInv'
      /\ ForceInv' /\ SigSeenInv' /\ HardInv'
  BY <1>1 DEF SpinInv, CallInv, CallOK, CallersLockHeld, StateInv, RunInv,
     ForceInv, SigSeenInv, HardInv
<1> QED
  BY <1>2, <1>3, <1>4, <1>5, <1>6, <1>7 DEF PlaceInv

LEMMA CVGate2Step ==
  ASSUME IInv, NEW a \in Actor, CVGate(a), ~(count[call[a].sem] >= 0)
  PROVE  IInv'
<1>1. /\ pc[a] = "cv_gate" /\ count[call[a].sem] < 0 /\ Dequeue(a, call[a].sem)
      /\ pc' = [pc EXCEPT ![a] = "wake"]
      /\ UNCHANGED <<plock, spin, sigwoke, wchan, soft, stat, loaded, runq, sig, call,
                     held, own>>
  BY DEF CVGate, Goto, Return, lockVars, sleepVars, CallType
<1>2. \A b \in Actor : b # a => tgt'[b] = tgt[b]
  BY <1>1 DEF IInv, TypeOK, Dequeue
<1>3. PlaceType' /\ PlaceInv' /\ CountMatchesQueue'
  <2>1. call[a].sem \in Sema /\ pc[a] \notin PickLabel \cup AsleepLabel
    BY <1>1 DEF IInv, TypeOK, CallType, PickLabel, AsleepLabel
  <2>2. \A p \in Proc : Sleeping(p) => call'[p].sem = call[p].sem
    BY <1>1, <1>2, <2>1 DEF Sleeping, Actor
  <2> QED
    BY <1>1, <2>1, <2>2, PlaceDequeue
<1>4. TypeOK'
  BY <1>1, <1>2, <1>3 DEF PlaceType, CallType, Signal
<1>5. CallInv'
  BY ZenonT(60), <1>1, <1>2, CallFrame DEF CallInv, CallOK
<1>6. SigSleepInv'
  <2>1. \A b \in Actor : b # a => pc'[b] = pc[b] /\ tgt'[b] = tgt[b]
    BY <1>1, <1>2
  <2>2. \A r \in Proc : Unseen(r)' => InHand(a, r)' \/ (Unseen(r) /\ ~InHand(a, r))
    BY <1>1, <1>2 DEF Unseen, InHand, RunInv, SigSeenInv
  <2> QED
    BY <2>1, <2>2, SigSleepFrame DEF Actor
<1>7. /\ SpinInv' /\ CallersLockHeld' /\ StateInv' /\ RunInv'
      /\ ForceInv' /\ SigSeenInv' /\ HardInv'
  BY <1>1, <1>2 DEF SpinInv, CallInv, CallOK, CallersLockHeld, StateInv,
     RunInv, ForceInv, SigSeenInv, HardInv
<1> QED
  BY <1>3, <1>4, <1>5, <1>6, <1>7 DEF PlaceInv

LEMMA CVGateStep ==
  ASSUME IInv, NEW a \in Actor, CVGate(a)
  PROVE  IInv'
BY CVGate1Step, CVGate2Step

(* The target of a V is made runnable: 2 outcomes. *)
LEMMA Wake1Step ==
  ASSUME IInv, NEW a \in Actor, NEW q \in Proc, q = tgt[a], Wake(a), loaded[q]
  PROVE  IInv'
<1>0. pc[q] = "off" /\ stat[q] = "SSLEEP" /\ runq[q] = 0 /\ q # a
  <2> HIDE DEF IInv, TypeOK, PickLabel
  <2>1. pc[a] \in PickLabel /\ (plock[q] = None \/ pc[a] = "force_run")
    BY DEF PickLabel, Wake, StateFree
  <2> QED
    BY <2>1, TargetState
<1>1. /\ pc[a] = "wake" /\ plock[q] = None /\ sigwoke' = [sigwoke EXCEPT ![q] = FALSE]
      /\ stat' = [stat EXCEPT ![q] = "SRUN"] /\ wchan' = [wchan EXCEPT ![q] = None]
      /\ runq' = [runq EXCEPT ![q] = @ + 1] /\ link' = [link EXCEPT ![q] = TRUE]
      /\ WakerDone(a)
      /\ pc' = [pc EXCEPT ![a] = IF call[a].op = "vall" THEN "vall" ELSE "run"]
      /\ call' = IF call[a].op = "vall" THEN call ELSE [call EXCEPT ![a] = NoCall]
      /\ tgt' = [tgt EXCEPT ![a] = None] /\ held' = [held EXCEPT ![a] = None]
      /\ plock' = IF held[a] = None THEN plock ELSE [plock EXCEPT ![held[a]] = None]
      /\ UNCHANGED <<count, queue, spin, soft, loaded, sig, own>>
  BY DEF Wake, Goto, StateFree, WakerDone, SetRq, MakeRunnable, semaVars,
     Return, Release
<1>2. /\ call' \in [Actor -> CallType]
      /\ pc' \in [Actor -> {"run"} \cup PLabel \cup VLabel]
      /\ tgt' \in [Actor -> Proc \cup {None}]
      /\ held' \in [Actor -> Proc \cup {None}]
      /\ plock' \in [Proc -> Actor \cup {None}]
  BY <1>1, WakerDoneEffect DEF VLabel
<1>3. /\ pc'[a] \in {"run", "vall"}
      /\ pc'[a] = "run" => call'[a] = NoCall
      /\ pc'[a] = "vall" => call'[a] = call[a]
      /\ tgt'[a] = None /\ held'[a] = None
      /\ \A b \in Actor : b # a => /\ pc'[b] = pc[b] /\ call'[b] = call[b]
                                  /\ tgt'[b] = tgt[b] /\ held'[b] = held[b]
      /\ \A p \in Proc : plock'[p] = IF p = held[a] THEN None ELSE plock[p]
  BY <1>1, WakerDoneEffect DEF VLabel
<1>4. PlaceInv'
  <2>1. \A b \in Actor : b # a => pc'[b] = pc[b] /\ tgt'[b] = tgt[b]
    BY <1>0, <1>1 DEF IInv, TypeOK
  <2>2. pc[a] \in PickLabel /\ pc'[a] \notin PickLabel /\ pc'[a] \notin AsleepLabel
    BY <1>0, <1>1 DEF IInv, TypeOK, PickLabel, AsleepLabel
  <2>3. ~Sleeping(q)'
    BY <1>0, <1>1 DEF IInv, TypeOK, Sleeping
  <2>4. \A p \in Proc : p # q =>
          /\ Sleeping(p)' <=> Sleeping(p)
          /\ Sleeping(p) => call'[p].sem = call[p].sem /\ link'[p] = link[p]
    BY <1>0, <1>1, <2>1, <2>2 DEF IInv, TypeOK, Sleeping, AsleepLabel, PickLabel, Actor
  <2>5. UNCHANGED queue
    BY <1>1
  <2> QED
    BY ZenonT(60), <2>1, <2>2, <2>3, <2>4, <2>5, PlaceAwaken
<1>5. CountMatchesQueue'
  BY <1>1 DEF CountMatchesQueue
<1>6. TypeOK'
  <2>1. sigwoke' \in [Proc -> BOOLEAN]
    BY <1>0, <1>1, <1>2
  <2>2. stat' \in [Proc -> {"SONPROC", "SRUN", "SSLEEP", "SSTOP"}]
    BY <1>0, <1>1, <1>2
  <2>3. wchan' \in [Proc -> Sema \cup {None}]
    BY <1>0, <1>1, <1>2
  <2>4. runq' \in [Proc -> Nat]
    BY <1>0, <1>1, <1>2
  <2>5. link' \in [Proc -> BOOLEAN]
    BY <1>0, <1>1, <1>2
  <2>6. plock' \in [Proc -> Actor \cup {None}]
    BY <1>0, <1>1, <1>2
  <2>7. held' \in [Actor -> Proc \cup {None}]
    BY <1>0, <1>1, <1>2
  <2> QED
    BY <1>0, <1>1, <1>2, <2>1, <2>2, <2>3, <2>4, <2>5, <2>6, <2>7
<1>7. CallInv'
  <2>1. \A b \in Actor : b # a => pc'[b] = pc[b] /\ call'[b] = call[b]
    BY <1>0, <1>1, <1>3
  <2>2. CallOK(a)'
    BY <1>0, <1>1, <1>3 DEF CallInv, CallOK
  <2> QED
    BY <2>1, <2>2, CallFrame
<1>8. SigSleepInv'
  BY ZenonT(60), <1>0, <1>1, SigSleepFrame DEF Unseen, InHand, RunInv, SigSeenInv
<1>9. /\ SpinInv' /\ CallersLockHeld' /\ StateInv' /\ RunInv'
      /\ ForceInv' /\ SigSeenInv' /\ HardInv'
  BY SMTT(60), <1>0, <1>1 DEF SpinInv, CallInv, CallOK, CallersLockHeld, StateInv,
     RunInv, ForceInv, SigSeenInv, HardInv
<1> QED
  BY <1>4, <1>5, <1>6, <1>7, <1>8, <1>9 DEF PlaceInv

LEMMA Wake2Step ==
  ASSUME IInv, NEW a \in Actor, NEW q \in Proc, q = tgt[a], Wake(a),
     ~loaded[q]
  PROVE  IInv'
<1>0. pc[q] = "off" /\ stat[q] = "SSLEEP" /\ runq[q] = 0 /\ q # a
  <2> HIDE DEF IInv, TypeOK, PickLabel
  <2>1. pc[a] \in PickLabel /\ (plock[q] = None \/ pc[a] = "force_run")
    BY DEF PickLabel, Wake, StateFree
  <2> QED
    BY <2>1, TargetState
<1>1. /\ pc[a] = "wake" /\ plock[q] = None /\ sigwoke' = [sigwoke EXCEPT ![q] = FALSE]
      /\ stat' = [stat EXCEPT ![q] = "SRUN"] /\ wchan' = [wchan EXCEPT ![q] = None]
      /\ pc' = [pc EXCEPT ![a] = "runout_gate"]
      /\ UNCHANGED <<count, queue, plock, spin, soft, link, loaded, runq, sig, call, tgt,
                     held, own>>
  BY DEF Wake, Goto, StateFree, WakerDone, SetRq, MakeRunnable, semaVars,
     Return, Release
<1>2. PlaceInv'
  <2>1. \A b \in Actor : b # a => pc'[b] = pc[b] /\ tgt'[b] = tgt[b]
    BY <1>0, <1>1 DEF IInv, TypeOK
  <2>2. pc[a] \in PickLabel /\ pc'[a] \notin PickLabel /\ pc'[a] \notin AsleepLabel
    BY <1>0, <1>1 DEF IInv, TypeOK, PickLabel, AsleepLabel
  <2>3. ~Sleeping(q)'
    BY <1>0, <1>1 DEF IInv, TypeOK, Sleeping
  <2>4. \A p \in Proc : p # q =>
          /\ Sleeping(p)' <=> Sleeping(p)
          /\ Sleeping(p) => call'[p].sem = call[p].sem /\ link'[p] = link[p]
    BY <1>0, <1>1, <2>1, <2>2 DEF IInv, TypeOK, Sleeping, AsleepLabel, PickLabel, Actor
  <2>5. UNCHANGED queue
    BY <1>1
  <2> QED
    BY <2>1, <2>2, <2>3, <2>4, <2>5, PlaceAwaken
<1>3. CountMatchesQueue'
  BY <1>1 DEF CountMatchesQueue
<1>4. TypeOK'
  BY <1>0, <1>1 DEF CallType, Signal
<1>5. CallInv'
  <2>1. \A b \in Actor : b # a => pc'[b] = pc[b] /\ call'[b] = call[b]
    BY <1>0, <1>1
  <2>2. CallOK(a)'
    BY <1>0, <1>1 DEF CallInv, CallOK
  <2> QED
    BY <2>1, <2>2, CallFrame
<1>6. SigSleepInv'
  <2>1. \A b \in Actor : b # a => pc'[b] = pc[b] /\ tgt'[b] = tgt[b]
    BY <1>0, <1>1
  <2>2. \A r \in Proc : Unseen(r)' => InHand(a, r)' \/ (Unseen(r) /\ ~InHand(a, r))
    BY <1>0, <1>1 DEF Unseen, InHand, RunInv, SigSeenInv
  <2> QED
    BY <2>1, <2>2, SigSleepFrame DEF Actor
<1>7. /\ SpinInv' /\ CallersLockHeld' /\ StateInv' /\ RunInv'
      /\ ForceInv' /\ SigSeenInv' /\ HardInv'
  BY <1>0, <1>1 DEF SpinInv, CallInv, CallOK, CallersLockHeld, StateInv,
     RunInv, ForceInv, SigSeenInv, HardInv
<1> QED
  BY <1>2, <1>3, <1>4, <1>5, <1>6, <1>7 DEF PlaceInv

LEMMA WakeStep ==
  ASSUME IInv, NEW a \in Actor, Wake(a)
  PROVE  IInv'
<1>1. tgt[a] \in Proc
  BY DEF IInv, TargetInv, StateInv, PickLabel, Wake
<1> QED
  BY <1>1, Wake1Step, Wake2Step

(* The V of runout: 2 outcomes. *)
LEMMA RunoutGate1Step ==
  ASSUME IInv, NEW a \in Actor, RunoutGate(a), count[runout] + 1 > 0
  PROVE  IInv'
<1>1. /\ pc[a] = "runout_gate" /\ count' = [count EXCEPT ![runout] = @ + 1]
      /\ WakerDone(a)
      /\ pc' = [pc EXCEPT ![a] = IF call[a].op = "vall" THEN "vall" ELSE "run"]
      /\ call' = IF call[a].op = "vall" THEN call ELSE [call EXCEPT ![a] = NoCall]
      /\ tgt' = [tgt EXCEPT ![a] = None] /\ held' = [held EXCEPT ![a] = None]
      /\ plock' = IF held[a] = None THEN plock ELSE [plock EXCEPT ![held[a]] = None]
      /\ UNCHANGED <<queue, spin, sigwoke, wchan, soft, stat, link, loaded, runq, sig,
                     own>>
  BY DEF RunoutGate, Goto, WakerDone, sleepVars, NoWaiter, Dequeue, Return,
     Release
<1>2. /\ call' \in [Actor -> CallType]
      /\ pc' \in [Actor -> {"run"} \cup PLabel \cup VLabel]
      /\ tgt' \in [Actor -> Proc \cup {None}]
      /\ held' \in [Actor -> Proc \cup {None}]
      /\ plock' \in [Proc -> Actor \cup {None}]
  BY <1>1, WakerDoneEffect DEF VLabel
<1>3. /\ pc'[a] \in {"run", "vall"}
      /\ pc'[a] = "run" => call'[a] = NoCall
      /\ pc'[a] = "vall" => call'[a] = call[a]
      /\ tgt'[a] = None /\ held'[a] = None
      /\ \A b \in Actor : b # a => /\ pc'[b] = pc[b] /\ call'[b] = call[b]
                                  /\ tgt'[b] = tgt[b] /\ held'[b] = held[b]
      /\ \A p \in Proc : plock'[p] = IF p = held[a] THEN None ELSE plock[p]
  BY <1>1, WakerDoneEffect DEF VLabel
<1>4. PlaceInv'
  BY <1>1, PlaceFrame DEF Sleeping, RunInv
<1>5. CountMatchesQueue'
  BY <1>1 DEF CountMatchesQueue
<1>6. TypeOK'
  <2>1. count' \in [Sema -> Int]
    BY <1>1, <1>2
  <2> QED
    BY <1>1, <1>2, <2>1
<1>7. CallInv'
  <2>1. \A b \in Actor : b # a => pc'[b] = pc[b] /\ call'[b] = call[b]
    BY <1>1, <1>3
  <2>2. CallOK(a)'
    BY <1>1, <1>3 DEF CallInv, CallOK
  <2> QED
    BY <2>1, <2>2, CallFrame
<1>8. SigSleepInv'
  BY <1>1, SigSleepFrame DEF Unseen, InHand, RunInv, SigSeenInv
<1>9. /\ SpinInv' /\ CallersLockHeld' /\ StateInv' /\ RunInv'
      /\ ForceInv' /\ SigSeenInv' /\ HardInv'
  BY <1>1 DEF SpinInv, CallInv, CallOK, CallersLockHeld, StateInv, RunInv,
     ForceInv, SigSeenInv, HardInv
<1> QED
  BY <1>4, <1>5, <1>6, <1>7, <1>8, <1>9 DEF PlaceInv

LEMMA RunoutGate2Step ==
  ASSUME IInv, NEW a \in Actor, RunoutGate(a), ~(count[runout] + 1 > 0)
  PROVE  IInv'
<1>1. /\ pc[a] = "runout_gate" /\ count[runout] < 0 /\ Dequeue(a, runout)
      /\ pc' = [pc EXCEPT ![a] = "runout_wake"]
      /\ UNCHANGED <<plock, spin, sigwoke, wchan, soft, stat, loaded, runq, sig, call,
                     held, own>>
  BY DEF RunoutGate, Goto, WakerDone, sleepVars, NoWaiter, Return, Release,
     CallType
<1>2. \A b \in Actor : b # a => tgt'[b] = tgt[b]
  BY <1>1 DEF IInv, TypeOK, Dequeue
<1>3. PlaceType' /\ PlaceInv' /\ CountMatchesQueue'
  <2>1. runout \in Sema /\ pc[a] \notin PickLabel \cup AsleepLabel
    BY <1>1, SemaAssumption DEF IInv, TypeOK, CallType, PickLabel, AsleepLabel
  <2>2. \A p \in Proc : Sleeping(p) => call'[p].sem = call[p].sem
    BY <1>1, <1>2, <2>1 DEF Sleeping, Actor
  <2> QED
    BY <1>1, <2>1, <2>2, PlaceDequeue
<1>4. TypeOK'
  BY <1>1, <1>2, <1>3 DEF PlaceType, CallType, Signal
<1>5. CallInv'
  BY ZenonT(60), <1>1, <1>2, CallFrame DEF CallInv, CallOK
<1>6. SigSleepInv'
  <2>1. \A b \in Actor : b # a => pc'[b] = pc[b] /\ tgt'[b] = tgt[b]
    BY <1>1, <1>2
  <2>2. \A r \in Proc : Unseen(r)' => InHand(a, r)' \/ (Unseen(r) /\ ~InHand(a, r))
    BY <1>1, <1>2 DEF Unseen, InHand, RunInv, SigSeenInv
  <2> QED
    BY <2>1, <2>2, SigSleepFrame DEF Actor
<1>7. /\ SpinInv' /\ CallersLockHeld' /\ StateInv' /\ RunInv'
      /\ ForceInv' /\ SigSeenInv' /\ HardInv'
  BY <1>1, <1>2 DEF SpinInv, CallInv, CallOK, CallersLockHeld, StateInv,
     RunInv, ForceInv, SigSeenInv, HardInv
<1> QED
  BY <1>3, <1>4, <1>5, <1>6, <1>7 DEF PlaceInv

LEMMA RunoutGateStep ==
  ASSUME IInv, NEW a \in Actor, RunoutGate(a)
  PROVE  IInv'
BY RunoutGate1Step, RunoutGate2Step

(* Sched is made runnable. *)
LEMMA RunoutWakeStep ==
  ASSUME IInv, NEW a \in Actor, NEW q \in Proc, q = tgt[a], RunoutWake(a)
  PROVE  IInv'
<1>0. pc[q] = "off" /\ stat[q] = "SSLEEP" /\ runq[q] = 0 /\ q # a
  <2> HIDE DEF IInv, TypeOK, PickLabel
  <2>1. pc[a] \in PickLabel /\ (plock[q] = None \/ pc[a] = "force_run")
    BY DEF PickLabel, RunoutWake, StateFree
  <2> QED
    BY <2>1, TargetState
<1>1. /\ pc[a] = "runout_wake" /\ plock[q] = None
      /\ sigwoke' = [sigwoke EXCEPT ![q] = FALSE] /\ stat' = [stat EXCEPT ![q] = "SRUN"]
      /\ wchan' = [wchan EXCEPT ![q] = None] /\ runq' = [runq EXCEPT ![q] = @ + 1]
      /\ link' = [link EXCEPT ![q] = TRUE] /\ WakerDone(a)
      /\ pc' = [pc EXCEPT ![a] = IF call[a].op = "vall" THEN "vall" ELSE "run"]
      /\ call' = IF call[a].op = "vall" THEN call ELSE [call EXCEPT ![a] = NoCall]
      /\ tgt' = [tgt EXCEPT ![a] = None] /\ held' = [held EXCEPT ![a] = None]
      /\ plock' = IF held[a] = None THEN plock ELSE [plock EXCEPT ![held[a]] = None]
      /\ UNCHANGED <<count, queue, spin, soft, loaded, sig, own>>
  BY DEF RunoutWake, StateFree, WakerDone, SetRq, MakeRunnable, semaVars,
     Goto, Return, Release
<1>2. /\ call' \in [Actor -> CallType]
      /\ pc' \in [Actor -> {"run"} \cup PLabel \cup VLabel]
      /\ tgt' \in [Actor -> Proc \cup {None}]
      /\ held' \in [Actor -> Proc \cup {None}]
      /\ plock' \in [Proc -> Actor \cup {None}]
  BY <1>1, WakerDoneEffect DEF VLabel
<1>3. /\ pc'[a] \in {"run", "vall"}
      /\ pc'[a] = "run" => call'[a] = NoCall
      /\ pc'[a] = "vall" => call'[a] = call[a]
      /\ tgt'[a] = None /\ held'[a] = None
      /\ \A b \in Actor : b # a => /\ pc'[b] = pc[b] /\ call'[b] = call[b]
                                  /\ tgt'[b] = tgt[b] /\ held'[b] = held[b]
      /\ \A p \in Proc : plock'[p] = IF p = held[a] THEN None ELSE plock[p]
  BY <1>1, WakerDoneEffect DEF VLabel
<1>4. loaded[q]
  BY <1>1 DEF TargetInv, RunInv
<1>5. PlaceInv'
  <2>1. \A b \in Actor : b # a => pc'[b] = pc[b] /\ tgt'[b] = tgt[b]
    BY <1>0, <1>1, <1>4 DEF IInv, TypeOK
  <2>2. pc[a] \in PickLabel /\ pc'[a] \notin PickLabel /\ pc'[a] \notin AsleepLabel
    BY <1>0, <1>1, <1>4 DEF IInv, TypeOK, PickLabel, AsleepLabel
  <2>3. ~Sleeping(q)'
    BY <1>0, <1>1, <1>4 DEF IInv, TypeOK, Sleeping
  <2>4. \A p \in Proc : p # q =>
          /\ Sleeping(p)' <=> Sleeping(p)
          /\ Sleeping(p) => call'[p].sem = call[p].sem /\ link'[p] = link[p]
    BY <1>0, <1>1, <1>4, <2>1, <2>2 DEF IInv, TypeOK, Sleeping, AsleepLabel, PickLabel, Actor
  <2>5. UNCHANGED queue
    BY <1>1
  <2> QED
    BY <2>1, <2>2, <2>3, <2>4, <2>5, PlaceAwaken
<1>6. CountMatchesQueue'
  BY <1>1 DEF CountMatchesQueue
<1>7. TypeOK'
  <2>1. sigwoke' \in [Proc -> BOOLEAN]
    BY <1>0, <1>1, <1>2
  <2>2. stat' \in [Proc -> {"SONPROC", "SRUN", "SSLEEP", "SSTOP"}]
    BY <1>0, <1>1, <1>2
  <2>3. wchan' \in [Proc -> Sema \cup {None}]
    BY <1>0, <1>1, <1>2
  <2>4. runq' \in [Proc -> Nat]
    BY <1>0, <1>1, <1>2
  <2>5. link' \in [Proc -> BOOLEAN]
    BY <1>0, <1>1, <1>2
  <2>6. plock' \in [Proc -> Actor \cup {None}]
    BY <1>0, <1>1, <1>2
  <2>7. held' \in [Actor -> Proc \cup {None}]
    BY <1>0, <1>1, <1>2
  <2> QED
    BY <1>0, <1>1, <1>2, <2>1, <2>2, <2>3, <2>4, <2>5, <2>6, <2>7
<1>8. CallInv'
  <2>1. \A b \in Actor : b # a => pc'[b] = pc[b] /\ call'[b] = call[b]
    BY <1>0, <1>1, <1>4, <1>3
  <2>2. CallOK(a)'
    BY <1>0, <1>1, <1>4, <1>3 DEF CallInv, CallOK
  <2> QED
    BY <2>1, <2>2, CallFrame
<1>9. SigSleepInv'
  BY ZenonT(60), <1>0, <1>1, <1>4, SigSleepFrame DEF Unseen, InHand, RunInv, SigSeenInv
<1>10. /\ SpinInv' /\ CallersLockHeld' /\ StateInv' /\ RunInv'
      /\ ForceInv' /\ SigSeenInv' /\ HardInv'
  BY SMTT(60), <1>0, <1>1, <1>4 DEF SpinInv, CallInv, CallOK, CallersLockHeld, StateInv,
     RunInv, ForceInv, SigSeenInv, HardInv
<1> QED
  BY <1>5, <1>6, <1>7, <1>8, <1>9, <1>10 DEF PlaceInv

(* A signal is posted: 2 outcomes. *)
LEMMA PSignal1Step ==
  ASSUME IInv, NEW a \in Actor, NEW q \in Proc \ {sched}, NEW g \in Signal,
     PSignal(a, q, g), stat[q] = "SSLEEP" /\ soft[q]
  PROVE  IInv'
<1>1. /\ pc[a] = "run" /\ plock[q] = None /\ plock' = [plock EXCEPT ![q] = a]
      /\ tgt' = [tgt EXCEPT ![a] = q] /\ sig' = [sig EXCEPT ![q] = @ \cup {g}]
      /\ pc' = [pc EXCEPT ![a] = "force_gate"]
      /\ UNCHANGED <<count, queue, spin, sigwoke, wchan, soft, stat, link, loaded, runq,
                     call, held, own>>
  BY DEF PSignal, Goto, StateFree, semaVars, sleepVars, runVars
<1>2. pc[q] = "off" /\ q # a
  BY <1>1, ContextSaved
<1>3. PlaceInv'
  BY <1>1, <1>2, PlaceFrame DEF Sleeping, RunInv
<1>4. CountMatchesQueue'
  BY <1>1 DEF CountMatchesQueue
<1>5. TypeOK'
  BY <1>1, <1>2 DEF CallType, Signal
<1>6. CallInv'
  <2>1. \A b \in Actor : b # a => pc'[b] = pc[b] /\ call'[b] = call[b]
    BY <1>1, <1>2
  <2>2. CallOK(a)'
    BY <1>1, <1>2 DEF CallInv, CallOK
  <2> QED
    BY <2>1, <2>2, CallFrame
<1>7. SigSleepInv'
  BY <1>1, <1>2, SigSleepFrame DEF Unseen, InHand, RunInv, SigSeenInv
<1>8. /\ SpinInv' /\ CallersLockHeld' /\ StateInv' /\ RunInv'
      /\ ForceInv' /\ SigSeenInv' /\ HardInv'
  BY SMTT(60), <1>1, <1>2 DEF SpinInv, CallInv, CallOK, CallersLockHeld, StateInv,
     RunInv, ForceInv, SigSeenInv, HardInv
<1> QED
  BY <1>3, <1>4, <1>5, <1>6, <1>7, <1>8 DEF PlaceInv

LEMMA PSignal2Step ==
  ASSUME IInv, NEW a \in Actor, NEW q \in Proc \ {sched}, NEW g \in Signal,
     PSignal(a, q, g), ~(stat[q] = "SSLEEP" /\ soft[q])
  PROVE  IInv'
<1>1. /\ pc[a] = "run" /\ plock[q] = None
      /\ sig' = [sig EXCEPT ![q] = IF stat[q] = "SSTOP" /\ g = "STOP" THEN @ \ {g} ELSE @ \cup {g}]
      /\ UNCHANGED <<count, queue, plock, spin, sigwoke, wchan, soft, stat, link, loaded,
                     runq, pc, call, tgt, held, own>>
  BY DEF PSignal, Goto, StateFree, semaVars, sleepVars, runVars
<1>2. PlaceInv'
  BY <1>1, PlaceFrame DEF Sleeping, RunInv
<1>3. CountMatchesQueue'
  BY <1>1 DEF CountMatchesQueue
<1>4. TypeOK'
  BY <1>1 DEF CallType, Signal
<1>5. CallInv'
  BY <1>1, CallFrame DEF CallInv, CallOK
<1>6. SigSleepInv'
  <2>1. \A b \in Actor : b # a => pc'[b] = pc[b] /\ tgt'[b] = tgt[b]
    BY <1>1
  <2>2. \A r \in Proc : Unseen(r)' => InHand(a, r)' \/ (Unseen(r) /\ ~InHand(a, r))
    BY <1>1 DEF Unseen, InHand, RunInv, SigSeenInv
  <2> QED
    BY <2>1, <2>2, SigSleepFrame DEF Actor
<1>7. /\ SpinInv' /\ CallersLockHeld' /\ StateInv' /\ RunInv'
      /\ ForceInv' /\ SigSeenInv' /\ HardInv'
  BY <1>1 DEF SpinInv, CallInv, CallOK, CallersLockHeld, StateInv, RunInv,
     ForceInv, SigSeenInv, HardInv
<1> QED
  BY <1>2, <1>3, <1>4, <1>5, <1>6, <1>7 DEF PlaceInv

LEMMA PSignalStep ==
  ASSUME IInv, NEW a \in Actor, NEW q \in Proc \ {sched}, NEW g \in Signal,
     PSignal(a, q, g)
  PROVE  IInv'
BY PSignal1Step, PSignal2Step

(* CONT is posted: 3 outcomes. *)
LEMMA PSignalCont1Step ==
  ASSUME IInv, NEW a \in Actor, NEW q \in Proc \ {sched}, PSignalCont(a, q),
     stat[q] # "SSTOP"
  PROVE  IInv'
<1>1. /\ pc[a] = "run" /\ plock[q] = None /\ sig' = [sig EXCEPT ![q] = @ \ {"STOP"}]
      /\ UNCHANGED <<count, queue, plock, spin, sigwoke, wchan, soft, stat, link, loaded,
                     runq, pc, call, tgt, held, own>>
  BY DEF PSignalCont, Goto, StateFree, SetRq, semaVars, sleepVars
<1>2. PlaceInv'
  BY <1>1, PlaceFrame DEF Sleeping, RunInv
<1>3. CountMatchesQueue'
  BY <1>1 DEF CountMatchesQueue
<1>4. TypeOK'
  BY <1>1 DEF CallType, Signal
<1>5. CallInv'
  BY <1>1, CallFrame DEF CallInv, CallOK
<1>6. SigSleepInv'
  <2>1. \A b \in Actor : b # a => pc'[b] = pc[b] /\ tgt'[b] = tgt[b]
    BY <1>1
  <2>2. \A r \in Proc : Unseen(r)' => InHand(a, r)' \/ (Unseen(r) /\ ~InHand(a, r))
    BY <1>1 DEF Unseen, InHand, RunInv, SigSeenInv
  <2> QED
    BY <2>1, <2>2, SigSleepFrame DEF Actor
<1>7. /\ SpinInv' /\ CallersLockHeld' /\ StateInv' /\ RunInv'
      /\ ForceInv' /\ SigSeenInv' /\ HardInv'
  BY <1>1 DEF SpinInv, CallInv, CallOK, CallersLockHeld, StateInv, RunInv,
     ForceInv, SigSeenInv, HardInv
<1> QED
  BY <1>2, <1>3, <1>4, <1>5, <1>6, <1>7 DEF PlaceInv

LEMMA PSignalCont2Step ==
  ASSUME IInv, NEW a \in Actor, NEW q \in Proc \ {sched}, PSignalCont(a, q),
     stat[q] = "SSTOP" /\ loaded[q]
  PROVE  IInv'
<1>1. /\ pc[a] = "run" /\ plock[q] = None /\ sig' = [sig EXCEPT ![q] = @ \ {"STOP"}]
      /\ stat' = [stat EXCEPT ![q] = "SRUN"] /\ runq' = [runq EXCEPT ![q] = @ + 1]
      /\ link' = [link EXCEPT ![q] = TRUE]
      /\ UNCHANGED <<count, queue, plock, spin, sigwoke, wchan, soft, loaded, pc, call,
                     tgt, held, own>>
  BY DEF PSignalCont, Goto, StateFree, SetRq, semaVars, sleepVars
<1>2. pc[q] = "stop_off" /\ q # a
  BY <1>1, ContextSaved
<1>3. PlaceInv'
  <2>1. \A r \in Proc : Sleeping(r)' <=> Sleeping(r)
    BY <1>1, <1>2 DEF Sleeping, RunInv
  <2>2. \A r \in Proc : Sleeping(r) => call'[r].sem = call[r].sem /\ link'[r] = link[r]
    BY <1>1, <1>2 DEF Sleeping
  <2>3. \A b \in Actor : pc[b] \in PickLabel \/ pc'[b] \in PickLabel =>
                            pc'[b] = pc[b] /\ tgt'[b] = tgt[b]
    BY <1>1, <1>2
  <2>4. UNCHANGED queue
    BY <1>1
  <2> QED
    BY <2>1, <2>2, <2>3, <2>4, PlaceFrame
<1>4. CountMatchesQueue'
  BY <1>1 DEF CountMatchesQueue
<1>5. TypeOK'
  BY SMTT(60), <1>1, <1>2 DEF CallType, Signal
<1>6. CallInv'
  BY <1>1, <1>2, CallFrame DEF CallInv, CallOK
<1>7. SigSleepInv'
  <2>1. \A b \in Actor : b # a => pc'[b] = pc[b] /\ tgt'[b] = tgt[b]
    BY <1>1, <1>2
  <2>2. \A r \in Proc : Unseen(r)' => InHand(a, r)' \/ (Unseen(r) /\ ~InHand(a, r))
    BY <1>1, <1>2 DEF Unseen, InHand, RunInv, SigSeenInv
  <2> QED
    BY <2>1, <2>2, SigSleepFrame DEF Actor
<1>8. /\ SpinInv' /\ CallersLockHeld' /\ StateInv' /\ RunInv'
      /\ ForceInv' /\ SigSeenInv' /\ HardInv'
  BY <1>1, <1>2 DEF SpinInv, CallInv, CallOK, CallersLockHeld, StateInv,
     RunInv, ForceInv, SigSeenInv, HardInv
<1> QED
  BY <1>3, <1>4, <1>5, <1>6, <1>7, <1>8 DEF PlaceInv

LEMMA PSignalCont3Step ==
  ASSUME IInv, NEW a \in Actor, NEW q \in Proc \ {sched}, PSignalCont(a, q),
     stat[q] = "SSTOP" /\ ~loaded[q]
  PROVE  IInv'
<1>1. /\ pc[a] = "run" /\ plock[q] = None /\ sig' = [sig EXCEPT ![q] = @ \ {"STOP"}]
      /\ stat' = [stat EXCEPT ![q] = "SRUN"] /\ plock' = [plock EXCEPT ![q] = a]
      /\ held' = [held EXCEPT ![a] = q] /\ pc' = [pc EXCEPT ![a] = "runout_gate"]
      /\ UNCHANGED <<count, queue, spin, sigwoke, wchan, soft, link, loaded, runq, call,
                     tgt, own>>
  BY DEF PSignalCont, Goto, StateFree, SetRq, semaVars, sleepVars
<1>2. pc[q] = "stop_off" /\ q # a
  BY <1>1, ContextSaved
<1>3. PlaceInv'
  BY <1>1, <1>2, PlaceFrame DEF Sleeping, RunInv
<1>4. CountMatchesQueue'
  BY <1>1 DEF CountMatchesQueue
<1>5. TypeOK'
  BY <1>1, <1>2 DEF CallType, Signal
<1>6. CallInv'
  <2>1. \A b \in Actor : b # a => pc'[b] = pc[b] /\ call'[b] = call[b]
    BY <1>1, <1>2
  <2>2. CallOK(a)'
    BY <1>1, <1>2 DEF CallInv, CallOK
  <2> QED
    BY <2>1, <2>2, CallFrame
<1>7. SigSleepInv'
  <2>1. \A b \in Actor : b # a => pc'[b] = pc[b] /\ tgt'[b] = tgt[b]
    BY <1>1, <1>2
  <2>2. \A r \in Proc : Unseen(r)' => InHand(a, r)' \/ (Unseen(r) /\ ~InHand(a, r))
    BY <1>1, <1>2 DEF Unseen, InHand, RunInv, SigSeenInv
  <2> QED
    BY <2>1, <2>2, SigSleepFrame DEF Actor
<1>8. /\ SpinInv' /\ CallersLockHeld' /\ StateInv' /\ RunInv'
      /\ ForceInv' /\ SigSeenInv' /\ HardInv'
  BY <1>1, <1>2 DEF SpinInv, CallInv, CallOK, CallersLockHeld, StateInv,
     RunInv, ForceInv, SigSeenInv, HardInv
<1> QED
  BY <1>3, <1>4, <1>5, <1>6, <1>7, <1>8 DEF PlaceInv

LEMMA PSignalContStep ==
  ASSUME IInv, NEW a \in Actor, NEW q \in Proc \ {sched}, PSignalCont(a, q)
  PROVE  IInv'
BY PSignalCont1Step, PSignalCont2Step, PSignalCont3Step

(* The gate of a force_v_sema(): 2 outcomes. *)
LEMMA ForceGate1Step ==
  ASSUME IInv, NEW a \in Actor, NEW q \in Proc, q = tgt[a], ForceGate(a),
     ~link[q]
  PROVE  IInv'
<1>1. /\ pc[a] = "force_gate" /\ plock' = [plock EXCEPT ![q] = None]
      /\ tgt' = [tgt EXCEPT ![a] = None] /\ pc' = [pc EXCEPT ![a] = "run"]
      /\ call' = [call EXCEPT ![a] = NoCall]
      /\ UNCHANGED <<count, queue, spin, sigwoke, wchan, soft, stat, link, loaded, runq,
                     sig, held, own>>
  BY DEF ForceGate, Goto, Return, Release, semaVars, sleepVars, runVars
<1>2. PlaceInv'
  BY <1>1, PlaceFrame DEF Sleeping, RunInv
<1>3. CountMatchesQueue'
  BY <1>1 DEF CountMatchesQueue
<1>4. TypeOK'
  BY <1>1 DEF CallType, Signal
<1>5. CallInv'
  BY ZenonT(60), <1>1, CallFrame DEF CallInv, CallOK
<1>6. SigSleepInv'
  <2>1. SUFFICES ASSUME NEW r \in Proc, Unseen(r)'
                 PROVE  \E b \in Actor : InHand(b, r)'
    BY DEF SigSleepInv
  <2>2. Unseen(r)
    BY <1>1, <2>1 DEF Unseen
  <2>3. CASE r = q
    <3>1. ~OnQueue(q)
      BY <1>1 DEF WaiterInv, OnQueue
    <3>2. Sleeping(q)
      BY <2>2, <2>3 DEF Sleeping, Unseen
    <3>3. PICK b \in Actor : pc[b] \in PickLabel /\ tgt[b] = q
      BY <3>1, <3>2 DEF NotLostInv
    <3> QED
      BY <1>1, <2>3, <3>3 DEF InHand
  <2>4. CASE r # q
    <3>1. PICK b \in Actor : InHand(b, r)
      BY <2>2 DEF SigSleepInv
    <3> QED
      BY <1>1, <2>4, <3>1 DEF InHand
  <2> QED
    BY <2>3, <2>4
<1>7. /\ SpinInv' /\ CallersLockHeld' /\ StateInv' /\ RunInv'
      /\ ForceInv' /\ SigSeenInv' /\ HardInv'
  BY <1>1 DEF SpinInv, CallInv, CallOK, CallersLockHeld, StateInv, RunInv,
     ForceInv, SigSeenInv, HardInv
<1> QED
  BY <1>2, <1>3, <1>4, <1>5, <1>6, <1>7 DEF PlaceInv

LEMMA ForceGate2Step ==
  ASSUME IInv, NEW a \in Actor, NEW q \in Proc, q = tgt[a], ForceGate(a),
     link[q]
  PROVE  IInv'
<1>1. /\ pc[a] = "force_gate" /\ count' = [count EXCEPT ![wchan[q]] = @ + 1]
      /\ queue' = [queue EXCEPT ![wchan[q]] = Without(@, q)]
      /\ pc' = [pc EXCEPT ![a] = "force_run"]
      /\ UNCHANGED <<plock, spin, sigwoke, wchan, soft, stat, link, loaded, runq, sig,
                     call, tgt, held, own>>
  BY DEF ForceGate, Goto, Return, Release, semaVars, sleepVars, runVars
<1>2. PlaceType' /\ PlaceInv' /\ CountMatchesQueue'
  <2>1. Sleeping(q) /\ stat[q] = "SSLEEP" /\ pc[q] = "off"
    BY <1>1 DEF ForceInv, Sleeping
  <2>2. OnQueue(q)
    BY <1>1, <2>1 DEF NotLostInv, TargetInv, StateInv
  <2>3. PICK s \in Sema : q \in ToSet(queue[s])
    BY <2>2 DEF OnQueue
  <2>4. call[q].sem = s
    BY <2>3 DEF WaiterInv
  <2>5. wchan[q] = call[q].sem
    BY <2>1 DEF RunInv
  <2> QED
    BY <1>1, <2>3, <2>4, <2>5, PlaceYank
<1>3. TypeOK'
  BY <1>1, <1>2 DEF PlaceType, CallType, Signal
<1>4. CallInv'
  BY ZenonT(60), <1>1, CallFrame DEF CallInv, CallOK
<1>5. SigSleepInv'
  BY <1>1, SigSleepFrame DEF Unseen, InHand, RunInv, SigSeenInv
<1>6. SpinInv' /\ CallersLockHeld' /\ StateInv'
  BY <1>1 DEF SpinInv, CallInv, CallOK, CallersLockHeld, StateInv
<1>7. RunInv' /\ ForceInv' /\ SigSeenInv' /\ HardInv'
  BY <1>1 DEF RunInv, ForceInv, StateInv, SigSeenInv, HardInv
<1> QED
  BY <1>2, <1>3, <1>4, <1>5, <1>6, <1>7 DEF PlaceInv

LEMMA ForceGateStep ==
  ASSUME IInv, NEW a \in Actor, ForceGate(a)
  PROVE  IInv'
<1>1. tgt[a] \in Proc
  BY DEF IInv, TargetInv, StateInv, PickLabel, ForceGate
<1> QED
  BY <1>1, ForceGate1Step, ForceGate2Step

(* A forced sleeper is made runnable: 2 outcomes. *)
LEMMA ForceRun1Step ==
  ASSUME IInv, NEW a \in Actor, NEW q \in Proc, q = tgt[a], ForceRun(a),
     loaded[q]
  PROVE  IInv'
<1>0. pc[q] = "off" /\ stat[q] = "SSLEEP" /\ runq[q] = 0 /\ q # a
  <2> HIDE DEF IInv, TypeOK, PickLabel
  <2>1. pc[a] \in PickLabel /\ (plock[q] = None \/ pc[a] = "force_run")
    BY DEF PickLabel, ForceRun, StateFree
  <2> QED
    BY <2>1, TargetState
<1>1. /\ pc[a] = "force_run" /\ sigwoke' = [sigwoke EXCEPT ![q] = TRUE]
      /\ stat' = [stat EXCEPT ![q] = "SRUN"] /\ wchan' = [wchan EXCEPT ![q] = None]
      /\ runq' = [runq EXCEPT ![q] = @ + 1] /\ link' = [link EXCEPT ![q] = TRUE]
      /\ tgt' = [tgt EXCEPT ![a] = None] /\ plock' = [plock EXCEPT ![q] = None]
      /\ pc' = [pc EXCEPT ![a] = "run"] /\ call' = [call EXCEPT ![a] = NoCall]
      /\ UNCHANGED <<count, queue, spin, soft, loaded, sig, held, own>>
  BY DEF ForceRun, Goto, Return, Release, SetRq, MakeRunnable, semaVars
<1>2. PlaceInv'
  <2>1. \A b \in Actor : b # a => pc'[b] = pc[b] /\ tgt'[b] = tgt[b]
    BY <1>0, <1>1 DEF IInv, TypeOK
  <2>2. pc[a] \in PickLabel /\ pc'[a] \notin PickLabel /\ pc'[a] \notin AsleepLabel
    BY <1>0, <1>1 DEF IInv, TypeOK, PickLabel, AsleepLabel
  <2>3. ~Sleeping(q)'
    BY <1>0, <1>1 DEF IInv, TypeOK, Sleeping
  <2>4. \A p \in Proc : p # q =>
          /\ Sleeping(p)' <=> Sleeping(p)
          /\ Sleeping(p) => call'[p].sem = call[p].sem /\ link'[p] = link[p]
    BY <1>0, <1>1, <2>1, <2>2 DEF IInv, TypeOK, Sleeping, AsleepLabel, PickLabel, Actor
  <2>5. UNCHANGED queue
    BY <1>1
  <2> QED
    BY ZenonT(60), <2>1, <2>2, <2>3, <2>4, <2>5, PlaceAwaken
<1>3. CountMatchesQueue'
  BY <1>1 DEF CountMatchesQueue
<1>4. TypeOK'
  BY <1>0, <1>1 DEF CallType, Signal
<1>5. CallInv'
  <2>1. \A b \in Actor : b # a => pc'[b] = pc[b] /\ call'[b] = call[b]
    BY <1>0, <1>1
  <2>2. CallOK(a)'
    BY <1>0, <1>1 DEF CallInv, CallOK
  <2> QED
    BY <2>1, <2>2, CallFrame
<1>6. SigSleepInv'
  BY <1>0, <1>1, SigSleepFrame DEF Unseen, InHand, RunInv, SigSeenInv
<1>7. HardInv'
  <2>1. call[q].soft
    BY <1>0, <1>1 DEF IInv, ForceInv, RunInv
  <2> QED
    BY <1>0, <1>1, <2>1 DEF IInv, TypeOK, HardInv, Actor
<1>8. /\ SpinInv' /\ CallersLockHeld' /\ StateInv' /\ RunInv'
      /\ ForceInv' /\ SigSeenInv'
  BY <1>0, <1>1 DEF SpinInv, CallInv, CallOK, CallersLockHeld, StateInv,
     RunInv, ForceInv, SigSeenInv
<1> QED
  BY <1>2, <1>3, <1>4, <1>5, <1>6, <1>7, <1>8 DEF PlaceInv

LEMMA ForceRun2Step ==
  ASSUME IInv, NEW a \in Actor, NEW q \in Proc, q = tgt[a], ForceRun(a),
     ~loaded[q]
  PROVE  IInv'
<1>0. pc[q] = "off" /\ stat[q] = "SSLEEP" /\ runq[q] = 0 /\ q # a
  <2> HIDE DEF IInv, TypeOK, PickLabel
  <2>1. pc[a] \in PickLabel /\ (plock[q] = None \/ pc[a] = "force_run")
    BY DEF PickLabel, ForceRun, StateFree
  <2> QED
    BY <2>1, TargetState
<1>1. /\ pc[a] = "force_run" /\ sigwoke' = [sigwoke EXCEPT ![q] = TRUE]
      /\ stat' = [stat EXCEPT ![q] = "SRUN"] /\ wchan' = [wchan EXCEPT ![q] = None]
      /\ tgt' = [tgt EXCEPT ![a] = None] /\ held' = [held EXCEPT ![a] = q]
      /\ pc' = [pc EXCEPT ![a] = "runout_gate"]
      /\ UNCHANGED <<count, queue, plock, spin, soft, link, loaded, runq, sig, call, own>>
  BY DEF ForceRun, Goto, Return, Release, SetRq, MakeRunnable, semaVars
<1>2. PlaceInv'
  <2>1. \A b \in Actor : b # a => pc'[b] = pc[b] /\ tgt'[b] = tgt[b]
    BY <1>0, <1>1 DEF IInv, TypeOK
  <2>2. pc[a] \in PickLabel /\ pc'[a] \notin PickLabel /\ pc'[a] \notin AsleepLabel
    BY <1>0, <1>1 DEF IInv, TypeOK, PickLabel, AsleepLabel
  <2>3. ~Sleeping(q)'
    BY <1>0, <1>1 DEF IInv, TypeOK, Sleeping
  <2>4. \A p \in Proc : p # q =>
          /\ Sleeping(p)' <=> Sleeping(p)
          /\ Sleeping(p) => call'[p].sem = call[p].sem /\ link'[p] = link[p]
    BY <1>0, <1>1, <2>1, <2>2 DEF IInv, TypeOK, Sleeping, AsleepLabel, PickLabel, Actor
  <2>5. UNCHANGED queue
    BY <1>1
  <2> QED
    BY <2>1, <2>2, <2>3, <2>4, <2>5, PlaceAwaken
<1>3. CountMatchesQueue'
  BY <1>1 DEF CountMatchesQueue
<1>4. TypeOK'
  BY <1>0, <1>1 DEF CallType, Signal
<1>5. CallInv'
  <2>1. \A b \in Actor : b # a => pc'[b] = pc[b] /\ call'[b] = call[b]
    BY <1>0, <1>1
  <2>2. CallOK(a)'
    BY <1>0, <1>1 DEF CallInv, CallOK
  <2> QED
    BY <2>1, <2>2, CallFrame
<1>6. SigSleepInv'
  BY <1>0, <1>1, SigSleepFrame DEF Unseen, InHand, RunInv, SigSeenInv
<1>7. HardInv'
  <2>1. call[q].soft
    BY <1>0, <1>1 DEF IInv, ForceInv, RunInv
  <2> QED
    BY <1>0, <1>1, <2>1 DEF IInv, TypeOK, HardInv, Actor
<1>8. /\ SpinInv' /\ CallersLockHeld' /\ StateInv' /\ RunInv'
      /\ ForceInv' /\ SigSeenInv'
  BY <1>0, <1>1 DEF SpinInv, CallInv, CallOK, CallersLockHeld, StateInv,
     RunInv, ForceInv, SigSeenInv
<1> QED
  BY <1>2, <1>3, <1>4, <1>5, <1>6, <1>7, <1>8 DEF PlaceInv

LEMMA ForceRunStep ==
  ASSUME IInv, NEW a \in Actor, ForceRun(a)
  PROVE  IInv'
<1>1. tgt[a] \in Proc
  BY DEF IInv, TargetInv, StateInv, PickLabel, ForceRun
<1> QED
  BY <1>1, ForceRun1Step, ForceRun2Step

(* A process is dispatched. *)
LEMMA DispatchStep ==
  ASSUME IInv, NEW p \in Proc, Dispatch(p)
  PROVE  IInv'
<1>1. /\ runq[p] > 0 /\ runq' = [runq EXCEPT ![p] = @ - 1]
      /\ stat' = [stat EXCEPT ![p] = "SONPROC"]
      /\ pc' = [pc EXCEPT ![p] = IF pc[p] = "stop_off" THEN "stop_back" ELSE "back"]
      /\ UNCHANGED <<count, queue, plock, spin, sigwoke, wchan, soft, link, loaded, sig,
                     call, tgt, held, own>>
  BY DEF Dispatch, Goto, semaVars, lockVars, sleepVars
<1>2. stat[p] = "SRUN" /\ loaded[p] /\ runq[p] = 1 /\ pc[p] \in {"off", "stop_off"}
  BY <1>1, RunQueueState
<1>3. pc'[p] \in {"back", "stop_back"}
  BY <1>1 DEF IInv, TypeOK, Actor
<1>4. PlaceInv'
  BY <1>1, <1>2, <1>3, PlaceFrame DEF Sleeping, RunInv
<1>5. CountMatchesQueue'
  BY <1>1 DEF CountMatchesQueue
<1>6. TypeOK'
  <2>1. runq' \in [Proc -> Nat]
    BY <1>1, <1>2, <1>3
  <2>2. stat' \in [Proc -> {"SONPROC", "SRUN", "SSLEEP", "SSTOP"}]
    BY <1>1, <1>2, <1>3
  <2>3. pc' \in [Actor -> {"run"} \cup PLabel \cup VLabel]
    BY <1>1, <1>2, <1>3
  <2> QED
    BY <1>1, <1>2, <1>3, <2>1, <2>2, <2>3
<1>7. CallInv'
  BY <1>1, <1>2, <1>3, CallFrame DEF CallInv, CallOK
<1>8. SigSleepInv'
  <2>1. \A b \in Actor : b # p => pc'[b] = pc[b] /\ tgt'[b] = tgt[b]
    BY <1>1, <1>2, <1>3
  <2>2. \A r \in Proc : Unseen(r)' => InHand(p, r)' \/ (Unseen(r) /\ ~InHand(p, r))
    BY <1>1, <1>2, <1>3 DEF Unseen, InHand, RunInv, SigSeenInv
  <2> QED
    BY <2>1, <2>2, SigSleepFrame DEF Actor
<1>9. /\ SpinInv' /\ CallersLockHeld' /\ StateInv' /\ RunInv'
      /\ ForceInv' /\ SigSeenInv' /\ HardInv'
  BY <1>1, <1>2, <1>3 DEF SpinInv, CallInv, CallOK, CallersLockHeld, StateInv,
     RunInv, ForceInv, SigSeenInv, HardInv
<1> QED
  BY <1>4, <1>5, <1>6, <1>7, <1>8, <1>9 DEF PlaceInv

(* A process is swapped out. *)
LEMMA SwapOutStep ==
  ASSUME IInv, NEW p \in Proc, SwapOut(p)
  PROVE  IInv'
<1>1. /\ plock[p] = None /\ p \in Swappable /\ loaded[p]
      /\ loaded' = [loaded EXCEPT ![p] = FALSE]
      /\ runq' = IF stat[p] = "SRUN" THEN [runq EXCEPT ![p] = @ - 1] ELSE runq
      /\ UNCHANGED <<count, queue, plock, spin, sigwoke, wchan, soft, stat, link, sig, pc,
                     call, tgt, held, own>>
  BY DEF SwapOut, StateFree, semaVars, lockVars, sleepVars, actorVars,
     CanSwapOut
<1>2. stat[p] = "SRUN" => runq[p] = 1
  BY <1>1 DEF RunInv
<1>3. PlaceInv'
  BY <1>1, <1>2, PlaceFrame DEF Sleeping, RunInv
<1>4. CountMatchesQueue'
  BY <1>1 DEF CountMatchesQueue
<1>5. TypeOK'
  <2>1. runq' \in [Proc -> Nat]
    BY <1>1, <1>2
  <2>2. loaded' \in [Proc -> BOOLEAN]
    BY <1>1
  <2> QED
    BY <1>1, <2>1, <2>2
<1>6. CallInv'
  BY <1>1, <1>2 DEF CallInv, CallOK
<1>7. SigSleepInv'
  BY <1>1, <1>2, SigSleepFrame DEF Unseen, InHand, RunInv, SigSeenInv
<1>8. /\ SpinInv' /\ CallersLockHeld' /\ StateInv' /\ RunInv'
      /\ ForceInv' /\ SigSeenInv' /\ HardInv'
  BY <1>1, <1>2 DEF SpinInv, CallInv, CallOK, CallersLockHeld, StateInv,
     RunInv, ForceInv, SigSeenInv, HardInv
<1> QED
  BY <1>3, <1>4, <1>5, <1>6, <1>7, <1>8 DEF PlaceInv

(* A process is swapped in. *)
LEMMA SwapInStep ==
  ASSUME IInv, NEW p \in Proc, SwapIn(p)
  PROVE  IInv'
<1>1. /\ plock[p] = None /\ ~loaded[p] /\ stat[p] = "SRUN"
      /\ loaded' = [loaded EXCEPT ![p] = TRUE] /\ runq' = [runq EXCEPT ![p] = @ + 1]
      /\ link' = [link EXCEPT ![p] = TRUE]
      /\ UNCHANGED <<count, queue, plock, spin, sigwoke, wchan, soft, stat, sig, pc, call,
                     tgt, held, own>>
  BY DEF SwapIn, StateFree, SetRq, semaVars, lockVars, sleepVars, actorVars
<1>2. PlaceInv'
  BY ZenonT(60), <1>1, PlaceFrame DEF Sleeping, RunInv
<1>3. CountMatchesQueue'
  BY <1>1 DEF CountMatchesQueue
<1>4. TypeOK'
  BY SMTT(60), <1>1 DEF CallType, Signal
<1>5. CallInv'
  BY <1>1 DEF CallInv, CallOK
<1>6. SigSleepInv'
  BY <1>1, SigSleepFrame DEF Unseen, InHand, RunInv, SigSeenInv
<1>7. /\ SpinInv' /\ CallersLockHeld' /\ StateInv' /\ RunInv'
      /\ ForceInv' /\ SigSeenInv' /\ HardInv'
  BY <1>1 DEF SpinInv, CallInv, CallOK, CallersLockHeld, StateInv, RunInv,
     ForceInv, SigSeenInv, HardInv
<1> QED
  BY <1>2, <1>3, <1>4, <1>5, <1>6, <1>7 DEF PlaceInv

(* The swapper clears runout. *)
LEMMA ClearRunoutStep ==
  ASSUME IInv, sched \in Proc, ClearRunout
  PROVE  IInv'
<1>1. /\ pc[sched] = "run" /\ count' = [count EXCEPT ![runout] = 0]
      /\ UNCHANGED <<queue, plock, spin, sigwoke, wchan, soft, stat, link, loaded, runq,
                     sig, pc, call, tgt, held, own>>
  BY DEF ClearRunout, lockVars, sleepVars, runVars, actorVars
<1>2. PlaceInv'
  BY <1>1, PlaceFrame DEF Sleeping, RunInv
<1>3. CountMatchesQueue'
  <2>1. \A p \in ToSet(queue[runout]) : FALSE
    <3>1. SUFFICES ASSUME NEW p \in ToSet(queue[runout]) PROVE FALSE
      OBVIOUS
    <3>2. p \in Proc /\ Sleeping(p) /\ call[p].sem = runout
      BY QueueMembers DEF WaiterInv
    <3>3. pc[p] \in PLabel
      BY <3>2 DEF Sleeping
    <3>4. p = sched
      BY <3>2, <3>3 DEF CallInv, CallOK
    <3> QED
      BY <1>1, <3>3, <3>4
  <2>2. queue[runout] \in Seq(Proc) /\ Len(queue[runout]) = 0
    <3>1. queue[runout] \in Seq(Proc) /\ Len(queue[runout]) \in Nat
      BY LenProperties
    <3>2. Len(queue[runout]) >= 1 => queue[runout][1] \in ToSet(queue[runout])
      BY <3>1 DEF ToSet
    <3> QED
      BY <2>1, <3>1, <3>2
  <2> QED
    BY <1>1, <2>2 DEF CountMatchesQueue
<1>4. TypeOK'
  BY <1>1 DEF CallType, Signal
<1>5. CallInv'
  BY <1>1 DEF CallInv, CallOK
<1>6. SigSleepInv'
  BY <1>1, SigSleepFrame DEF Unseen, InHand, RunInv, SigSeenInv
<1>7. /\ SpinInv' /\ CallersLockHeld' /\ StateInv' /\ RunInv'
      /\ ForceInv' /\ SigSeenInv' /\ HardInv'
  BY <1>1 DEF SpinInv, CallInv, CallOK, CallersLockHeld, StateInv, RunInv,
     ForceInv, SigSeenInv, HardInv
<1> QED
  BY <1>2, <1>3, <1>4, <1>5, <1>6, <1>7 DEF PlaceInv

(* A caller takes a lock. *)
LEMMA TakeLockStep ==
  ASSUME IInv, NEW p \in Proc, NEW l \in Lock, TakeLock(p, l)
  PROVE  IInv'
<1>1. /\ pc[p] = "run" /\ spin[l] = None /\ spin' = [spin EXCEPT ![l] = p]
      /\ UNCHANGED <<count, queue, plock, sigwoke, wchan, soft, stat, link, loaded, runq,
                     sig, pc, call, tgt, held, own>>
  BY DEF TakeLock, semaVars, sleepVars, runVars, actorVars
<1>2. PlaceInv'
  BY <1>1, PlaceFrame DEF Sleeping, RunInv
<1>3. CountMatchesQueue'
  BY <1>1 DEF CountMatchesQueue
<1>4. TypeOK'
  BY <1>1 DEF CallType, Signal
<1>5. CallInv'
  BY <1>1 DEF CallInv, CallOK
<1>6. SigSleepInv'
  BY <1>1, SigSleepFrame DEF Unseen, InHand, RunInv, SigSeenInv
<1>7. /\ SpinInv' /\ CallersLockHeld' /\ StateInv' /\ RunInv'
      /\ ForceInv' /\ SigSeenInv' /\ HardInv'
  BY <1>1 DEF SpinInv, CallInv, CallOK, CallersLockHeld, StateInv, RunInv,
     ForceInv, SigSeenInv, HardInv
<1> QED
  BY <1>2, <1>3, <1>4, <1>5, <1>6, <1>7 DEF PlaceInv

(* A caller drops its lock. *)
LEMMA DropLockStep ==
  ASSUME IInv, NEW p \in Proc, NEW l \in Lock, DropLock(p, l)
  PROVE  IInv'
<1>1. /\ pc[p] = "run" /\ spin[l] = p /\ spin' = [spin EXCEPT ![l] = None]
      /\ UNCHANGED <<count, queue, plock, sigwoke, wchan, soft, stat, link, loaded, runq,
                     sig, pc, call, tgt, held, own>>
  BY DEF DropLock, semaVars, sleepVars, runVars, actorVars
<1>2. PlaceInv'
  BY <1>1, PlaceFrame DEF Sleeping, RunInv
<1>3. CountMatchesQueue'
  BY <1>1 DEF CountMatchesQueue
<1>4. TypeOK'
  BY <1>1 DEF CallType, Signal
<1>5. CallInv'
  BY <1>1 DEF CallInv, CallOK
<1>6. SigSleepInv'
  BY <1>1, SigSleepFrame DEF Unseen, InHand, RunInv, SigSeenInv
<1>7. /\ SpinInv' /\ CallersLockHeld' /\ StateInv' /\ RunInv'
      /\ ForceInv' /\ SigSeenInv' /\ HardInv'
  BY <1>1 DEF SpinInv, CallInv, CallOK, CallersLockHeld, StateInv, RunInv,
     ForceInv, SigSeenInv, HardInv
<1> QED
  BY <1>2, <1>3, <1>4, <1>5, <1>6, <1>7 DEF PlaceInv

HIDE DEF IInv, TypeOK, NoCall, Actor, PLabel, VLabel, OffLabel, AsleepLabel,
         StateHeldLabel, PickLabel

-----------------------------------------------------------------------------
(* The three facts of the invariance argument.                             *)

LEMMA InitIInv == Init => IInv
<1> SUFFICES ASSUME Init PROVE IInv
  OBVIOUS
<1> USE DEF Init
<1>1. TypeOK
  <2>1. NoCall \in CallType
    BY DEF CallType, NoCall
  <2> QED
    BY <2>1 DEF TypeOK, Actor
<1>2. CallInv
  BY DEF CallInv, CallOK, Actor, PLabel, VLabel
<1>3. SpinInv /\ CallersLockHeld /\ StateInv
  BY DEF SpinInv, CallersLockHeld, StateInv, Actor, PLabel, StateHeldLabel, NoCall
<1>4. \A s \in Sema : queue[s] = << >> /\ Len(queue[s]) = 0 /\ ToSet(queue[s]) = {}
  BY DEF ToSet
<1>5. QueueInv /\ WaiterInv
  <2>1. << >> \in Seq(Proc) /\ IsInjective(<< >>)
    BY DEF IsInjective
  <2> QED
    BY <1>4, <2>1 DEF QueueInv, WaiterInv, IsQueue
<1>6. CountMatchesQueue
  BY <1>4 DEF CountMatchesQueue
<1>7. TargetInv /\ OneWakerInv /\ NotLostInv
  BY DEF TargetInv, OneWakerInv, NotLostInv, PickLabel, Sleeping, AsleepLabel, Actor
<1>8. RunInv
  BY DEF RunInv, OffLabel, Actor
<1>9. ForceInv /\ SigSeenInv /\ SigSleepInv /\ HardInv
  BY DEF ForceInv, SigSeenInv, SigSleepInv, HardInv, Unseen, Actor
<1> QED
  BY <1>1, <1>2, <1>3, <1>5, <1>6, <1>7, <1>8, <1>9 DEF IInv

(* A step that changes nothing. *)
LEMMA StutterStep ==
  ASSUME IInv, UNCHANGED vars
  PROVE  IInv'
<1> USE DEF IInv, vars, semaVars, lockVars, sleepVars, runVars, actorVars
<1>1. TypeOK'
  BY DEF TypeOK
<1>2. CallInv' /\ SpinInv' /\ CallersLockHeld' /\ StateInv'
  BY DEF CallInv, CallOK, SpinInv, CallersLockHeld, StateInv
<1>3. QueueInv' /\ CountMatchesQueue'
  BY DEF QueueInv, CountMatchesQueue
<1>4. WaiterInv' /\ TargetInv' /\ OneWakerInv' /\ NotLostInv'
  BY DEF WaiterInv, TargetInv, OneWakerInv, NotLostInv, Sleeping, OnQueue
<1>5. RunInv' /\ ForceInv' /\ SigSeenInv' /\ SigSleepInv' /\ HardInv'
  BY DEF RunInv, ForceInv, SigSeenInv, SigSleepInv, HardInv, Unseen, InHand
<1> QED
  BY <1>1, <1>2, <1>3, <1>4, <1>5

LEMMA NextIInv == IInv /\ [Next]_vars => IInv'
<1> SUFFICES ASSUME IInv, [Next]_vars PROVE IInv'
  OBVIOUS
<1>1. ASSUME NEW p \in Proc, PCall(p) PROVE IInv'
  BY <1>1, PSemaStep DEF PCall
<1>2. ASSUME NEW p \in Proc, PStep(p) PROVE IInv'
  BY <1>2, PSemaTryStep, PSemaLockStep, PSemaGateStep, PSemaSleepStep, PSemaSwtchStep,
     PSemaBackStep, PSemaRelockStep, IssigNoneStep, IssigGotStep, IssigStopStep,
     IssigSwtchStep, IssigRelockStep DEF PStep
<1>3. ASSUME NEW p \in Proc, Dispatch(p) \/ SwapOut(p) \/ SwapIn(p) PROVE IInv'
  BY <1>3, DispatchStep, SwapOutStep, SwapInStep
<1>4. ASSUME NEW p \in Proc, NEW l \in Lock, TakeLock(p, l) \/ DropLock(p, l) PROVE IInv'
  BY <1>4, TakeLockStep, DropLockStep
<1>5. ASSUME NEW a \in Actor, VCall(a) PROVE IInv'
  <2>1. PICK s \in Sema : CPSema(a, s) \/ VSema(a, s) \/ CVSema(a, s) \/ VAllSema(a, s)
    BY <1>5 DEF VCall
  <2> QED
    BY <2>1, CPSemaStep, VSemaStep, CVSemaStep, VAllSemaStep
<1>6. ASSUME NEW a \in Actor, VStep(a) PROVE IInv'
  <2>1. CASE RunoutWake(a) \/ ForceRun(a) \/ ForceGate(a) \/ Wake(a)
    <3>1. tgt[a] \in Proc
      BY <2>1 DEF RunoutWake, ForceRun, ForceGate, Wake, IInv, TargetInv, StateInv, PickLabel
    <3> QED
      BY <2>1, <3>1, RunoutWakeStep, ForceRunStep, ForceGateStep, WakeStep
  <2>2. CASE CPGate(a) \/ CVGate(a) \/ VAllNext(a) \/ RunoutGate(a)
    BY <2>2, CPGateStep, CVGateStep, VAllNextStep, RunoutGateStep
  <2> QED
    BY <1>6, <2>1, <2>2 DEF VStep
<1>7. ASSUME NEW a \in Actor, SignalCall(a) PROVE IInv'
  BY <1>7, PSignalStep, PSignalContStep DEF SignalCall
<1>8. CASE ClearRunout
  BY <1>8, ClearRunoutStep DEF ClearRunout
<1>9. CASE UNCHANGED vars
  BY <1>9, StutterStep
<1> QED
  BY <1>1, <1>2, <1>3, <1>4, <1>5, <1>6, <1>7, <1>8, <1>9 DEF Next

(* The inductive invariant holds in every reachable state.                 *)
THEOREM Invariance == Spec => []IInv
<1> QED
  BY InitIInv, NextIInv, PTL DEF Spec
-----------------------------------------------------------------------------
(* What follows from it.                                                   *)

(* Every variable keeps its type; the run-queue count never goes negative. *)
THEOREM TypeCorrect == Spec => []TypeOK
<1>1. IInv => TypeOK
  BY DEF IInv
<1> QED
  BY <1>1, Invariance, PTL

(* s_count and the queue of every semaphore agree: CountMatchesQueue.      *)
THEOREM CountsCorrect == Spec => []CountMatchesQueue
<1>1. IInv => CountMatchesQueue
  BY DEF IInv
<1> QED
  BY <1>1, Invariance, PTL

(* No process is on the run queue twice, or while it still runs.           *)
THEOREM DispatchedOnce == Spec => []RunQueueSound
<1>1. IInv => RunQueueSound
  <2> SUFFICES ASSUME IInv, NEW p \in Proc
               PROVE  /\ runq[p] \in {0, 1}
                      /\ runq[p] = 1 => /\ pc[p] \in {"off", "stop_off"}
                                        /\ stat[p] = "SRUN"
                                        /\ loaded[p]
    BY DEF RunQueueSound
  <2>1. runq[p] \in {0, 1}
    BY DEF IInv, RunInv
  <2>2. runq[p] = 1 => runq[p] > 0
    OBVIOUS
  <2> QED
    BY <2>1, <2>2, RunQueueState
<1> QED
  BY <1>1, Invariance, PTL

(* A sleeper is in one place: no wakeup is lost, none is given twice.      *)
THEOREM NoLostWakeup == Spec => []SleeperInOnePlace
<1>1. IInv => SleeperInOnePlace
  <2> SUFFICES ASSUME IInv, NEW p \in Proc, pc[p] = "off"
               PROVE  \/ /\ stat[p] = "SSLEEP" /\ OnQueue(p) /\ Picked(p) = {}
                         /\ wchan[p] = call[p].sem
                      \/ /\ stat[p] = "SSLEEP" /\ ~OnQueue(p)
                         /\ \E a \in Actor : Picked(p) = {a}
                      \/ /\ stat[p] = "SRUN" /\ ~OnQueue(p) /\ Picked(p) = {}
                         /\ loaded[p] = (runq[p] = 1)
    BY DEF SleeperInOnePlace
  <2>1. stat[p] \in {"SSLEEP", "SRUN"}
    BY DEF IInv, RunInv
  <2>2. \A a \in Picked(p) : a \in Actor /\ pc[a] \in PickLabel /\ tgt[a] = p
    BY DEF Picked, PickLabel
  <2>3. CASE stat[p] = "SSLEEP" /\ OnQueue(p)
    <3>1. Picked(p) = {}
      BY <2>2, <2>3 DEF IInv, TargetInv
    <3> QED
      BY <2>3, <3>1 DEF IInv, RunInv
  <2>4. CASE stat[p] = "SSLEEP" /\ ~OnQueue(p)
    <3>1. Sleeping(p)
      BY <2>4 DEF Sleeping, AsleepLabel
    <3>2. PICK a \in Actor : pc[a] \in PickLabel /\ tgt[a] = p
      BY <2>4, <3>1 DEF IInv, NotLostInv
    <3>3. Picked(p) = {a}
      BY <2>2, <3>2 DEF IInv, OneWakerInv, Picked, PickLabel
    <3> QED
      BY <2>4, <3>3
  <2>5. CASE stat[p] = "SRUN"
    <3>1. ~Sleeping(p)
      BY <2>5 DEF Sleeping
    <3>2. ~OnQueue(p)
      BY <3>1 DEF IInv, WaiterInv, OnQueue
    <3>3. Picked(p) = {}
      BY <2>2, <3>1 DEF IInv, TargetInv
    <3>4. loaded[p] = (runq[p] = 1)
      BY <2>5 DEF IInv, TypeOK, RunInv
    <3> QED
      BY <2>5, <3>2, <3>3, <3>4
  <2> QED
    BY <2>1, <2>3, <2>4, <2>5
<1> QED
  BY <1>1, Invariance, PTL

(* A sleep at pri <= PZERO is never taken for interrupted.                 *)
THEOREM HardSleepSafe == Spec => []HardSleepUninterrupted
<1>1. IInv => HardSleepUninterrupted
  BY DEF IInv, HardInv, HardSleepUninterrupted
<1> QED
  BY <1>1, Invariance, PTL

(* No process sleeps at pri > PZERO on a signal it has not looked at.      *)
THEOREM SignalsSeen == Spec => []SignalNotSlept
<1>1. IInv => SignalNotSlept
  <2> SUFFICES ASSUME IInv, NEW p \in Proc, pc[p] = "off", OnQueue(p), soft[p],
                      plock[p] = None, sig[p] # {}
               PROVE  FALSE
    BY DEF SignalNotSlept
  <2>1. Sleeping(p)
    BY DEF IInv, WaiterInv, OnQueue
  <2>2. stat[p] = "SSLEEP" /\ call[p].soft
    BY <2>1 DEF IInv, RunInv, Sleeping
  <2>3. PICK a \in Actor : (pc[a] \in PickLabel \/ pc[a] = "force_gate") /\ tgt[a] = p
    BY <2>2 DEF IInv, SigSleepInv, Unseen, InHand
  <2>4. pc[a] \notin PickLabel
    BY <2>3 DEF IInv, TargetInv
  <2>5. plock[p] = a
    BY <2>3, <2>4 DEF IInv, StateInv
  <2> QED
    BY <2>5, ActorsDiffer
<1> QED
  BY <1>1, Invariance, PTL

(* Until it is dropped, the caller's lock of p_sema_v_lock() is held by    *)
(* that caller.                                                            *)
THEOREM LocksHeld == Spec => []CallersLockHeld
<1>1. IInv => CallersLockHeld
  BY DEF IInv
<1> QED
  BY <1>1, Invariance, PTL

(* Only the process itself ends its P, in five places.                     *)
LEMMA WaysOut ==
  ASSUME IInv, Next, NEW p \in Proc, call[p].op = "p", pc'[p] = "run"
  PROVE  PSemaTry(p) \/ PSemaGate(p) \/ PSemaBack(p) \/ IssigNone(p) \/ IssigGot(p)
<1>1. pc[p] \in PLabel /\ p \in Actor
  BY DEF IInv, TypeOK, CallInv, CallOK, NoCall, Actor
<1>2. \A a \in Actor : \A label : Goto(a, label) => a = p \/ pc'[p] = pc[p]
  BY <1>1 DEF IInv, TypeOK, Goto
<1>3. pc'[p] # pc[p] /\ pc[p] # "run" /\ pc[p] \notin VLabel
  BY <1>1 DEF PLabel, VLabel
<1>4. \A q \in Proc : ~PCall(q)
  BY <1>2, <1>3 DEF PCall, PSema, Actor
<1>5. \A a \in Actor : ~VCall(a) /\ ~SignalCall(a)
  BY ZenonT(60), <1>2, <1>3 DEF VCall, CPSema, VSema, CVSema, VAllSema, SignalCall, PSignal, PSignalCont
<1>6. \A a \in Actor : ~VStep(a)
  <2>1. \A a \in Actor : pc[a] \in VLabel /\ WakerDone(a) => pc'[p] = pc[p]
    BY <1>2, <1>3 DEF WakerDone, Return
  <2>2. SUFFICES ASSUME NEW a \in Actor, VStep(a) PROVE FALSE
    OBVIOUS
  <2>3. pc[a] \in VLabel
    BY <2>2 DEF VStep, CPGate, CVGate, VAllNext, Wake, RunoutGate, RunoutWake, ForceGate,
                ForceRun, VLabel
  <2>4. a # p
    BY <2>3, <1>3
  <2>5. \A label : ~Goto(a, label)
    BY <2>4, <1>2, <1>3
  <2> QED
    BY <2>1, <2>2, <2>3, <2>5, <1>3 DEF VStep, CPGate, CVGate, VAllNext, Wake, RunoutGate,
       RunoutWake, ForceGate, ForceRun, Grant, Return
<1>7. \A q \in Proc : ~Dispatch(q)
  <2>1. SUFFICES ASSUME NEW q \in Proc, Dispatch(q) PROVE FALSE
    OBVIOUS
  <2>2. pc' = [pc EXCEPT ![q] = IF pc[q] = "stop_off" THEN "stop_back" ELSE "back"]
    BY <2>1 DEF Dispatch, Goto
  <2> QED
    BY <2>2, <1>1, <1>3 DEF IInv, TypeOK
<1>8. /\ ~ClearRunout
      /\ \A q \in Proc : /\ ~SwapOut(q) /\ ~SwapIn(q)
                         /\ \A l \in Lock : ~TakeLock(q, l) /\ ~DropLock(q, l)
  BY <1>3 DEF ClearRunout, SwapOut, SwapIn, TakeLock, DropLock, actorVars
<1>9. PICK q \in Proc : PStep(q)
  BY <1>4, <1>5, <1>6, <1>7, <1>8 DEF Next
<1>10. PSemaTry(q) \/ PSemaGate(q) \/ PSemaBack(q) \/ IssigNone(q) \/ IssigGot(q)
  <2>1. \A label : label # "run" => ~Goto(q, label)
    BY <1>1, <1>3 DEF IInv, TypeOK, Goto
  <2> QED
    BY <1>9, <2>1 DEF PStep, PSemaLock, PSemaSleep, PSemaSwtch, PSemaRelock, IssigStop,
       IssigSwtch, IssigRelock
<1>11. q = p
  <2>1. q # p => \A label : ~Goto(q, label)
    BY <1>2, <1>3 DEF Actor
  <2> QED
    BY <1>10, <2>1 DEF PSemaTry, PSemaGate, PSemaBack, IssigNone, IssigGot, Grant, Return
<1> QED
  BY <1>10, <1>11

(* Every way out of p_sema_v_lock(), longjmp and stops included, has       *)
(* dropped the caller's lock.                                              *)
THEOREM UnlockedOnReturn == Spec => ReturnsUnlocked
<1>1. ASSUME IInv, Next, NEW p \in Proc, call[p].op = "p", pc'[p] = "run",
             NEW l \in Lock, spin'[l] = p
      PROVE  FALSE
  <2>1. l # None /\ p # None
    BY ActorsDiffer DEF Actor
  <2>2. /\ spin \in [Lock -> Actor \cup {None}]
        /\ spin[l] = p => l = call[p].lock
        /\ pc[p] \in {"back", "issig"} => CallOK(p)
    BY <1>1 DEF IInv, TypeOK, SpinInv, CallInv, Actor, CallOK, NoCall
  <2>3. CASE ReleaseCallersLock(p)
    BY <2>1, <2>2, <2>3, <1>1 DEF ReleaseCallersLock
  <2>4. CASE UNCHANGED spin /\ call[p].lock = None
    BY <2>1, <2>2, <2>4, <1>1
  <2>5. CASE PSemaTry(p) \/ PSemaGate(p)
    <3>1. "run" # "p_lock" /\ "run" # "p_sleep"
      OBVIOUS
    <3>2. \A label : Goto(p, label) => label = "run"
      BY <1>1 DEF IInv, TypeOK, Goto, Actor
    <3> QED
      BY <2>3, <2>5, <3>1, <3>2 DEF PSemaTry, PSemaGate
  <2>6. CASE PSemaBack(p)
    BY <2>2, <2>4, <2>6 DEF PSemaBack, CallOK, PLabel, lockVars
  <2>7. CASE IssigNone(p)
    <3>1. \A label : Goto(p, label) => label = "run"
      BY <1>1 DEF IInv, TypeOK, Goto, Actor
    <3> QED
      BY <2>2, <2>4, <2>7, <3>1 DEF IssigNone, CallOK, PLabel
  <2>8. CASE IssigGot(p)
    BY <2>2, <2>3, <2>4, <2>8 DEF IssigGot, CallOK, PLabel
  <2> QED
    BY <1>1, <2>5, <2>6, <2>7, <2>8, WaysOut
<1>2. IInv /\ [Next]_vars =>
        [\A p \in Proc : call[p].op = "p" /\ pc'[p] = "run"
                           => \A l \in Lock : spin'[l] # p]_vars
  BY <1>1
<1> QED
  BY <1>2, Invariance, PTL DEF Spec, ReturnsUnlocked
-----------------------------------------------------------------------------
(* Mutual exclusion: the inductive invariant, beside IInv.                 *)

(* Where a process that P's m may have been given the unit of m. *)
GrantLabel == {"p_sleep", "p_swtch", "off", "back"}
Late(p, m) == call[p].op = "p" /\ call[p].sem = m /\ pc[p] \in GrantLabel

(* The processes with the unit of m: the holder, or the one a V chose. *)
HasUnit(p, m) == p \in own[m] \/ (Late(p, m) /\ p \notin ToSet(queue[m]))

(* cv_sema() and vall_sema() are not called on a mutex; a P of a mutex is  *)
(* hard and is not made by its holder.                                     *)
CallUnits(a) ==
  /\ pc[a] \in {"cv_gate", "vall"} \/ call[a].op = "vall" => call[a].sem \notin Mutex
  /\ call[a].op = "p" /\ call[a].sem \in Mutex =>
       ~call[a].soft /\ a \notin own[call[a].sem]

(* One process at most has the unit; with none the count is one. *)
UnitOf(m) ==
  /\ own[m] \subseteq Proc
  /\ count[m] <= 1
  /\ \A p, q \in Proc : HasUnit(p, m) /\ HasUnit(q, m) => p = q
  /\ count[m] > 0 <=> \A p \in Proc : ~HasUnit(p, m)

UnitsInv == (\A a \in Actor : CallUnits(a)) /\ (\A m \in Mutex : UnitOf(m))

(* An actor moves to label l with the call c; nobody else moves. *)
Moves(a, l, c) == /\ pc' = [pc EXCEPT ![a] = l]
                  /\ call' = [call EXCEPT ![a] = c]

(* As CallUnits says, of the call c at label l. *)
MayCall(a, l, c) ==
  /\ l \in {"cv_gate", "vall"} \/ c.op = "vall" => c.sem \notin Mutex
  /\ c.op = "p" /\ c.sem \in Mutex => ~c.soft /\ a \notin own'[c.sem]

-----------------------------------------------------------------------------
(* What a move does to the parts of the invariant.                         *)

LEMMA MovesEffect ==
  ASSUME TypeOK, NEW a \in Actor, NEW l, NEW c, Moves(a, l, c)
  PROVE  /\ pc'[a] = l /\ call'[a] = c
         /\ \A b \in Actor : b # a => pc'[b] = pc[b] /\ call'[b] = call[b]
BY DEF TypeOK, Moves

LEMMA CallUnitsKept ==
  ASSUME TypeOK, UnitsInv, NEW a \in Actor, NEW l, NEW c, Moves(a, l, c),
         MayCall(a, l, c),
         \A s \in Mutex : \A b \in Actor : b # a /\ b \in own'[s] => b \in own[s]
  PROVE  \A b \in Actor : CallUnits(b)'
<1>1. CallUnits(a)'
  BY MovesEffect DEF CallUnits, MayCall
<1>2. ASSUME NEW b \in Actor, b # a PROVE CallUnits(b)'
  <2>1. CallUnits(b) /\ pc'[b] = pc[b] /\ call'[b] = call[b]
    BY <1>2, MovesEffect DEF UnitsInv
  <2> QED
    BY <2>1, <1>2 DEF CallUnits
<1> QED
  BY <1>1, <1>2

(* A mutex whose count, holder and queue stay. *)
LEMMA UnitStays ==
  ASSUME TypeOK, UnitsInv, NEW a \in Actor, NEW l, NEW c, Moves(a, l, c),
         NEW m \in Mutex,
         count'[m] = count[m], own'[m] = own[m], queue'[m] = queue[m],
         (c.op = "p" /\ c.sem = m /\ l \in GrantLabel) <=> Late(a, m)
  PROVE  UnitOf(m)'
<1>1. \A p \in Proc : Late(p, m)' <=> Late(p, m)
  BY MovesEffect DEF Late, Actor
<1>2. \A p \in Proc : HasUnit(p, m)' <=> HasUnit(p, m)
  BY <1>1 DEF HasUnit
<1>3. UnitOf(m)
  BY DEF UnitsInv
<1> QED
  BY <1>2, <1>3 DEF UnitOf

(* A move that leaves every mutex alone. *)
LEMMA UnitsFrame ==
  ASSUME TypeOK, UnitsInv, NEW a \in Actor, NEW l, NEW c, Moves(a, l, c),
         \A m \in Mutex : /\ count'[m] = count[m] /\ own'[m] = own[m]
                          /\ queue'[m] = queue[m],
         MayCall(a, l, c),
         \A m \in Mutex : (c.op = "p" /\ c.sem = m /\ l \in GrantLabel) <=> Late(a, m)
  PROVE  UnitsInv'
<1>1. \A m \in Mutex : UnitOf(m)'
  BY UnitStays
<1>2. \A b \in Actor : CallUnits(b)'
  BY CallUnitsKept
<1> QED
  BY <1>1, <1>2 DEF UnitsInv

(* The same call goes on, on neither side of the grant. *)
LEMMA UnitsGoto ==
  ASSUME TypeOK, UnitsInv, NEW a \in Actor, NEW l, NEW c, Moves(a, l, c),
         UNCHANGED <<count, own, queue>>,
         c.op = call[a].op, c.sem = call[a].sem, c.soft = call[a].soft,
         l \notin {"cv_gate", "vall"} \/ call[a].op = "vall",
         l \in GrantLabel <=> pc[a] \in GrantLabel
  PROVE  UnitsInv'
<1>1. CallUnits(a)
  BY DEF UnitsInv
<1>2. MayCall(a, l, c)
  BY <1>1 DEF MayCall, CallUnits
<1>3. \A m \in Mutex : (c.op = "p" /\ c.sem = m /\ l \in GrantLabel) <=> Late(a, m)
  BY DEF Late
<1> QED
  BY <1>2, <1>3, UnitsFrame

(* A call ends without a unit. *)
LEMMA UnitsReturn ==
  ASSUME TypeOK, UnitsInv, NEW a \in Actor, Moves(a, "run", NoCall),
         UNCHANGED <<count, own, queue>>,
         pc[a] \notin GrantLabel
  PROVE  UnitsInv'
<1>1. MayCall(a, "run", NoCall)
  BY SemaAssumption DEF MayCall, NoCall
<1>2. \A m \in Mutex : ~Late(a, m) /\ "run" \notin GrantLabel
  BY DEF Late, GrantLabel
<1> QED
  BY <1>1, <1>2, UnitsFrame

(* Nothing of it is touched. *)
LEMMA UnitsStutter ==
  ASSUME UnitsInv, UNCHANGED <<count, queue, own, pc, call>>
  PROVE  UnitsInv'
BY DEF UnitsInv, UnitOf, HasUnit, Late, CallUnits

-----------------------------------------------------------------------------
(* The actions that move a unit. *)

(* A P that finds a unit: nobody has one, and the caller gets it. *)
LEMMA TakeUnit ==
  ASSUME IInv, UnitsInv, NEW p \in Proc, pc[p] \notin GrantLabel,
         Moves(p, "run", NoCall), NEW s \in Sema, count[s] > 0,
         count' = [count EXCEPT ![s] = @ - 1],
         own' = IF s \in Mutex THEN [own EXCEPT ![s] = @ \cup {p}] ELSE own,
         UNCHANGED queue
  PROVE  UnitsInv'
<1>1. TypeOK /\ p \in Actor
  BY DEF IInv, Actor
<1>2. MayCall(p, "run", NoCall) /\ "run" \notin GrantLabel
  BY SemaAssumption DEF MayCall, NoCall, GrantLabel
<1>3. \A m \in Sema : m # s => count'[m] = count[m] /\ own'[m] = own[m]
  BY <1>1 DEF TypeOK
<1>4. \A m \in Mutex : \A b \in Actor : b # p /\ b \in own'[m] => b \in own[m]
  BY <1>1, <1>3, SemaAssumption DEF TypeOK
<1>5. \A b \in Actor : CallUnits(b)'
  BY <1>1, <1>2, <1>4, CallUnitsKept
<1>6. \A m \in Mutex : ~Late(p, m)
  BY DEF Late
<1>7. ASSUME NEW m \in Mutex, m # s PROVE UnitOf(m)'
  BY <1>1, <1>2, <1>3, <1>6, <1>7, UnitStays, SemaAssumption
<1>8. ASSUME s \in Mutex PROVE UnitOf(s)'
  <2>1. UnitOf(s) /\ count[s] = 1
    BY <1>1, <1>8 DEF UnitsInv, UnitOf, TypeOK
  <2>2. count'[s] = 0 /\ own'[s] = own[s] \cup {p}
    BY <1>1, <1>8, <2>1 DEF TypeOK
  <2>3. \A q \in Proc : Late(q, s)' => Late(q, s) /\ q # p
    BY <1>1, <1>2, MovesEffect DEF Late, Actor
  <2>4. \A q \in Proc : ~HasUnit(q, s)
    BY <2>1 DEF UnitOf
  <2>5. \A q \in Proc : HasUnit(q, s)' <=> q = p
    BY <2>2, <2>3, <2>4 DEF HasUnit
  <2> QED
    BY <2>1, <2>2, <2>5 DEF UnitOf
<1> QED
  BY <1>5, <1>7, <1>8 DEF UnitsInv

(* A P that finds none joins the queue: nobody gets or loses the unit. *)
LEMMA JoinQueue ==
  ASSUME IInv, UnitsInv, NEW p \in Proc, pc[p] = "p_gate",
         Moves(p, "p_sleep", call[p]), NEW s \in Sema, s = call[p].sem,
         count[s] <= 0,
         count' = [count EXCEPT ![s] = @ - 1],
         queue' = [queue EXCEPT ![s] = Append(@, p)],
         UNCHANGED own
  PROVE  UnitsInv'
<1>1. TypeOK /\ p \in Actor /\ CallUnits(p)
  BY DEF IInv, Actor, UnitsInv
<1>2. MayCall(p, "p_sleep", call[p])
  BY <1>1 DEF MayCall, CallUnits
<1>3. \A m \in Sema : m # s => count'[m] = count[m] /\ queue'[m] = queue[m]
  BY <1>1 DEF TypeOK
<1>4. \A b \in Actor : CallUnits(b)'
  BY <1>1, <1>2, CallUnitsKept
<1>5. \A m \in Mutex : ~Late(p, m)
  BY DEF Late, GrantLabel
<1>6. ASSUME NEW m \in Mutex, m # s PROVE UnitOf(m)'
  <2>1. call[p].sem # m
    BY <1>6
  <2> QED
    BY <1>1, <1>3, <1>5, <1>6, <2>1, UnitStays, SemaAssumption
<1>7. ASSUME s \in Mutex PROVE UnitOf(s)'
  <2>1. UnitOf(s)
    BY <1>7 DEF UnitsInv
  <2>2. ~(count'[s] > 0) /\ ~(count[s] > 0) /\ count'[s] <= 1
    BY <1>1 DEF TypeOK
  <2>3. pc[p] \notin AsleepLabel
    BY DEF AsleepLabel
  <2>4. p \notin ToSet(queue[s])
    BY <2>3 DEF IInv, WaiterInv, Sleeping
  <2>5. ToSet(queue'[s]) = ToSet(queue[s]) \cup {p}
    BY <1>1, <2>4, QueueAppend DEF IInv, QueueInv, TypeOK
  <2>6. \A q \in Proc : q # p => (Late(q, s)' <=> Late(q, s))
    BY <1>1, MovesEffect DEF Late, Actor
  <2>7. \A q \in Proc : HasUnit(q, s)' <=> HasUnit(q, s)
    BY <2>5, <2>6, <1>5, <1>7 DEF HasUnit
  <2> QED
    BY <2>1, <2>2, <2>7 DEF UnitOf
<1> QED
  BY <1>4, <1>6, <1>7 DEF UnitsInv

(* The chosen process returns from p_sema(): it becomes the holder. *)
LEMMA KeepUnit ==
  ASSUME IInv, UnitsInv, NEW p \in Proc, pc[p] = "back",
         Moves(p, "run", NoCall), NEW s \in Sema, s = call[p].sem,
         own' = IF s \in Mutex THEN [own EXCEPT ![s] = @ \cup {p}] ELSE own,
         UNCHANGED <<count, queue>>
  PROVE  UnitsInv'
<1>1. TypeOK /\ p \in Actor /\ call[p].op = "p"
  BY DEF IInv, Actor, CallInv, CallOK, PLabel
<1>2. MayCall(p, "run", NoCall) /\ "run" \notin GrantLabel
  BY SemaAssumption DEF MayCall, NoCall, GrantLabel
<1>3. \A m \in Sema : m # s => own'[m] = own[m]
  BY <1>1 DEF TypeOK
<1>4. \A m \in Mutex : \A b \in Actor : b # p /\ b \in own'[m] => b \in own[m]
  BY <1>1, <1>3, SemaAssumption DEF TypeOK
<1>5. \A b \in Actor : CallUnits(b)'
  BY <1>1, <1>2, <1>4, CallUnitsKept
<1>6. ASSUME NEW m \in Mutex, m # s PROVE UnitOf(m)'
  <2>1. ~Late(p, m) /\ own'[m] = own[m]
    BY <1>3, <1>6, SemaAssumption DEF Late
  <2> QED
    BY <1>1, <1>2, <1>6, <2>1, UnitStays
<1>7. ASSUME s \in Mutex PROVE UnitOf(s)'
  <2>1. UnitOf(s)
    BY <1>7 DEF UnitsInv
  <2>2. own'[s] = own[s] \cup {p}
    BY <1>1, <1>7 DEF TypeOK
  <2>3. pc[p] \notin AsleepLabel
    BY DEF AsleepLabel
  <2>4. HasUnit(p, s)
    BY <1>1, <2>3 DEF HasUnit, Late, GrantLabel, IInv, WaiterInv, Sleeping
  <2>5. \A q \in Proc : q # p => (Late(q, s)' <=> Late(q, s))
    BY <1>1, MovesEffect DEF Late, Actor
  <2>6. \A q \in Proc : HasUnit(q, s)' <=> HasUnit(q, s)
    BY <2>2, <2>4, <2>5 DEF HasUnit
  <2> QED
    BY <2>1, <2>2, <2>6 DEF UnitOf
<1> QED
  BY <1>5, <1>6, <1>7 DEF UnitsInv

(* A waker takes a process off a semaphore that is not a mutex. *)
LEMMA OtherSema ==
  ASSUME IInv, UnitsInv, NEW a \in Actor, pc[a] \notin GrantLabel,
         NEW l, NEW c, Moves(a, l, c), c.op # "p",
         l \in {"cv_gate", "vall"} \/ c.op = "vall" => c.sem \notin Mutex,
         NEW s \in Sema \ Mutex, NEW q, NEW n,
         queue' = [queue EXCEPT ![s] = q], count' = [count EXCEPT ![s] = n],
         \A m \in Mutex : own'[m] = own[m]
  PROVE  UnitsInv'
<1>1. TypeOK
  BY DEF IInv
<1>2. \A m \in Mutex : count'[m] = count[m] /\ queue'[m] = queue[m]
  BY <1>1, SemaAssumption DEF TypeOK
<1>3. MayCall(a, l, c)
  BY DEF MayCall
<1>4. \A m \in Mutex : ~Late(a, m)
  BY DEF Late
<1> QED
  BY <1>1, <1>2, <1>3, <1>4, UnitsFrame

(* The holder V's a mutex nobody waits for. *)
LEMMA GiveUnitBack ==
  ASSUME IInv, UnitsInv, NEW a \in Actor, pc[a] = "run", NEW s \in Mutex,
         a \in own[s], NoWaiter(s),
         count' = [count EXCEPT ![s] = @ + 1],
         own' = [own EXCEPT ![s] = @ \ {a}],
         UNCHANGED <<queue, pc, call>>
  PROVE  UnitsInv'
<1>1. TypeOK /\ s \in Sema /\ UnitOf(s)
  BY SemaAssumption DEF IInv, UnitsInv
<1>2. Moves(a, pc[a], call[a])
  BY <1>1 DEF TypeOK, Moves
<1>3. \A m \in Sema : m # s => count'[m] = count[m] /\ own'[m] = own[m]
  BY <1>1 DEF TypeOK
<1>4. own'[s] = own[s] \ {a} /\ count'[s] = count[s] + 1 /\ count[s] \in Int
  BY <1>1 DEF TypeOK
<1>5. ASSUME NEW b \in Actor PROVE CallUnits(b)'
  <2>1. CallUnits(b)
    BY DEF UnitsInv
  <2>2. call[b].op = "p" => \A m \in Sema : b \in own'[m] => b \in own[m]
    BY <1>3, <1>4
  <2>3. call[b].sem \in Mutex => call[b].sem \in Sema
    BY SemaAssumption
  <2> QED
    BY <2>1, <2>2, <2>3 DEF CallUnits
<1>6. \A p \in Proc, m \in Mutex : Late(p, m)' <=> Late(p, m)
  BY DEF Late
<1>7. ASSUME NEW m \in Mutex, m # s PROVE UnitOf(m)'
  <2>1. UnitOf(m) /\ count'[m] = count[m] /\ own'[m] = own[m]
    BY <1>3, <1>7, SemaAssumption DEF UnitsInv
  <2> QED
    BY <1>6, <2>1 DEF UnitOf, HasUnit
<1>8. UnitOf(s)'
  <2>1. a \in Proc /\ HasUnit(a, s) /\ ~Late(a, s)
    BY <1>1 DEF UnitOf, HasUnit, Late, GrantLabel
  <2>2. count'[s] = 1
    BY <1>1, <1>4, <2>1 DEF UnitOf, NoWaiter
  <2>3. \A q \in Proc : ~HasUnit(q, s)'
    BY <1>1, <1>4, <1>6, <2>1 DEF UnitOf, HasUnit
  <2>4. own'[s] \subseteq Proc
    BY <1>1, <1>4 DEF UnitOf
  <2> QED
    BY <2>2, <2>3, <2>4 DEF UnitOf
<1> QED
  BY <1>5, <1>7, <1>8 DEF UnitsInv

(* The holder V's a mutex others wait for: the first of them is chosen. *)
LEMMA HandUnitOver ==
  ASSUME IInv, UnitsInv, NEW a \in Actor, pc[a] = "run", NEW s \in Mutex,
         a \in own[s], ~NoWaiter(s), Dequeue(a, s),
         own' = [own EXCEPT ![s] = @ \ {a}],
         NEW c, Moves(a, "wake", c), c.op \notin {"p", "vall"}
  PROVE  UnitsInv'
<1>1. TypeOK /\ s \in Sema /\ UnitOf(s)
  BY SemaAssumption DEF IInv, UnitsInv
<1>2. /\ count' = [count EXCEPT ![s] = @ + 1]
      /\ queue' = [queue EXCEPT ![s] = Tail(@)]
  BY DEF Dequeue
<1>3. \A m \in Sema : m # s => /\ count'[m] = count[m] /\ own'[m] = own[m]
                               /\ queue'[m] = queue[m]
  BY <1>1, <1>2 DEF TypeOK
<1>4. /\ own'[s] = own[s] \ {a} /\ queue'[s] = Tail(queue[s])
      /\ count'[s] = count[s] + 1 /\ count[s] \in Int
  BY <1>1, <1>2 DEF TypeOK
<1>5. MayCall(a, "wake", c)
  BY DEF MayCall
<1>6. \A m \in Mutex : \A b \in Actor : b # a /\ b \in own'[m] => b \in own[m]
  BY <1>3, <1>4, SemaAssumption
<1>7. \A b \in Actor : CallUnits(b)'
  BY <1>1, <1>5, <1>6, CallUnitsKept
<1>8. ~\E m \in Mutex : Late(a, m)
  BY DEF Late, GrantLabel
<1>9. ASSUME NEW m \in Mutex, m # s PROVE UnitOf(m)'
  BY <1>1, <1>3, <1>8, <1>9, UnitStays, SemaAssumption
<1>10. UnitOf(s)'
  <2>1. Len(queue[s]) > 0
    BY <1>1, <1>4 DEF IInv, CountMatchesQueue, NoWaiter
  <2>2. PICK h \in Proc : /\ h \in ToSet(queue[s])
                         /\ ToSet(queue'[s]) = ToSet(queue[s]) \ {h}
    BY <1>1, <1>4, <2>1, QueueTail DEF IInv, QueueInv
  <2>3. Sleeping(h) /\ call[h].sem = s
    BY <1>1, <2>2 DEF IInv, WaiterInv
  <2>4. Late(h, s) /\ h # a
    <3>1. pc[h] \in AsleepLabel /\ h \in Actor
      BY <2>2, <2>3 DEF Sleeping, Actor
    <3>2. call[h].op = "p"
      BY <3>1 DEF IInv, CallInv, CallOK, AsleepLabel, PLabel
    <3> QED
      BY <3>1, <3>2, <2>3 DEF Late, GrantLabel, AsleepLabel
  <2>5. a \in Proc /\ HasUnit(a, s)
    BY <1>1 DEF UnitOf, HasUnit
  <2>6. \A q \in Proc : Late(q, s)' <=> Late(q, s)
    <3>1. ASSUME NEW q \in Proc, q # a PROVE Late(q, s)' <=> Late(q, s)
      BY <1>1, <3>1, MovesEffect DEF Late, Actor
    <3>2. ~Late(a, s)' /\ ~Late(a, s)
      BY <1>1, <1>8, MovesEffect DEF Late
    <3> QED
      BY <3>1, <3>2
  <2>7. \A q \in Proc : HasUnit(q, s) => q = a
    BY <1>1, <2>5 DEF UnitOf
  <2>8. \A q \in Proc : HasUnit(q, s)' <=> q = h
    <3>1. HasUnit(h, s)'
      BY <2>2, <2>4, <2>6 DEF HasUnit
    <3>2. ASSUME NEW q \in Proc, HasUnit(q, s)', q # h PROVE FALSE
      <4>1. HasUnit(q, s)
        BY <3>2, <1>4, <2>2, <2>6 DEF HasUnit
      <4>2. q = a
        BY <2>7, <4>1
      <4> QED
        BY <3>2, <4>2, <1>4, <1>8, <2>6 DEF HasUnit
    <3> QED
      BY <3>1, <3>2
  <2>9. ~(count'[s] > 0) /\ count'[s] <= 1
    BY <1>4 DEF NoWaiter
  <2>10. own'[s] \subseteq Proc
    BY <1>1, <1>4 DEF UnitOf
  <2> QED
    BY <2>2, <2>8, <2>9, <2>10 DEF UnitOf
<1> QED
  BY <1>7, <1>9, <1>10 DEF UnitsInv

-----------------------------------------------------------------------------
(* Each action preserves it. *)

LEMMA PSemaUnits ==
  ASSUME IInv, UnitsInv, NEW p \in Proc, NEW s \in Sema, NEW isSoft \in BOOLEAN,
         NEW l, PSema(p, s, isSoft, l)
  PROVE  UnitsInv'
<1> DEFINE label == IF ~isSoft /\ count[s] > 0 THEN "p_try" ELSE "p_lock"
           c == SemaCall(p, s, isSoft, l)
<1>1. TypeOK /\ p \in Actor
  BY DEF IInv, Actor
<1>2. Moves(p, label, c) /\ UNCHANGED <<count, queue, own>>
  BY DEF PSema, Moves, Goto, semaVars
<1>3. c.op = "p" /\ c.sem = s /\ c.soft = isSoft
  BY DEF SemaCall, NoCall
<1>4. MayCall(p, label, c)
  BY <1>2, <1>3 DEF PSema, MayCall
<1>5. pc[p] = "run" /\ label \notin GrantLabel
  BY DEF PSema, GrantLabel
<1>6. \A m \in Mutex : ~Late(p, m)
  BY <1>5 DEF Late, GrantLabel
<1> HIDE DEF label, c
<1> QED
  BY <1>1, <1>2, <1>4, <1>5, <1>6, UnitsFrame

LEMMA PSemaTryUnits ==
  ASSUME IInv, UnitsInv, NEW p \in Proc, PSemaTry(p)
  PROVE  UnitsInv'
<1> DEFINE s == call[p].sem
<1>1. TypeOK /\ p \in Actor /\ s \in Sema /\ pc[p] = "p_try"
  BY DEF IInv, TypeOK, Actor, PSemaTry, CallType
<1>2. CASE count[s] > 0
  <2>1. /\ Moves(p, "run", NoCall) /\ UNCHANGED queue
        /\ count' = [count EXCEPT ![s] = @ - 1]
        /\ own' = IF s \in Mutex THEN [own EXCEPT ![s] = @ \cup {p}] ELSE own
    BY <1>2 DEF PSemaTry, Grant, Return, Goto, Moves
  <2> HIDE DEF s
  <2> QED
    BY <1>1, <1>2, <2>1, TakeUnit DEF GrantLabel
<1>3. CASE ~(count[s] > 0)
  <2>1. Moves(p, "p_lock", call[p]) /\ UNCHANGED <<count, queue, own>>
    BY <1>1, <1>3 DEF PSemaTry, Goto, Moves, TypeOK
  <2> QED
    BY <1>1, <2>1, UnitsGoto DEF GrantLabel
<1> QED
  BY <1>2, <1>3

LEMMA PSemaGateUnits ==
  ASSUME IInv, UnitsInv, NEW p \in Proc, PSemaGate(p)
  PROVE  UnitsInv'
<1> DEFINE s == call[p].sem
<1>1. TypeOK /\ p \in Actor /\ s \in Sema /\ pc[p] = "p_gate" /\ count[s] \in Int
  BY DEF IInv, TypeOK, Actor, PSemaGate, CallType
<1>2. count' = [count EXCEPT ![s] = @ - 1]
  BY DEF PSemaGate
<1>3. CASE count[s] - 1 >= 0
  <2>1. /\ Moves(p, "run", NoCall) /\ UNCHANGED queue
        /\ own' = IF s \in Mutex THEN [own EXCEPT ![s] = @ \cup {p}] ELSE own
    BY <1>3 DEF PSemaGate, Grant, Return, Goto, Moves
  <2>2. count[s] > 0
    BY <1>1, <1>3
  <2> HIDE DEF s
  <2> QED
    BY <1>1, <1>2, <2>1, <2>2, TakeUnit DEF GrantLabel
<1>4. CASE ~(count[s] - 1 >= 0)
  <2>1. /\ Moves(p, "p_sleep", call[p]) /\ UNCHANGED own
        /\ queue' = [queue EXCEPT ![s] = Append(@, p)]
    BY <1>1, <1>4 DEF PSemaGate, Goto, Moves, TypeOK
  <2>2. count[s] <= 0
    BY <1>1, <1>4
  <2> QED
    BY <1>1, <1>2, <2>1, <2>2, JoinQueue
<1> QED
  BY <1>3, <1>4

LEMMA PSemaBackUnits ==
  ASSUME IInv, UnitsInv, NEW p \in Proc, PSemaBack(p)
  PROVE  UnitsInv'
<1> DEFINE s == call[p].sem
<1>1. /\ TypeOK /\ p \in Actor /\ s \in Sema /\ pc[p] = "back" /\ call[p].op = "p"
      /\ CallUnits(p)
  BY DEF IInv, TypeOK, Actor, PSemaBack, CallType, CallInv, CallOK, PLabel, UnitsInv
<1>2. UNCHANGED <<count, queue>>
  BY DEF PSemaBack, semaVars
<1>3. CASE sigwoke[p]
  <2>1. Moves(p, "relock", call[p]) /\ UNCHANGED own
    BY <1>1, <1>3 DEF PSemaBack, Goto, Moves, TypeOK
  <2>2. call[p].soft
    BY <1>1, <1>3 DEF IInv, HardInv
  <2>3. \A m \in Mutex : ~Late(p, m)
    BY <1>1, <2>2 DEF Late, CallUnits
  <2>4. MayCall(p, "relock", call[p])
    BY <1>1, <2>1 DEF MayCall, CallUnits
  <2>5. "relock" \notin GrantLabel
    BY DEF GrantLabel
  <2> QED
    BY <1>1, <1>2, <2>1, <2>3, <2>4, <2>5, UnitsFrame
<1>4. CASE ~sigwoke[p]
  <2>1. /\ Moves(p, "run", NoCall)
        /\ own' = IF s \in Mutex THEN [own EXCEPT ![s] = @ \cup {p}] ELSE own
    BY <1>4 DEF PSemaBack, Grant, Return, Goto, Moves
  <2> HIDE DEF s
  <2> QED
    BY <1>1, <1>2, <2>1, KeepUnit DEF s
<1> QED
  BY <1>3, <1>4

(* The rest of a P only moves along. *)
LEMMA PRestUnits ==
  ASSUME IInv, UnitsInv, NEW p \in Proc,
         \/ PSemaLock(p) \/ PSemaSleep(p) \/ PSemaSwtch(p) \/ PSemaRelock(p)
         \/ IssigNone(p) \/ IssigGot(p) \/ IssigStop(p) \/ IssigSwtch(p) \/ IssigRelock(p)
  PROVE  UnitsInv'
<1>1. TypeOK /\ p \in Actor
  BY DEF IInv, Actor
<1>2. UNCHANGED <<count, own, queue>>
  BY DEF PSemaLock, PSemaSleep, PSemaSwtch, PSemaRelock, IssigNone, IssigGot,
         IssigStop, IssigSwtch, IssigRelock, semaVars
<1>3. CASE PSemaLock(p)
  <2>1. PICK l \in {"issig", "p_gate"} : Moves(p, l, call[p])
    BY <1>1, <1>3 DEF PSemaLock, Goto, Moves, TypeOK
  <2>2. pc[p] = "p_lock"
    BY <1>3 DEF PSemaLock
  <2> QED
    BY <1>1, <1>2, <2>1, <2>2, UnitsGoto DEF GrantLabel
<1>4. CASE PSemaSleep(p)
  <2>1. Moves(p, "p_swtch", [call[p] EXCEPT !.lock = None]) /\ pc[p] = "p_sleep"
    BY <1>1, <1>4 DEF PSemaSleep, Goto, Moves, TypeOK
  <2>2. LET c == [call[p] EXCEPT !.lock = None]
        IN  c.op = call[p].op /\ c.sem = call[p].sem /\ c.soft = call[p].soft
    BY <1>1 DEF TypeOK, CallType
  <2> QED
    BY <1>1, <1>2, <2>1, <2>2, UnitsGoto DEF GrantLabel
<1>5. CASE PSemaSwtch(p)
  <2>1. Moves(p, "off", call[p]) /\ pc[p] = "p_swtch"
    BY <1>1, <1>5 DEF PSemaSwtch, Goto, Moves, TypeOK
  <2> QED
    BY <1>1, <1>2, <2>1, UnitsGoto DEF GrantLabel
<1>6. CASE PSemaRelock(p)
  <2>1. Moves(p, "issig", [call[p] EXCEPT !.slept = TRUE]) /\ pc[p] = "relock"
    BY <1>1, <1>6 DEF PSemaRelock, Goto, Moves, TypeOK
  <2>2. LET c == [call[p] EXCEPT !.slept = TRUE]
        IN  c.op = call[p].op /\ c.sem = call[p].sem /\ c.soft = call[p].soft
    BY <1>1 DEF TypeOK, CallType
  <2> QED
    BY <1>1, <1>2, <2>1, <2>2, UnitsGoto DEF GrantLabel
<1>7. CASE IssigNone(p)
  <2>1. pc[p] = "issig" /\ (Moves(p, "p_gate", call[p]) \/ Moves(p, "run", NoCall))
    BY <1>1, <1>7 DEF IssigNone, Goto, Return, Moves, TypeOK
  <2> QED
    BY <1>1, <1>2, <2>1, UnitsGoto, UnitsReturn DEF GrantLabel
<1>8. CASE IssigGot(p)
  <2>1. pc[p] = "issig" /\ Moves(p, "run", NoCall)
    BY <1>1, <1>8 DEF IssigGot, Goto, Return, Moves, TypeOK
  <2> QED
    BY <1>1, <1>2, <2>1, UnitsReturn DEF GrantLabel
<1>9. CASE IssigStop(p)
  <2>1. Moves(p, "stop_swtch", StoppedCall(p)) /\ pc[p] = "issig"
    BY <1>1, <1>9 DEF IssigStop, Goto, Moves, TypeOK
  <2>2. /\ StoppedCall(p).op = call[p].op /\ StoppedCall(p).sem = call[p].sem
        /\ StoppedCall(p).soft = call[p].soft
    BY <1>1 DEF TypeOK, CallType, StoppedCall
  <2> QED
    BY <1>1, <1>2, <2>1, <2>2, UnitsGoto DEF GrantLabel
<1>10. CASE IssigSwtch(p)
  <2>1. Moves(p, "stop_off", call[p]) /\ pc[p] = "stop_swtch"
    BY <1>1, <1>10 DEF IssigSwtch, Goto, Moves, TypeOK
  <2> QED
    BY <1>1, <1>2, <2>1, UnitsGoto DEF GrantLabel
<1>11. CASE IssigRelock(p)
  <2>1. Moves(p, "issig", call[p]) /\ pc[p] = "stop_back"
    BY <1>1, <1>11 DEF IssigRelock, Goto, Moves, TypeOK
  <2> QED
    BY <1>1, <1>2, <2>1, UnitsGoto DEF GrantLabel
<1> QED
  BY <1>3, <1>4, <1>5, <1>6, <1>7, <1>8, <1>9, <1>10, <1>11

LEMMA DispatchUnits ==
  ASSUME IInv, UnitsInv, NEW p \in Proc, Dispatch(p)
  PROVE  UnitsInv'
<1> DEFINE label == IF pc[p] = "stop_off" THEN "stop_back" ELSE "back"
<1>1. TypeOK /\ p \in Actor /\ UNCHANGED <<count, own, queue>>
  BY DEF IInv, Actor, Dispatch, semaVars
<1>2. Moves(p, label, call[p])
  BY <1>1 DEF Dispatch, Goto, Moves, TypeOK
<1>3. pc[p] \in {"off", "stop_off"}
  BY RunQueueState DEF Dispatch
<1>4. label \in GrantLabel <=> pc[p] \in GrantLabel
  BY <1>3 DEF GrantLabel
<1>5. label \notin {"cv_gate", "vall"}
  OBVIOUS
<1> HIDE DEF label
<1> QED
  BY <1>1, <1>2, <1>4, <1>5, UnitsGoto

(* The semaphore is left to the caller: a mutex is V'ed by its holder. *)
LEMMA VSemaUnits ==
  ASSUME IInv, UnitsInv, NEW a \in Actor, NEW s \in Sema, VSema(a, s)
  PROVE  UnitsInv'
<1> DEFINE c == [NoCall EXCEPT !.op = IF s \in Event THEN "event" ELSE "v", !.sem = s]
<1>1. TypeOK /\ pc[a] = "run" /\ own' = [own EXCEPT ![s] = @ \ {a}]
  BY DEF IInv, VSema
<1>2. c.op \notin {"p", "vall"} /\ c.sem = s
  BY DEF NoCall
<1>3. CASE NoWaiter(s)
  <2>1. /\ count' = [count EXCEPT ![s] = IF s \in Event THEN 1 ELSE @ + 1]
        /\ UNCHANGED <<queue, pc, call>>
    BY <1>3 DEF VSema
  <2>2. CASE s \in Mutex
    <3>1. a \in own[s] /\ s \notin Event
      BY <2>2, SemaAssumption DEF VSema, MayV
    <3> QED
      BY <1>1, <1>3, <2>1, <2>2, <3>1, GiveUnitBack
  <2>3. CASE s \notin Mutex
    <3>1. \A m \in Mutex : UNCHANGED <<count[m], queue[m], own[m]>>
      BY <1>1, <2>1, <2>3, SemaAssumption DEF TypeOK
    <3>2. \A b \in Actor : CallUnits(b)'
      BY <2>1, <3>1 DEF CallUnits, UnitsInv
    <3>3. \A m \in Mutex : UnitOf(m)'
      BY <2>1, <3>1 DEF UnitsInv, UnitOf, HasUnit, Late
    <3> QED
      BY <3>2, <3>3 DEF UnitsInv
  <2> QED
    BY <2>2, <2>3
<1>4. CASE ~NoWaiter(s)
  <2>1. Dequeue(a, s) /\ Moves(a, "wake", c)
    BY <1>4 DEF VSema, Goto, Moves
  <2>2. CASE s \in Mutex
    <3>1. a \in own[s]
      BY <2>2 DEF VSema, MayV
    <3> HIDE DEF c
    <3> QED
      BY <1>1, <1>2, <1>4, <2>1, <2>2, <3>1, HandUnitOver
  <2>3. CASE s \notin Mutex
    <3>1. /\ queue' = [queue EXCEPT ![s] = Tail(queue[s])]
          /\ count' = [count EXCEPT ![s] = count[s] + 1]
      BY <2>1 DEF Dequeue
    <3>2. \A m \in Mutex : own'[m] = own[m]
      BY <1>1, <2>3, SemaAssumption DEF TypeOK
    <3>3. s \in Sema \ Mutex /\ pc[a] \notin GrantLabel
      BY <1>1, <2>3 DEF GrantLabel
    <3> HIDE DEF c
    <3> QED
      BY <1>2, <2>1, <3>1, <3>2, <3>3, OtherSema
  <2> QED
    BY <2>2, <2>3
<1> QED
  BY <1>3, <1>4

(* The other calls begin: no semaphore is touched. *)
LEMMA CallsUnits ==
  ASSUME IInv, UnitsInv, NEW a \in Actor,
         \/ \E s \in Sema : CPSema(a, s) \/ CVSema(a, s) \/ VAllSema(a, s)
         \/ SignalCall(a)
  PROVE  UnitsInv'
<1>1. TypeOK /\ call[a].op = "none" /\ pc[a] = "run"
  <2>1. pc[a] = "run"
    BY DEF CPSema, CVSema, VAllSema, SignalCall, PSignal, PSignalCont
  <2> QED
    BY <2>1 DEF IInv, CallInv, CallOK, NoCall
<1>2. \A m \in Mutex : ~Late(a, m)
  BY <1>1 DEF Late
<1>3. CASE \E s \in Sema : CPSema(a, s)
  <2>1. PICK s \in Sema : CPSema(a, s)
    BY <1>3
  <2> DEFINE c == [NoCall EXCEPT !.op = "cp", !.sem = s]
  <2>2. Moves(a, "cp_gate", c) /\ c.op = "cp" /\ UNCHANGED <<count, own, queue>>
    BY <2>1 DEF CPSema, Goto, Moves, NoCall, semaVars
  <2>3. MayCall(a, "cp_gate", c) /\ "cp_gate" \notin GrantLabel
    BY <2>2 DEF MayCall, GrantLabel
  <2> HIDE DEF c
  <2> QED
    BY <1>1, <1>2, <2>2, <2>3, UnitsFrame
<1>4. CASE \E s \in Sema : CVSema(a, s) \/ VAllSema(a, s)
  <2>1. PICK s \in Sema : CVSema(a, s) \/ VAllSema(a, s)
    BY <1>4
  <2>2. s \notin Mutex /\ UNCHANGED <<count, own, queue>>
    BY <2>1 DEF CVSema, VAllSema, semaVars
  <2>3. ASSUME NEW l \in {"cv_gate", "vall"}, NEW c, Moves(a, l, c), c.op # "p", c.sem = s
        PROVE  UnitsInv'
    <3>1. MayCall(a, l, c) /\ l \notin GrantLabel
      BY <2>2, <2>3 DEF MayCall, GrantLabel
    <3> QED
      BY <1>1, <1>2, <2>2, <2>3, <3>1, UnitsFrame
  <2>4. CASE CVSema(a, s)
    <3> DEFINE c == [NoCall EXCEPT !.op = "cv", !.sem = s]
    <3>1. Moves(a, "cv_gate", c) /\ c.op # "p" /\ c.sem = s
      BY <2>4 DEF CVSema, Goto, Moves, NoCall
    <3> HIDE DEF c
    <3> QED
      BY <2>3, <3>1
  <2>5. CASE VAllSema(a, s)
    <3> DEFINE c == [NoCall EXCEPT !.op = "vall", !.sem = s, !.left = count[s]]
    <3>1. Moves(a, "vall", c) /\ c.op # "p" /\ c.sem = s
      BY <2>5 DEF VAllSema, Goto, Moves, NoCall
    <3> HIDE DEF c
    <3> QED
      BY <2>3, <3>1
  <2> QED
    BY <2>1, <2>4, <2>5
<1>5. CASE SignalCall(a)
  <2>1. UNCHANGED <<count, own, queue, call>>
    BY <1>5 DEF SignalCall, PSignal, PSignalCont, semaVars
  <2>2. \E l \in {"run", "force_gate", "runout_gate"} : Moves(a, l, call[a])
    BY <1>1, <1>5, <2>1 DEF SignalCall, PSignal, PSignalCont, Goto, Moves, TypeOK
  <2> QED
    BY <1>1, <2>1, <2>2, UnitsGoto DEF GrantLabel
<1> QED
  BY <1>3, <1>4, <1>5

(* cp_sema() takes the unit of a mutex nobody has, or nothing. *)
LEMMA CPGateUnits ==
  ASSUME IInv, UnitsInv, NEW a \in Actor, CPGate(a)
  PROVE  UnitsInv'
<1> DEFINE s == call[a].sem
<1>1. /\ TypeOK /\ pc[a] = "cp_gate" /\ pc[a] \notin GrantLabel /\ s \in Sema
      /\ call[a].op # "p" /\ (s \in Mutex => a \in Proc)
  <2>1. pc[a] = "cp_gate"
    BY DEF CPGate
  <2> QED
    BY <2>1 DEF IInv, TypeOK, CallType, CallInv, CallOK, VLabel, GrantLabel
<1>2. UNCHANGED queue
  BY DEF CPGate
<1>3. CASE count[s] > 0
  <2>1. /\ Moves(a, "run", NoCall)
        /\ count' = [count EXCEPT ![s] = @ - 1]
        /\ own' = IF s \in Mutex THEN [own EXCEPT ![s] = @ \cup {a}] ELSE own
    BY <1>3 DEF CPGate, Grant, Return, Goto, Moves
  <2> HIDE DEF s
  <2>2. CASE a \in Proc
    BY <1>1, <1>2, <1>3, <2>1, <2>2, TakeUnit
  <2>3. CASE s \notin Mutex
    <3>1. queue' = [queue EXCEPT ![s] = queue[s]] /\ count' = [count EXCEPT ![s] = count[s] - 1]
      BY <1>1, <1>2, <2>1 DEF TypeOK
    <3>2. NoCall.op = "none"
      BY DEF NoCall
    <3> QED
      BY <1>1, <2>1, <2>3, <3>1, <3>2, OtherSema
  <2> QED
    BY <1>1, <2>2, <2>3
<1>4. CASE ~(count[s] > 0)
  <2>1. Moves(a, "run", NoCall) /\ UNCHANGED <<count, own>>
    BY <1>4 DEF CPGate, Return, Goto, Moves
  <2> QED
    BY <1>1, <1>2, <2>1, UnitsReturn
<1> QED
  BY <1>3, <1>4

(* cv_sema() finds its semaphore, no mutex, with waiters or without. *)
LEMMA CVGateUnits ==
  ASSUME IInv, UnitsInv, NEW a \in Actor, CVGate(a)
  PROVE  UnitsInv'
<1> DEFINE s == call[a].sem
<1>1. TypeOK /\ pc[a] = "cv_gate" /\ s \in Sema \ Mutex /\ call[a].op # "p"
  <2>1. pc[a] = "cv_gate"
    BY DEF CVGate
  <2> QED
    BY <2>1 DEF IInv, TypeOK, CallType, CallInv, CallOK, VLabel, UnitsInv, CallUnits
<1>2. UNCHANGED own
  BY DEF CVGate
<1>3. CASE count[s] >= 0
  <2>1. Moves(a, "run", NoCall) /\ UNCHANGED <<count, queue>>
    BY <1>3 DEF CVGate, Return, Goto, Moves
  <2> QED
    BY <1>1, <1>2, <2>1, UnitsReturn DEF GrantLabel
<1>4. CASE ~(count[s] >= 0)
  <2>1. /\ Moves(a, "wake", call[a])
        /\ queue' = [queue EXCEPT ![s] = Tail(queue[s])]
        /\ count' = [count EXCEPT ![s] = count[s] + 1]
    BY <1>1, <1>4 DEF CVGate, Dequeue, Goto, Moves, TypeOK
  <2>2. pc[a] \notin GrantLabel
    BY <1>1 DEF GrantLabel
  <2> QED
    BY <1>1, <1>2, <2>1, <2>2, OtherSema
<1> QED
  BY <1>3, <1>4

(* A waker is done, or goes on with its target. *)
LEMMA WakerMoves ==
  ASSUME IInv, UnitsInv, NEW a \in Actor, pc[a] \in VLabel,
         \/ WakerDone(a)
         \/ Moves(a, "runout_gate", call[a])
         \/ Moves(a, "runout_wake", call[a])
  PROVE  \E l, c : /\ Moves(a, l, c) /\ c.op # "p" /\ l \notin GrantLabel
                   /\ l \in {"cv_gate", "vall"} \/ c.op = "vall" => c.sem \notin Mutex
<1>1. TypeOK /\ call[a].op # "p" /\ CallUnits(a)
  BY DEF IInv, CallInv, CallOK, UnitsInv
<1>2. \/ Moves(a, "vall", call[a]) /\ call[a].op = "vall"
      \/ Moves(a, "run", NoCall)
      \/ Moves(a, "runout_gate", call[a])
      \/ Moves(a, "runout_wake", call[a])
  BY <1>1 DEF WakerDone, Return, Goto, Moves, TypeOK
<1>3. NoCall.op = "none" /\ \A l \in {"vall", "run", "runout_gate", "runout_wake"} : l \notin GrantLabel
  BY DEF NoCall, GrantLabel
<1>4. CASE Moves(a, "run", NoCall)
  BY <1>3, <1>4
<1>5. CASE Moves(a, "vall", call[a]) /\ call[a].op = "vall"
  BY <1>1, <1>3, <1>5 DEF CallUnits
<1>6. ASSUME NEW l \in {"runout_gate", "runout_wake"}, Moves(a, l, call[a])
      PROVE  /\ l \notin {"cv_gate", "vall"} /\ l \notin GrantLabel
             /\ call[a].op = "vall" => call[a].sem \notin Mutex
  BY <1>1, <1>3 DEF CallUnits
<1> QED
  BY <1>1, <1>2, <1>4, <1>5, <1>6

(* What a waker does away from the gates of its own semaphore. *)
LEMMA WakeUnits ==
  ASSUME IInv, UnitsInv, NEW a \in Actor,
         VAllNext(a) \/ Wake(a) \/ RunoutWake(a) \/ ForceRun(a)
  PROVE  UnitsInv'
<1>1. TypeOK /\ pc[a] \in VLabel /\ pc[a] \notin GrantLabel
  BY DEF IInv, VAllNext, Wake, RunoutWake, ForceRun, VLabel, GrantLabel
<1>2. UNCHANGED <<count, own, queue>>
  BY DEF VAllNext, Wake, RunoutWake, ForceRun, semaVars
<1>3. \A m \in Mutex : ~Late(a, m)
  BY <1>1 DEF Late
<1>4. CASE VAllNext(a)
  <2> DEFINE c == [call[a] EXCEPT !.left = @ + 1]
  <2>1. pc[a] = "vall" /\ c.op = call[a].op /\ c.sem = call[a].sem /\ c.soft = call[a].soft
    BY <1>1, <1>4 DEF VAllNext, TypeOK, CallType
  <2>2. Moves(a, "cv_gate", c) \/ Moves(a, "run", NoCall)
    BY <1>1, <1>4 DEF VAllNext, Return, Goto, Moves, TypeOK
  <2>3. call[a].op # "p" /\ CallUnits(a)
    BY <1>1 DEF IInv, CallInv, CallOK, UnitsInv
  <2>4. MayCall(a, "cv_gate", c)
    BY <2>1, <2>3 DEF MayCall, CallUnits
  <2>5. "cv_gate" \notin GrantLabel
    BY DEF GrantLabel
  <2> HIDE DEF c
  <2>6. CASE Moves(a, "cv_gate", c)
    BY <1>1, <1>2, <1>3, <2>4, <2>5, <2>6, UnitsFrame
  <2>7. CASE Moves(a, "run", NoCall)
    BY <1>1, <1>2, <2>7, UnitsReturn
  <2> QED
    BY <2>2, <2>6, <2>7
<1>5. CASE Wake(a) \/ RunoutWake(a) \/ ForceRun(a)
  <2>1. \/ WakerDone(a)
        \/ Moves(a, "runout_gate", call[a])
        \/ Moves(a, "run", NoCall)
    BY <1>1, <1>5 DEF Wake, RunoutWake, ForceRun, Return, Goto, Moves, TypeOK
  <2>2. CASE Moves(a, "run", NoCall)
    BY <1>1, <1>2, <2>2, UnitsReturn
  <2>3. CASE WakerDone(a) \/ Moves(a, "runout_gate", call[a])
    <3>1. PICK l, c : /\ Moves(a, l, c) /\ c.op # "p" /\ l \notin GrantLabel
                      /\ l \in {"cv_gate", "vall"} \/ c.op = "vall" => c.sem \notin Mutex
      BY <1>1, <2>3, WakerMoves
    <3>2. MayCall(a, l, c)
      BY <3>1 DEF MayCall
    <3> QED
      BY <1>1, <1>2, <1>3, <3>1, <3>2, UnitsFrame
  <2> QED
    BY <2>1, <2>2, <2>3
<1> QED
  BY <1>4, <1>5

LEMMA RunoutGateUnits ==
  ASSUME IInv, UnitsInv, NEW a \in Actor, RunoutGate(a)
  PROVE  UnitsInv'
<1>1. /\ TypeOK /\ pc[a] = "runout_gate" /\ pc[a] \in VLabel /\ pc[a] \notin GrantLabel
      /\ runout \in Sema \ Mutex /\ UNCHANGED own
  BY SemaAssumption DEF IInv, RunoutGate, VLabel, GrantLabel
<1>2. \/ WakerDone(a)
      \/ Moves(a, "runout_wake", call[a])
  BY <1>1 DEF RunoutGate, Goto, Moves, TypeOK
<1>3. PICK l, c : /\ Moves(a, l, c) /\ c.op # "p" /\ l \notin GrantLabel
                  /\ l \in {"cv_gate", "vall"} \/ c.op = "vall" => c.sem \notin Mutex
  BY <1>1, <1>2, WakerMoves
<1>4. \E q, n : /\ queue' = [queue EXCEPT ![runout] = q]
                /\ count' = [count EXCEPT ![runout] = n]
  <2>1. queue = [queue EXCEPT ![runout] = queue[runout]]
    BY <1>1 DEF TypeOK
  <2> QED
    BY <2>1 DEF RunoutGate, Dequeue
<1> QED
  BY <1>1, <1>3, <1>4, OtherSema

(* force_v_sema() takes a soft sleeper off: it does not wait for a mutex. *)
LEMMA ForceGateUnits ==
  ASSUME IInv, UnitsInv, NEW a \in Actor, ForceGate(a)
  PROVE  UnitsInv'
<1> DEFINE q == tgt[a]
           s == wchan[q]
<1>1. TypeOK /\ pc[a] = "force_gate" /\ UNCHANGED own /\ CallUnits(a)
  BY DEF IInv, ForceGate, UnitsInv
<1>2. pc[a] \notin GrantLabel /\ call[a].op # "p"
  BY <1>1 DEF GrantLabel, IInv, CallInv, CallOK, VLabel
<1>3. CASE ~link[q]
  <2>1. Moves(a, "run", NoCall) /\ UNCHANGED <<count, queue>>
    BY <1>3 DEF ForceGate, Return, Goto, Moves, semaVars
  <2> QED
    BY <1>1, <1>2, <2>1, UnitsReturn
<1>4. CASE link[q]
  <2>1. q \in Proc /\ pc[q] = "off" /\ stat[q] = "SSLEEP" /\ soft[q]
    BY <1>1 DEF IInv, StateInv, ForceInv
  <2>2. call[q].op = "p" /\ CallUnits(q) /\ call[q] \in CallType
    BY <1>1, <2>1 DEF IInv, CallInv, CallOK, PLabel, UnitsInv, Actor, TypeOK
  <2>3. call[q].soft /\ s = call[q].sem
    BY <2>1 DEF IInv, RunInv
  <2>4. s \in Sema \ Mutex
    BY <2>2, <2>3 DEF CallUnits, CallType
  <2>5. /\ Moves(a, "force_run", call[a])
        /\ queue' = [queue EXCEPT ![s] = Without(queue[s], q)]
        /\ count' = [count EXCEPT ![s] = count[s] + 1]
    BY <1>1, <1>4 DEF ForceGate, Goto, Moves, TypeOK
  <2>6. "force_run" \notin {"cv_gate", "vall"} /\ (call[a].op = "vall" => call[a].sem \notin Mutex)
    BY <1>1 DEF CallUnits
  <2> HIDE DEF q, s
  <2> QED
    BY <1>1, <1>2, <2>4, <2>5, <2>6, OtherSema
<1> QED
  BY <1>3, <1>4

(* The dispatcher's and the swapper's other actions, and the locks. *)
LEMMA OtherUnits ==
  ASSUME IInv, UnitsInv,
         \/ ClearRunout
         \/ \E p \in Proc : \/ SwapOut(p) \/ SwapIn(p)
                            \/ \E l \in Lock : TakeLock(p, l) \/ DropLock(p, l)
         \/ UNCHANGED vars
  PROVE  UnitsInv'
<1>1. CASE ClearRunout
  <2>1. \A m \in Mutex : count'[m] = count[m]
    BY <1>1, SemaAssumption DEF ClearRunout, IInv, TypeOK
  <2>2. UNCHANGED <<queue, own, pc, call>>
    BY <1>1 DEF ClearRunout, actorVars
  <2> QED
    BY <2>1, <2>2 DEF UnitsInv, UnitOf, HasUnit, Late, CallUnits
<1>2. CASE ~ClearRunout
  <2>1. UNCHANGED <<count, queue, own, pc, call>>
    BY <1>2 DEF SwapOut, SwapIn, TakeLock, DropLock, vars, semaVars, actorVars
  <2> QED
    BY <2>1, UnitsStutter
<1> QED
  BY <1>1, <1>2

-----------------------------------------------------------------------------
LEMMA InitUnits == Init => UnitsInv
<1>1. ASSUME Init, NEW a \in Actor PROVE CallUnits(a)
  BY <1>1, SemaAssumption DEF Init, CallUnits, NoCall
<1>2. ASSUME Init, NEW m \in Mutex PROVE UnitOf(m)
  BY <1>2, SemaAssumption DEF Init, UnitOf, HasUnit, Late, NoCall, Actor
<1> QED
  BY <1>1, <1>2 DEF UnitsInv

LEMMA NextUnits == IInv /\ UnitsInv /\ [Next]_vars => UnitsInv'
<1> SUFFICES ASSUME IInv, UnitsInv, [Next]_vars PROVE UnitsInv'
  OBVIOUS
<1>1. ASSUME NEW p \in Proc, PCall(p) PROVE UnitsInv'
  BY <1>1, PSemaUnits DEF PCall
<1>2. ASSUME NEW p \in Proc, PStep(p) PROVE UnitsInv'
  BY <1>2, PSemaTryUnits, PSemaGateUnits, PSemaBackUnits, PRestUnits DEF PStep
<1>3. ASSUME NEW a \in Actor, VCall(a) PROVE UnitsInv'
  BY <1>3, VSemaUnits, CallsUnits DEF VCall
<1>4. ASSUME NEW a \in Actor, VStep(a) PROVE UnitsInv'
  BY <1>4, CPGateUnits, CVGateUnits, WakeUnits, RunoutGateUnits, ForceGateUnits DEF VStep
<1> QED
  BY <1>1, <1>2, <1>3, <1>4, DispatchUnits, CallsUnits, OtherUnits DEF Next

LEMMA UnitsInvariance == Spec => []UnitsInv
<1> QED
  BY InitUnits, NextUnits, Invariance, PTL DEF Spec

(* A mutex has one unit: its count is one, one process holds it, or one is *)
(* on its way out of p_sema() with it; two processes never hold it.        *)
THEOREM MutualExclusion == Spec => []MutexUnits
<1>1. ASSUME IInv, UnitsInv, NEW m \in Mutex
      PROVE  Cardinality(own[m]) + Cardinality(Granted(m))
               + (IF count[m] > 0 THEN count[m] ELSE 0) = 1
  <2>1. UnitOf(m) /\ m \in Sema /\ count[m] \in Int
    BY <1>1, SemaAssumption DEF UnitsInv, IInv, TypeOK
  <2>2. ASSUME NEW p \in Proc
        PROVE  p \in Granted(m) <=> Late(p, m) /\ p \notin ToSet(queue[m])
    BY <1>1, <2>1 DEF Granted, Late, GrantLabel, OnQueue, IInv, WaiterInv
  <2>3. own[m] \cap Granted(m) = {}
    BY <1>1, <2>1 DEF Granted, UnitsInv, CallUnits, Actor
  <2>4. \A p \in Proc : HasUnit(p, m) <=> p \in own[m] \/ p \in Granted(m)
    BY <2>2 DEF HasUnit
  <2>5. own[m] \subseteq Proc /\ Granted(m) \subseteq Proc
    BY <2>1 DEF UnitOf, Granted
  <2>6. CASE count[m] > 0
    <3>1. count[m] = 1 /\ own[m] = {} /\ Granted(m) = {}
      BY <2>1, <2>4, <2>5, <2>6 DEF UnitOf
    <3> QED
      BY <3>1, FS_EmptySet
  <2>7. CASE ~(count[m] > 0)
    <3>1. PICK p \in Proc : HasUnit(p, m)
      BY <2>1, <2>7 DEF UnitOf
    <3>2. \/ own[m] = {p} /\ Granted(m) = {}
          \/ own[m] = {} /\ Granted(m) = {p}
      BY <2>1, <2>3, <2>4, <2>5, <3>1 DEF UnitOf
    <3>3. Cardinality(own[m]) + Cardinality(Granted(m)) = 1
      <4>1. Cardinality({p}) = 1
        BY FS_Singleton
      <4>2. Cardinality({}) = 0
        BY FS_EmptySet
      <4> HIDE DEF Granted
      <4> QED
        BY <3>2, <4>1, <4>2
    <3>4. (IF count[m] > 0 THEN count[m] ELSE 0) = 0
      BY <2>7
    <3> QED
      BY <3>3, <3>4
  <2> QED
    BY <2>6, <2>7
<1>2. IInv /\ UnitsInv => MutexUnits
  BY <1>1 DEF MutexUnits
<1> QED
  BY <1>2, Invariance, UnitsInvariance, PTL
=============================================================================
