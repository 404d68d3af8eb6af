------------------------- MODULE SleepWakeupProofs -------------------------
(* Proofs of the invariants of SleepWakeup, for any processes and channels.*)
EXTENDS SleepWakeup, QueueLemmas, FiniteSetTheorems

(* The first four facts of WokenOnce, and what it says of the count in     *)
(* terms of the length of the queue.                                       *)
SleepInv ==
  \A p \in Proc :
    /\ asleep[p] <=> p \in ToSet(queue)
    /\ asleep[p] => pc[p] = "p_sema" /\ runq[p] = 0
    /\ runq[p] <= IF pc[p] = "p_sema" THEN 1 ELSE 0
    /\ pc[p] = "p_sema" => asleep[p] \/ runq[p] = 1

QueueInv == IsQueue(queue, Proc) /\ count + Len(queue) = 0

(* While wakeup() runs nobody joins the queue and no sleeper changes its   *)
(* channel: sleepers found on one channel are on one channel to the end.   *)
WalkInv ==
  /\ wpc = "p_lock" => wproc \in Proc
  /\ wpc # "idle" /\ alone =>
       \A p, r \in ToSet(queue) : yawc[p] = yawc[r]

IInv == TypeOK /\ SleepInv /\ QueueInv /\ WalkInv /\ WakeupNotSignal
          /\ WakesAllAlone

-----------------------------------------------------------------------------
(* A queue holds as many processes as it is long.                          *)
LEMMA QueueCount ==
  ASSUME NEW S, NEW seq, IsQueue(seq, S)
  PROVE  Cardinality(ToSet(seq)) = Len(seq)
<1>1. /\ seq \in Seq(S) /\ Len(seq) \in Nat /\ DOMAIN seq = 1 .. Len(seq)
      /\ \A i, j \in 1 .. Len(seq) : seq[i] = seq[j] => i = j
  BY LenProperties DEF IsQueue, IsInjective
<1>2. seq \in [1 .. Len(seq) -> ToSet(seq)]
  BY <1>1, LenProperties DEF ToSet
<1>3. seq \in Bijection(1 .. Len(seq), ToSet(seq))
  BY <1>1, <1>2 DEF Bijection, Injection, Surjection, IsInjective, ToSet
<1> QED
  BY <1>1, <1>3, FS_CountingElements DEF ExistsBijection

(* remque() of a process on the queue.                                     *)
LEMMA QueueWithout ==
  ASSUME NEW S, NEW seq, IsQueue(seq, S), NEW p \in ToSet(seq)
  PROVE  /\ IsQueue(Without(seq, p), S)
         /\ Len(Without(seq, p)) = Len(seq) - 1
         /\ ToSet(Without(seq, p)) = ToSet(seq) \ {p}
<1> DEFINE k == CHOOSE i \in DOMAIN seq : seq[i] = p
<1>1. k \in DOMAIN seq /\ seq[k] = p
  BY DEF ToSet
<1>2. Without(seq, p) = RemoveAt(seq, k)
  BY DEF Without
<1> HIDE DEF k
<1> QED
  BY <1>1, <1>2, QueueRemoveAt

(* The walk along p_rlink finds the head of the queue or nobody.           *)
LEMMA FoundHead ==
  ASSUME NEW c, queue \in Seq(Proc)
  PROVE  Found(c) = IF queue # << >> /\ yawc[queue[1]] = c
                    THEN queue[1] ELSE None
<1> DEFINE D == 0 .. Len(queue)
           On(i) == {j \in 1 .. i : yawc[queue[j]] = c}
           Latest(i) == CHOOSE j \in On(i) : \A k \in On(i) : k <= j
           w == [i \in D |-> IF On(i) = {} THEN None ELSE queue[Latest(i)]]
           Step(f, i) == IF i = 0 THEN None
                         ELSE IF yawc[queue[i]] = c THEN queue[i] ELSE f[i - 1]
           IsWalk(f) == f = [i \in D |-> Step(f, i)]
           f0 == CHOOSE f : IsWalk(f)
<1>1. Len(queue) \in Nat
  BY LenProperties
<1>2. ASSUME NEW i \in D PROVE w[i] = Step(w, i)
  <2>1. CASE i = 0
    <3>1. On(i) = {}
      BY <2>1
    <3> QED
      BY <2>1, <3>1
  <2>2. CASE i # 0 /\ yawc[queue[i]] = c
    <3>1. i \in On(i) /\ \A k \in On(i) : k \in Int /\ k <= i
      BY <1>1, <2>2
    <3>2. Latest(i) = i
      <4> HIDE DEF On
      <4>1. Latest(i) \in On(i) /\ \A k \in On(i) : k <= Latest(i)
        BY <3>1
      <4> HIDE DEF Latest
      <4> QED
        BY <3>1, <4>1, <1>1
    <3> QED
      BY <2>2, <3>1, <3>2
  <2>3. CASE i # 0 /\ yawc[queue[i]] # c
    <3>1. On(i) = On(i - 1) /\ i - 1 \in D
      BY <1>1, <2>3
    <3>2. w[i] = w[i - 1]
      <4> HIDE DEF On
      <4> QED
        BY <3>1
    <3> QED
      BY <2>3, <3>2
  <2> QED
    BY <2>1, <2>2, <2>3
<1>3. IsWalk(w)
  <2> HIDE DEF Step, On, Latest
  <2>1. \A i \in D : w[i] = Step(w, i)
    BY <1>2
  <2>2. w = [i \in D |-> w[i]]
    OBVIOUS
  <2> HIDE DEF w
  <2> QED
    BY <2>1, <2>2
<1>4. IsWalk(f0)
  <2> HIDE DEF w, IsWalk
  <2> QED
    BY <1>3
<1>5. Found(c) = f0[IF queue = << >> THEN 0 ELSE 1]
  BY DEF Found
<1> HIDE DEF f0, w, On, Latest
<1>6. \A i \in D : f0[i] = Step(f0, i)
  BY <1>4
<1>7. 0 \in D /\ f0[0] = None
  BY <1>1, <1>6
<1>8. CASE queue = << >>
  BY <1>5, <1>7, <1>8
<1>9. CASE queue # << >>
  <2>1. 1 \in D
    BY <1>1, <1>9, EmptySeq
  <2>2. f0[1] = IF yawc[queue[1]] = c THEN queue[1] ELSE f0[0]
    BY <1>6, <2>1
  <2> QED
    BY <1>5, <1>7, <1>9, <2>2
<1> QED
  BY <1>8, <1>9

-----------------------------------------------------------------------------
LEMMA InitInv == Init => IInv
<1> SUFFICES ASSUME Init PROVE IInv
  OBVIOUS
<1>1. /\ << >> \in Seq(Proc) /\ Len(<< >>) = 0 /\ ToSet(<< >>) = {}
      /\ IsQueue(<< >>, Proc)
  BY EmptySeq, LenProperties DEF ToSet, IsQueue, IsInjective
<1>0. count = 0 /\ queue = << >>
  BY DEF Init
<1>2. TypeOK
  <2>1. queue \in Seq(Proc)
    BY <1>0, <1>1
  <2>2. count \in Int /\ count <= 0
    BY <1>0
  <2>3. /\ yawc \in [Proc -> Chan \cup {None}]
        /\ asleep \in [Proc -> BOOLEAN]
        /\ sigwoke \in [Proc -> BOOLEAN]
        /\ sig \in [Proc -> BOOLEAN]
    BY DEF Init
  <2>4. /\ runq \in [Proc -> Nat]
        /\ pc \in [Proc -> {"run", "sleep", "p_sema"}]
        /\ ender \in [Proc -> {"wakeup", "signal"}]
    BY DEF Init
  <2> QED
    BY <2>1, <2>2, <2>3, <2>4 DEF Init, TypeOK
<1>3. SleepInv
  <2> SUFFICES ASSUME NEW p \in Proc
               PROVE  /\ asleep[p] <=> p \in ToSet(queue)
                      /\ asleep[p] => pc[p] = "p_sema" /\ runq[p] = 0
                      /\ runq[p] <= IF pc[p] = "p_sema" THEN 1 ELSE 0
                      /\ pc[p] = "p_sema" => asleep[p] \/ runq[p] = 1
    BY DEF SleepInv
  <2>1. asleep[p] = FALSE /\ runq[p] = 0 /\ pc[p] = "run"
    BY DEF Init
  <2>2. p \notin ToSet(queue)
    BY <1>1 DEF Init
  <2> QED
    BY <2>1, <2>2
<1>4. QueueInv
  <2>1. IsQueue(queue, Proc) /\ Len(queue) = 0
    BY <1>0, <1>1
  <2>2. count + Len(queue) = 0
    BY <1>0, <2>1
  <2> QED
    BY <2>1, <2>2 DEF QueueInv
<1>5. WalkInv /\ WakeupNotSignal /\ WakesAllAlone
  BY DEF Init, WalkInv, WakeupNotSignal, WakesAllAlone
<1> QED
  BY <1>2, <1>3, <1>4, <1>5 DEF IInv

(* A process that is asleep is taken off the queue and made runnable.      *)
LEMMA ForceStep ==
  ASSUME IInv, NEW p \in Proc, asleep[p], NEW by \in {"wakeup", "signal"},
         ForceVSema(p, by), UNCHANGED <<yawc, pc, wchan, alone>>
  PROVE  /\ count' \in Int /\ count' <= 0
         /\ queue' \in Seq(Proc)
         /\ asleep' \in [Proc -> BOOLEAN] /\ sigwoke' \in [Proc -> BOOLEAN]
         /\ runq' \in [Proc -> Nat] /\ ender' \in [Proc -> {"wakeup", "signal"}]
         /\ SleepInv' /\ QueueInv' /\ WakeupNotSignal'
         /\ ToSet(queue') \subseteq ToSet(queue)
<1> USE DEF IInv, TypeOK, SleepInv, QueueInv
<1>1. /\ IsQueue(queue', Proc) /\ Len(queue') = Len(queue) - 1
      /\ ToSet(queue') = ToSet(queue) \ {p}
  BY QueueWithout DEF ForceVSema
<1>2. /\ queue' \in Seq(Proc) /\ Len(queue') \in Nat /\ Len(queue) \in Nat
  BY <1>1, LenProperties DEF IsQueue
<1>3. count' + Len(queue') = 0
  BY <1>1, <1>2 DEF ForceVSema
<1>4. count' \in Int /\ count' <= 0
  <2>1. count' \in Int
    BY DEF ForceVSema
  <2> QED
    BY <1>2, <1>3, <2>1
<1>5. /\ asleep' \in [Proc -> BOOLEAN] /\ sigwoke' \in [Proc -> BOOLEAN]
      /\ runq' \in [Proc -> Nat] /\ ender' \in [Proc -> {"wakeup", "signal"}]
  BY DEF ForceVSema
<1>6. SleepInv'
  <2> SUFFICES ASSUME NEW r \in Proc
               PROVE  /\ asleep'[r] <=> r \in ToSet(queue')
                      /\ asleep'[r] => pc[r] = "p_sema" /\ runq'[r] = 0
                      /\ runq'[r] <= IF pc[r] = "p_sema" THEN 1 ELSE 0
                      /\ pc[r] = "p_sema" => asleep'[r] \/ runq'[r] = 1
    OBVIOUS
  <2>1. CASE r = p
    BY <1>1, <2>1 DEF ForceVSema
  <2>2. CASE r # p
    BY <1>1, <2>2 DEF ForceVSema
  <2> QED
    BY <2>1, <2>2
<1>7. WakeupNotSignal'
  <2> SUFFICES ASSUME NEW r \in Proc, runq'[r] > 0
               PROVE  sigwoke'[r] <=> ender'[r] = "signal"
    BY DEF WakeupNotSignal
  <2>1. CASE r = p
    BY <2>1 DEF ForceVSema
  <2>2. CASE r # p
    BY <2>2 DEF ForceVSema, WakeupNotSignal
  <2> QED
    BY <2>1, <2>2
<1> QED
  BY <1>1, <1>2, <1>3, <1>4, <1>5, <1>6, <1>7

LEMMA SleepStep ==
  ASSUME IInv, NEW p \in Proc, NEW c \in Chan, Sleep(p, c)
  PROVE  IInv'
<1> USE DEF IInv, TypeOK, Sleep, sleepVars, wakeVars
<1>1. TypeOK'
  OBVIOUS
<1>2. SleepInv'
  BY DEF SleepInv
<1>3. QueueInv' /\ WalkInv' /\ WakeupNotSignal' /\ WakesAllAlone'
  BY DEF QueueInv, WalkInv, WakeupNotSignal, WakesAllAlone
<1> QED
  BY <1>1, <1>2, <1>3

(* A process that is not in p_sema() is nowhere.                           *)
LEMMA Awake ==
  ASSUME TypeOK, SleepInv, NEW p \in Proc, pc[p] # "p_sema"
  PROVE  runq[p] = 0 /\ ~asleep[p] /\ p \notin ToSet(queue)
<1>1. ~asleep[p]
  BY DEF SleepInv
<1>2. p \notin ToSet(queue)
  BY <1>1 DEF SleepInv
<1>3. runq[p] \in Nat
  BY DEF TypeOK
<1>4. runq[p] <= 0
  BY DEF SleepInv
<1> QED
  BY <1>1, <1>2, <1>3, <1>4

LEMMA PSemaStep ==
  ASSUME IInv, NEW p \in Proc, PSema(p)
  PROVE  IInv'
<1> USE DEF IInv, TypeOK, PSema, wakeVars
<1>1. WalkInv' /\ WakesAllAlone'
  BY DEF WalkInv, WakesAllAlone
<1>2. runq[p] = 0 /\ ~asleep[p] /\ p \notin ToSet(queue)
  BY Awake
<1>3. WakeupNotSignal'
  <2> SUFFICES ASSUME NEW r \in Proc, runq'[r] > 0
               PROVE  sigwoke'[r] <=> ender'[r] = "signal"
    BY DEF WakeupNotSignal
  <2>1. r # p
    BY <1>2
  <2>2. sigwoke'[r] = sigwoke[r] /\ ender'[r] = ender[r] /\ runq[r] > 0
    BY <2>1
  <2> QED
    BY <2>2 DEF WakeupNotSignal
<1>4. CASE yawc[p] \in Soft /\ sig[p]
  <2>1. TypeOK'
    BY <1>4
  <2>2. SleepInv' /\ QueueInv'
    BY <1>4 DEF SleepInv, QueueInv
  <2> QED
    BY <1>1, <1>3, <2>1, <2>2
<1>5. CASE ~(yawc[p] \in Soft /\ sig[p])
  <2>1. /\ IsQueue(queue', Proc) /\ Len(queue') = Len(queue) + 1
        /\ ToSet(queue') = ToSet(queue) \cup {p}
    <3>1. IsQueue(queue, Proc) /\ queue' = Append(queue, p)
      BY <1>5 DEF QueueInv
    <3> QED
      BY <1>2, <3>1, QueueAppend
  <2>2. /\ queue' \in Seq(Proc) /\ Len(queue) \in Nat
    BY <2>1, LenProperties DEF IsQueue
  <2>3. count' + Len(queue') = 0 /\ count' \in Int /\ count' <= 0
    BY <1>5, <2>1, <2>2 DEF QueueInv
  <2>4. TypeOK'
    BY <1>5, <2>2, <2>3
  <2>5. SleepInv'
    BY <1>2, <1>5, <2>1 DEF SleepInv
  <2> QED
    BY <1>1, <1>3, <2>1, <2>3, <2>4, <2>5 DEF QueueInv
<1> QED
  BY <1>4, <1>5

LEMMA ResumeStep ==
  ASSUME IInv, NEW p \in Proc, Resume(p)
  PROVE  IInv'
<1> USE DEF IInv, TypeOK, Resume, wakeVars
<1>1. runq[p] = 1 /\ ~asleep[p]
  BY DEF SleepInv
<1>2. TypeOK'
  BY <1>1
<1>3. SleepInv'
  BY <1>1 DEF SleepInv
<1>4. QueueInv' /\ WalkInv' /\ WakeupNotSignal' /\ WakesAllAlone'
  BY <1>1 DEF QueueInv, WalkInv, WakeupNotSignal, WakesAllAlone
<1> QED
  BY <1>2, <1>3, <1>4

LEMMA PSignalStep ==
  ASSUME IInv, NEW p \in Proc, PSignal(p)
  PROVE  IInv'
<1> USE DEF IInv, TypeOK, PSignal, wakeVars
<1>1. CASE asleep[p] /\ yawc[p] \in Soft
  <2>1. ForceVSema(p, "signal")
    BY <1>1
  <2>2. /\ count' \in Int /\ count' <= 0
        /\ queue' \in Seq(Proc)
        /\ asleep' \in [Proc -> BOOLEAN] /\ sigwoke' \in [Proc -> BOOLEAN]
        /\ runq' \in [Proc -> Nat] /\ ender' \in [Proc -> {"wakeup", "signal"}]
        /\ SleepInv' /\ QueueInv' /\ WakeupNotSignal'
        /\ ToSet(queue') \subseteq ToSet(queue)
    BY <1>1, <2>1, ForceStep
  <2>3. TypeOK'
    BY <2>2
  <2>4. WalkInv' /\ WakesAllAlone'
    BY <2>2 DEF WalkInv, WakesAllAlone
  <2> QED
    BY <2>2, <2>3, <2>4
<1>2. CASE ~(asleep[p] /\ yawc[p] \in Soft)
  <2>1. UNCHANGED <<sleepVars, yawc, pc, wakeVars>>
    BY <1>2
  <2>2. TypeOK' /\ SleepInv' /\ QueueInv'
    BY <2>1 DEF SleepInv, QueueInv, sleepVars
  <2>3. WalkInv' /\ WakesAllAlone' /\ WakeupNotSignal'
    BY <2>1 DEF WalkInv, WakesAllAlone, WakeupNotSignal, sleepVars
  <2> QED
    BY <2>2, <2>3
<1> QED
  BY <1>1, <1>2

LEMMA WakeupStep ==
  ASSUME IInv, NEW c \in Chan, Wakeup(c)
  PROVE  IInv'
<1> USE DEF IInv, TypeOK, Wakeup, sleepVars, procVars
<1>1. alone' \in BOOLEAN
  OBVIOUS
<1>2. TypeOK' /\ SleepInv' /\ QueueInv'
  BY <1>1 DEF SleepInv, QueueInv
<1>3. WalkInv' /\ WakesAllAlone' /\ WakeupNotSignal'
  BY DEF WalkInv, WakesAllAlone, WakeupNotSignal
<1> QED
  BY <1>2, <1>3

LEMMA WalkStep ==
  ASSUME IInv, Walk
  PROVE  IInv'
<1> USE DEF IInv, TypeOK, Walk, sleepVars, procVars
<1>1. None \notin Proc
  BY NoneAssumption
<1>2. /\ Len(queue) \in Nat /\ DOMAIN queue = 1 .. Len(queue)
      /\ queue # << >> => queue[1] \in ToSet(queue) /\ queue[1] \in Proc
      /\ queue = << >> => ToSet(queue) = {}
  BY LenProperties, EmptySeq, ElementOfSeq DEF ToSet
<1>3. Found(wchan) = IF queue # << >> /\ yawc[queue[1]] = wchan
                     THEN queue[1] ELSE None
  BY FoundHead
<1>4. TypeOK'
  BY <1>2, <1>3
<1>5. SleepInv' /\ QueueInv' /\ WakeupNotSignal'
  BY DEF SleepInv, QueueInv, WakeupNotSignal
<1>6. WalkInv'
  BY <1>1, <1>2, <1>3 DEF WalkInv
<1>7. WakesAllAlone'
  BY <1>1, <1>2, <1>3 DEF WalkInv, WakesAllAlone
<1> QED
  BY <1>4, <1>5, <1>6, <1>7

LEMMA WakeProcStep ==
  ASSUME IInv, WakeProc
  PROVE  IInv'
<1> USE DEF IInv, TypeOK, WakeProc, procVars
<1>1. wproc \in Proc
  BY DEF WalkInv
<1>2. CASE asleep[wproc]
  <2>1. ForceVSema(wproc, "wakeup")
    BY <1>2
  <2>2. /\ count' \in Int /\ count' <= 0
        /\ queue' \in Seq(Proc)
        /\ asleep' \in [Proc -> BOOLEAN] /\ sigwoke' \in [Proc -> BOOLEAN]
        /\ runq' \in [Proc -> Nat] /\ ender' \in [Proc -> {"wakeup", "signal"}]
        /\ SleepInv' /\ QueueInv' /\ WakeupNotSignal'
        /\ ToSet(queue') \subseteq ToSet(queue)
    BY <1>1, <1>2, <2>1, ForceStep
  <2>3. TypeOK'
    BY <2>2
  <2>4. WalkInv' /\ WakesAllAlone'
    BY <2>2 DEF WalkInv, WakesAllAlone
  <2> QED
    BY <2>2, <2>3, <2>4
<1>3. CASE ~asleep[wproc]
  <2>1. TypeOK' /\ SleepInv' /\ QueueInv'
    BY <1>3 DEF SleepInv, QueueInv, sleepVars
  <2>2. WalkInv' /\ WakesAllAlone' /\ WakeupNotSignal'
    BY <1>3 DEF WalkInv, WakesAllAlone, WakeupNotSignal, sleepVars
  <2> QED
    BY <2>1, <2>2
<1> QED
  BY <1>2, <1>3

LEMMA ReturnStep ==
  ASSUME IInv, WakeupReturn
  PROVE  IInv'
<1> USE DEF IInv, TypeOK, WakeupReturn, sleepVars, procVars
<1>1. TypeOK' /\ SleepInv' /\ QueueInv'
  BY DEF SleepInv, QueueInv
<1>2. WalkInv' /\ WakesAllAlone' /\ WakeupNotSignal'
  BY DEF WalkInv, WakesAllAlone, WakeupNotSignal
<1> QED
  BY <1>1, <1>2

LEMMA StutterStep ==
  ASSUME IInv, UNCHANGED vars
  PROVE  IInv'
BY DEF IInv, TypeOK, SleepInv, QueueInv, WalkInv, WakeupNotSignal,
       WakesAllAlone, vars, sleepVars, procVars, wakeVars

-----------------------------------------------------------------------------
(* IInv is an invariant of SleepWakeup.                                    *)
THEOREM Invariance == Spec => []IInv
<1>1. IInv /\ [Next]_vars => IInv'
  <2> SUFFICES ASSUME IInv, [Next]_vars PROVE IInv'
    OBVIOUS
  <2>1. ASSUME NEW p \in Proc, PSema(p) PROVE IInv'
    BY <2>1, PSemaStep
  <2>2. ASSUME NEW p \in Proc, Resume(p) PROVE IInv'
    BY <2>2, ResumeStep
  <2>3. ASSUME NEW p \in Proc, PSignal(p) PROVE IInv'
    BY <2>3, PSignalStep
  <2>4. ASSUME NEW p \in Proc, NEW c \in Chan, Sleep(p, c) PROVE IInv'
    BY <2>4, SleepStep
  <2>5. ASSUME NEW c \in Chan, Wakeup(c) PROVE IInv'
    BY <2>5, WakeupStep
  <2>6. CASE Walk
    BY <2>6, WalkStep
  <2>7. CASE WakeProc
    BY <2>7, WakeProcStep
  <2>8. CASE WakeupReturn
    BY <2>8, ReturnStep
  <2>9. CASE UNCHANGED vars
    BY <2>9, StutterStep
  <2> QED
    BY <2>1, <2>2, <2>3, <2>4, <2>5, <2>6, <2>7, <2>8, <2>9 DEF Next
<1> QED
  BY InitInv, <1>1, PTL DEF Spec

(* Every variable keeps its type.                                          *)
THEOREM TypeCorrect == Spec => []TypeOK
<1>1. IInv => TypeOK
  BY DEF IInv
<1> QED
  BY <1>1, Invariance, PTL

(* A sleeper is on the queue and is woken once, by wakeup() or a signal.   *)
THEOREM WokenOnceCorrect == Spec => []WokenOnce
<1>1. IInv => WokenOnce
  <2> SUFFICES ASSUME IInv PROVE WokenOnce
    OBVIOUS
  <2>1. Cardinality(ToSet(queue)) = Len(queue)
    BY QueueCount DEF IInv, QueueInv
  <2>2. Len(queue) \in Nat /\ count \in Int /\ count + Len(queue) = 0
    BY LenProperties DEF IInv, TypeOK, QueueInv
  <2>3. count = -Cardinality(ToSet(queue))
    BY <2>1, <2>2
  <2> QED
    BY <2>1, <2>3 DEF IInv, SleepInv, WokenOnce
<1> QED
  BY <1>1, Invariance, PTL

(* What wakeup() made runnable does not return as if a signal had.         *)
THEOREM WakeupsPlain == Spec => []WakeupNotSignal
<1>1. IInv => WakeupNotSignal
  BY DEF IInv
<1> QED
  BY <1>1, Invariance, PTL

(* wakeup() leaves nobody asleep when all were on its channel.             *)
THEOREM AloneWoken == Spec => []WakesAllAlone
<1>1. IInv => WakesAllAlone
  BY DEF IInv
<1> QED
  BY <1>1, Invariance, PTL
=============================================================================
