---------------------------- MODULE RWSemaProofs ----------------------------
(* The reader/writer semaphores: the assertions of rwsema.c on rw_count,   *)
(* the absence of forgotten and of doubly woken waiters, and the           *)
(* refinement of RWLock, for any finite set of processes.                  *)
EXTENDS RWSema, QueueLemmas, FiniteSetTheorems

-----------------------------------------------------------------------------
(* The inductive invariant, in parts.                                      *)

WaitLabel == {"sleep", "swtch", "off"}
WakeLabel == {"wake", "wake_reader"}

Queued(p) == p \in ToSet(rdwait) \cup ToSet(wrwait)

(* Nobody is queued twice. *)
QueueInv == /\ IsQueue(rdwait, Proc) /\ IsQueue(wrwait, Proc)
            /\ ToSet(rdwait) \cap ToSet(wrwait) = {}

(* Who is queued waits for the semaphore, and has not got it. *)
WaitInv == \A p \in Proc : Queued(p) => /\ pc[p] \in WaitLabel /\ mode[p] = "none"
                                        /\ stat[p] # "SRUN"

(* Who has been picked waits too, but has got it; no other waker has it. *)
TargetInv ==
  \A a \in Proc :
    /\ tgt[a] # None <=> pc[a] \in WakeLabel
    /\ tgt[a] # None => /\ pc[tgt[a]] \in WaitLabel /\ mode[tgt[a]] # "none"
                        /\ stat[tgt[a]] # "SRUN" /\ ~Queued(tgt[a])
OneWakerInv == \A a, b \in Proc : tgt[a] # None /\ tgt[a] = tgt[b] => a = b

(* A waiter is on a queue, picked, or already runnable. *)
NotLostInv == \A p \in Proc : pc[p] \in WaitLabel /\ stat[p] # "SRUN" /\ ~Queued(p)
                              => \E a \in Proc : tgt[a] = p

(* p_stat, p_state and the run queue follow the place in the code. *)
ProcInv ==
  \A p \in Proc :
    /\ plock[p] = IF pc[p] \in {"sleep", "swtch"} THEN p ELSE None
    /\ pc[p] = "swtch" => stat[p] = "SSLEEP"
    /\ pc[p] = "off" => stat[p] \in {"SSLEEP", "SRUN"}
    /\ pc[p] \notin {"swtch", "off"} => stat[p] = "SONPROC"
    /\ stat[p] = "SRUN" => mode[p] # "none"
    /\ runq[p] = IF stat[p] = "SRUN" /\ loaded[p] THEN 1 ELSE 0

PlaceInv == QueueInv /\ WaitInv /\ TargetInv /\ OneWakerInv /\ NotLostInv

IInv == TypeOK /\ QueueInv /\ WaitInv /\ TargetInv /\ OneWakerInv /\ NotLostInv
        /\ ProcInv /\ CountMatchesHolders /\ NobodyForgotten

Waiting(p) == pc[p] \in WaitLabel /\ stat[p] # "SRUN"

USE ProcAssumption, NoneAssumption, SwapAssumption

-----------------------------------------------------------------------------
(* The queues. *)

LEMMA JoinQueue ==
  ASSUME IInv, NEW p \in Proc, ~Queued(p),
         \/ rdwait' = Append(rdwait, p) /\ wrwait' = wrwait
         \/ wrwait' = Append(wrwait, p) /\ rdwait' = rdwait
  PROVE  QueueInv' /\ \A x : Queued(x)' <=> Queued(x) \/ x = p
<1>1. IsQueue(rdwait, Proc) /\ IsQueue(wrwait, Proc)
  BY DEF IInv, QueueInv
<1>2. /\ IsQueue(Append(rdwait, p), Proc)
      /\ ToSet(Append(rdwait, p)) = ToSet(rdwait) \cup {p}
  BY <1>1, QueueAppend DEF Queued
<1>3. /\ IsQueue(Append(wrwait, p), Proc)
      /\ ToSet(Append(wrwait, p)) = ToSet(wrwait) \cup {p}
  BY <1>1, QueueAppend DEF Queued
<1> QED
  BY <1>1, <1>2, <1>3 DEF IInv, QueueInv, Queued

LEMMA LeaveQueue ==
  ASSUME IInv, NEW q,
         \/ rdwait # <<>> /\ q = Head(rdwait) /\ rdwait' = Tail(rdwait) /\ wrwait' = wrwait
         \/ wrwait # <<>> /\ q = Head(wrwait) /\ wrwait' = Tail(wrwait) /\ rdwait' = rdwait
  PROVE  /\ q \in Proc /\ Queued(q) /\ QueueInv'
         /\ \A x : Queued(x)' <=> Queued(x) /\ x # q
<1>1. /\ IsQueue(rdwait, Proc) /\ IsQueue(wrwait, Proc)
      /\ ToSet(rdwait) \cap ToSet(wrwait) = {}
  BY DEF IInv, QueueInv
<1>2. ASSUME rdwait # <<>>
      PROVE  /\ IsQueue(Tail(rdwait), Proc) /\ Head(rdwait) \in ToSet(rdwait) \cap Proc
             /\ ToSet(Tail(rdwait)) = ToSet(rdwait) \ {Head(rdwait)}
  <2>1. Len(rdwait) > 0
    BY <1>1, <1>2, EmptySeq, LenProperties DEF IsQueue
  <2> QED
    BY <1>1, <2>1, QueueTail
<1>3. ASSUME wrwait # <<>>
      PROVE  /\ IsQueue(Tail(wrwait), Proc) /\ Head(wrwait) \in ToSet(wrwait) \cap Proc
             /\ ToSet(Tail(wrwait)) = ToSet(wrwait) \ {Head(wrwait)}
  <2>1. Len(wrwait) > 0
    BY <1>1, <1>3, EmptySeq, LenProperties DEF IsQueue
  <2> QED
    BY <1>1, <2>1, QueueTail
<1> QED
  BY <1>1, <1>2, <1>3 DEF QueueInv, Queued

-----------------------------------------------------------------------------
(* The part of the invariant about the queues and the wakers.  It survives *)
(* a step that leaves the queues, the waiters and the wakers alone.        *)
LEMMA PlaceFrame ==
  ASSUME IInv, UNCHANGED <<rdwait, wrwait, tgt>>,
         \A p \in Proc : Waiting(p)' <=> Waiting(p),
         \A p \in Proc : Waiting(p) => mode'[p] = mode[p],
         \A a \in Proc : pc'[a] \in WakeLabel <=> pc[a] \in WakeLabel
  PROVE  PlaceInv'
<1>1. \A p : Queued(p)' <=> Queued(p)
  BY DEF Queued
<1>2. QueueInv'
  BY DEF IInv, QueueInv
<1>3. WaitInv'
  BY <1>1 DEF IInv, WaitInv, Waiting
<1>4. TargetInv'
  BY <1>1 DEF IInv, TypeOK, TargetInv, Waiting
<1>5. OneWakerInv'
  BY DEF IInv, OneWakerInv
<1>6. NotLostInv'
  BY <1>1 DEF IInv, NotLostInv, Waiting
<1> QED
  BY <1>2, <1>3, <1>4, <1>5, <1>6 DEF PlaceInv

(* p joins a queue. *)
LEMMA PlaceJoin ==
  ASSUME IInv, NEW p \in Proc, pc[p] = "run", mode[p] = "none",
         \/ rdwait' = Append(rdwait, p) /\ wrwait' = wrwait
         \/ wrwait' = Append(wrwait, p) /\ rdwait' = rdwait,
         pc' = [pc EXCEPT ![p] = "sleep"],
         UNCHANGED <<stat, mode, tgt>>
  PROVE  PlaceInv'
<1>1. ~Queued(p) /\ \A a \in Proc : tgt[a] # p
  BY DEF IInv, WaitInv, TargetInv, WaitLabel
<1>2. QueueInv' /\ \A x : Queued(x)' <=> Queued(x) \/ x = p
  BY <1>1, JoinQueue
<1>3. \A x \in Proc : pc'[x] = IF x = p THEN "sleep" ELSE pc[x]
  BY DEF IInv, TypeOK
<1>4. stat[p] = "SONPROC"
  BY DEF IInv, ProcInv
<1>5. WaitInv'
  BY <1>2, <1>3, <1>4 DEF IInv, WaitInv, WaitLabel
<1>6. TargetInv'
  BY <1>1, <1>2, <1>3 DEF IInv, TypeOK, TargetInv, WaitLabel, WakeLabel
<1>7. OneWakerInv'
  BY DEF IInv, OneWakerInv
<1>8. NotLostInv'
  BY <1>2, <1>3 DEF IInv, NotLostInv
<1> QED
  BY <1>2, <1>5, <1>6, <1>7, <1>8 DEF PlaceInv

(* a picks q, the head of a queue, and gives it the semaphore. *)
LEMMA PlacePick ==
  ASSUME IInv, NEW a \in Proc, NEW q \in Proc, pc[a] \in {"run", "loop"},
         Queued(q), QueueInv', \A x : Queued(x)' <=> Queued(x) /\ x # q,
         tgt'[a] = q, \A x \in Proc \ {a} : tgt'[x] = tgt[x],
         pc'[a] \in WakeLabel, \A x \in Proc \ {a} : pc'[x] = pc[x],
         mode'[q] # "none", \A x \in Proc \ {a} : x # q => mode'[x] = mode[x],
         UNCHANGED stat
  PROVE  PlaceInv'
<1>1. q \in Proc /\ Queued(q) /\ QueueInv' /\ \A x : Queued(x)' <=> Queued(x) /\ x # q
  OBVIOUS
<1>2. Waiting(q) /\ \A b \in Proc : tgt[b] # q
  BY <1>1 DEF IInv, WaitInv, TargetInv, Waiting
<1>3. /\ \A x \in Proc : tgt'[x] = IF x = a THEN q ELSE tgt[x]
      /\ \A x \in Proc : x # a => pc'[x] = pc[x]
  BY DEF IInv, TypeOK
<1>4. \A x \in Proc : Waiting(x)' <=> Waiting(x)
  BY <1>3 DEF Waiting, WaitLabel, WakeLabel
<1>5. ~Waiting(a) /\ q # a
  BY <1>2 DEF Waiting, WaitLabel
<1>6. WaitInv'
  BY <1>1, <1>4, <1>5 DEF IInv, WaitInv, Waiting
<1>7. TargetInv'
  <2>1. ASSUME NEW b \in Proc PROVE tgt'[b] # None <=> pc'[b] \in WakeLabel
    BY <1>1, <1>3 DEF IInv, TargetInv, WakeLabel
  <2>2. ASSUME NEW b \in Proc, NEW x, x = tgt'[b], x # None
        PROVE  Waiting(x)' /\ mode'[x] # "none" /\ ~Queued(x)'
    <3>1. CASE b = a
      BY <2>2, <3>1, <1>1, <1>2, <1>3, <1>4, <1>5
    <3>2. CASE b # a
      <4>1. x = tgt[b]
        BY <2>2, <3>2, <1>3
      <4>2. x \in Proc /\ Waiting(x) /\ mode[x] # "none" /\ ~Queued(x)
        BY <2>2, <4>1 DEF IInv, TypeOK, TargetInv, Waiting
      <4> QED
        BY <4>1, <4>2, <1>1, <1>2, <1>4, <1>5
    <3> QED
      BY <3>1, <3>2
  <2> QED
    BY <2>1, <2>2 DEF TargetInv, Waiting
<1>8. OneWakerInv'
  BY <1>1, <1>2, <1>3 DEF IInv, OneWakerInv
<1>9. NotLostInv'
  <2>1. tgt[a] = None
    BY DEF IInv, TargetInv, WakeLabel
  <2>2. SUFFICES ASSUME NEW x \in Proc, Waiting(x), ~Queued(x)'
                 PROVE  \E b \in Proc : tgt'[b] = x
    BY <1>4 DEF NotLostInv, Waiting
  <2>3. CASE x = q
    BY <2>3, <1>3
  <2>4. CASE x # q
    <3>1. PICK b \in Proc : tgt[b] = x
      BY <2>2, <2>4, <1>1 DEF IInv, NotLostInv, Waiting
    <3> QED
      BY <3>1, <2>1, <1>3
  <2> QED
    BY <2>3, <2>4
<1> QED
  BY <1>1, <1>6, <1>7, <1>8, <1>9 DEF PlaceInv

-----------------------------------------------------------------------------
(* rw_count and the holders. *)

LEMMA HoldersFinite ==
  ASSUME TypeOK
  PROVE  /\ IsFiniteSet(Holders("read"))
         /\ Cardinality(Holders("read")) \in Nat
         /\ Cardinality(Holders("read")) = 0 <=> Holders("read") = {}
<1>1. Holders("read") \subseteq Proc
  BY DEF Holders
<1>2. IsFiniteSet(Holders("read"))
  BY <1>1, FS_Subset
<1> QED
  BY <1>2, FS_CardinalityType, FS_EmptySet

(* What rw_count says about the holders. *)
LEMMA CountMeaning ==
  ASSUME IInv
  PROVE  /\ count >= 0 <=> Holders("write") = {}
         /\ count = 0 <=> Holders("read") \cup Holders("write") = {}
         /\ count >= 0 => count = Cardinality(Holders("read"))
         /\ count < 0 => count = -1 /\ Holders("read") = {}
         /\ \A p \in Proc : mode[p] = "write" => count = -1 /\ Holders("write") = {p}
         /\ \A p \in Proc : mode[p] = "read" =>
              count > 0 /\ (count = 1 <=> Holders("read") = {p})
<1>1. TypeOK /\ CountMatchesHolders
  BY DEF IInv
<1>2. /\ Cardinality(Holders("read")) \in Nat
      /\ Cardinality(Holders("read")) = 0 <=> Holders("read") = {}
  BY <1>1, HoldersFinite
<1>3. \A p \in Proc : mode[p] = "write" <=> p \in Holders("write")
  BY DEF Holders
<1>4. \A p \in Proc : mode[p] = "read" <=> p \in Holders("read")
  BY DEF Holders
<1>5. Cardinality(Holders("read")) = 1 <=> \E x : Holders("read") = {x}
  BY <1>1, HoldersFinite, FS_Singleton
<1> QED
  BY <1>1, <1>2, <1>3, <1>4, <1>5 DEF CountMatchesHolders

(* One process takes or leaves the semaphore. *)
LEMMA ModeOfOne ==
  ASSUME IInv, NEW p \in Proc, NEW m, mode' = [mode EXCEPT ![p] = m]
  PROVE  /\ Holders("read")' = IF m = "read" THEN Holders("read") \cup {p}
                                             ELSE Holders("read") \ {p}
         /\ Holders("write")' = IF m = "write" THEN Holders("write") \cup {p}
                                               ELSE Holders("write") \ {p}
<1>1. \A x \in Proc : mode'[x] = IF x = p THEN m ELSE mode[x]
  BY DEF IInv, TypeOK
<1> QED
  BY <1>1 DEF Holders

(* p leaves it to q. *)
LEMMA ModeOfTwo ==
  ASSUME IInv, NEW p \in Proc, NEW q \in Proc, p # q, NEW m \in {"read", "write"},
         mode' = [mode EXCEPT ![p] = "none", ![q] = m]
  PROVE  /\ \A x \in Proc \ {p} : mode'[x] = IF x = q THEN m ELSE mode[x]
         /\ Holders("read")' = IF m = "read" THEN (Holders("read") \ {p}) \cup {q}
                                             ELSE Holders("read") \ {p, q}
         /\ Holders("write")' = IF m = "write" THEN (Holders("write") \ {p}) \cup {q}
                                               ELSE Holders("write") \ {p, q}
<1>1. \A x \in Proc : mode'[x] = IF x = q THEN m ELSE IF x = p THEN "none" ELSE mode[x]
  BY DEF IInv, TypeOK
<1>2. \A x \in Proc \ {p} : mode'[x] = IF x = q THEN m ELSE mode[x]
  BY <1>1
<1>3. ASSUME NEW k \in {"read", "write"}
      PROVE  Holders(k)' = IF m = k THEN (Holders(k) \ {p}) \cup {q}
                                    ELSE Holders(k) \ {p, q}
  <2>1. k # "none"
    BY <1>3
  <2>2. CASE m = k
    <3>1. \A x \in Proc : mode'[x] = k <=> x = q \/ (x # p /\ mode[x] = k)
      BY <1>1, <2>1, <2>2
    <3> QED
      BY <3>1, <2>2 DEF Holders
  <2>3. CASE m # k
    <3>1. \A x \in Proc : mode'[x] = k <=> x # q /\ x # p /\ mode[x] = k
      BY <1>1, <2>1, <2>3
    <3> QED
      BY <3>1, <2>3 DEF Holders
  <2> QED
    BY <2>2, <2>3
<1> QED
  BY <1>2, <1>3

(* Assertions about rw_count survive when it follows the holders. *)
LEMMA CountReader ==
  ASSUME IInv, NEW q \in Proc, mode[q] = "none", count >= 0, count' = count + 1,
         mode' = [mode EXCEPT ![q] = "read"]
  PROVE  /\ CountMatchesHolders'
         /\ Holders("read")' = Holders("read") \cup {q}
         /\ Holders("write")' = {} /\ Holders("write") = {}
<1>1. Holders("write") = {} /\ count = Cardinality(Holders("read"))
  BY CountMeaning
<1>2. Holders("read")' = Holders("read") \cup {q} /\ Holders("write")' = {}
  BY <1>1, ModeOfOne
<1>3. q \notin Holders("read")
  BY DEF Holders
<1>4. IsFiniteSet(Holders("read"))
  BY HoldersFinite DEF IInv
<1>5. Cardinality(Holders("read") \cup {q}) = Cardinality(Holders("read")) + 1
  BY <1>3, <1>4, FS_AddElement
<1> QED
  BY <1>1, <1>2, <1>5 DEF CountMatchesHolders

LEMMA CountWriter ==
  ASSUME IInv, NEW q \in Proc, count = 0, count' = -1,
         mode' = [mode EXCEPT ![q] = "write"]
  PROVE  /\ CountMatchesHolders'
         /\ Holders("read") \cup Holders("write") = {}
         /\ Holders("read")' = {} /\ Holders("write")' = {q}
<1>1. Holders("read") = {} /\ Holders("write") = {}
  BY CountMeaning
<1>2. Holders("read")' = {} /\ Holders("write")' = {q}
  BY <1>1, ModeOfOne
<1> QED
  BY <1>1, <1>2 DEF CountMatchesHolders

LEMMA CountReaderOut ==
  ASSUME IInv, NEW p \in Proc, mode[p] = "read", count' = count - 1,
         mode' = [mode EXCEPT ![p] = "none"]
  PROVE  /\ CountMatchesHolders'
         /\ Holders("read")' = Holders("read") \ {p}
         /\ Holders("write")' = {} /\ Holders("write") = {}
<1>1. Holders("write") = {} /\ count = Cardinality(Holders("read")) /\ count > 0
  BY CountMeaning DEF IInv, TypeOK
<1>2. Holders("read")' = Holders("read") \ {p} /\ Holders("write")' = {}
  <2>1. /\ Holders("read")' = Holders("read") \ {p}
        /\ Holders("write")' = Holders("write") \ {p}
    <3>1. \A x \in Proc : mode'[x] = IF x = p THEN "none" ELSE mode[x]
      BY DEF IInv, TypeOK
    <3> QED
      BY <3>1 DEF Holders
  <2> QED
    BY <2>1, <1>1
<1>3. p \in Holders("read") /\ IsFiniteSet(Holders("read"))
  BY HoldersFinite DEF IInv, Holders
<1>4. Cardinality(Holders("read") \ {p}) = Cardinality(Holders("read")) - 1
  BY <1>3, FS_RemoveElement
<1> QED
  BY <1>1, <1>2, <1>4 DEF CountMatchesHolders

(* The last holder p is followed by q, or by nobody. *)
LEMMA CountPass ==
  ASSUME IInv, NEW p \in Proc, NEW q \in Proc, p # q, NEW m \in {"read", "write"},
         mode[p] = "write" \/ (mode[p] = "read" /\ count = 1),
         mode' = [mode EXCEPT ![p] = "none", ![q] = m],
         count' = IF m = "read" THEN 1 ELSE -1
  PROVE  /\ CountMatchesHolders'
         /\ Holders("read") \cup Holders("write") = {p}
         /\ Holders("read")' = IF m = "read" THEN {q} ELSE {}
         /\ Holders("write")' = IF m = "write" THEN {q} ELSE {}
<1>1. Holders("read") \cup Holders("write") = {p}
  BY CountMeaning
<1>2. /\ Holders("read")' = IF m = "read" THEN {q} ELSE {}
      /\ Holders("write")' = IF m = "write" THEN {q} ELSE {}
  <2>1. CASE m = "read"
    <3>1. /\ Holders("read")' = (Holders("read") \ {p}) \cup {q}
          /\ Holders("write")' = Holders("write") \ {p, q}
      BY <2>1, ModeOfTwo
    <3> QED
      BY <3>1, <2>1, <1>1
  <2>2. CASE m = "write"
    <3>1. /\ Holders("read")' = Holders("read") \ {p, q}
          /\ Holders("write")' = (Holders("write") \ {p}) \cup {q}
      BY <2>2, ModeOfTwo
    <3> QED
      BY <3>1, <2>2, <1>1
  <2> QED
    BY <2>1, <2>2
<1>3. Cardinality({q}) = 1
  BY FS_Singleton
<1> QED
  BY <1>1, <1>2, <1>3 DEF CountMatchesHolders

LEMMA CountIdle ==
  ASSUME IInv, NEW p \in Proc, mode[p] = "write", count' = 0,
         mode' = [mode EXCEPT ![p] = "none"]
  PROVE  /\ CountMatchesHolders'
         /\ Holders("read")' = {} /\ Holders("read") = {}
         /\ Holders("write")' = {} /\ Holders("write") = {p}
<1>1. Holders("read") = {} /\ Holders("write") = {p}
  BY CountMeaning
<1>2. Holders("read")' = {} /\ Holders("write")' = {}
  <2>1. /\ Holders("read")' = Holders("read") \ {p}
        /\ Holders("write")' = Holders("write") \ {p}
    <3>1. \A x \in Proc : mode'[x] = IF x = p THEN "none" ELSE mode[x]
      BY DEF IInv, TypeOK
    <3> QED
      BY <3>1 DEF Holders
  <2> QED
    BY <2>1, <1>1
<1>3. Cardinality({}) = 0
  BY FS_EmptySet
<1> QED
  BY <1>1, <1>2, <1>3 DEF CountMatchesHolders

LEMMA CountFrame ==
  ASSUME IInv, UNCHANGED <<count, mode>>
  PROVE  /\ CountMatchesHolders'
         /\ Holders("read")' = Holders("read") /\ Holders("write")' = Holders("write")
<1>1. Holders("read")' = Holders("read") /\ Holders("write")' = Holders("write")
  BY DEF Holders
<1> QED
  BY <1>1 DEF IInv, CountMatchesHolders

-----------------------------------------------------------------------------
(* One lemma per action: a step keeps the invariant. *)

(* The target of p is made runnable: nobody has it any longer. *)
LEMMA PlaceWake ==
  ASSUME IInv, NEW p \in Proc, NEW label \in {"run", "look"},
         pc[p] \in WakeLabel, tgt[p] \in Proc, ~Queued(tgt[p]), pc[tgt[p]] = "off",
         stat' = [stat EXCEPT ![tgt[p]] = "SRUN"],
         tgt' = [tgt EXCEPT ![p] = None],
         pc' = [pc EXCEPT ![p] = label],
         UNCHANGED <<rdwait, wrwait, mode>>
  PROVE  PlaceInv'
<1> DEFINE q == tgt[p]
<1>1. /\ \A x \in Proc : tgt'[x] = IF x = p THEN None ELSE tgt[x]
      /\ \A x \in Proc : pc'[x] = IF x = p THEN label ELSE pc[x]
      /\ \A x \in Proc : stat'[x] = IF x = q THEN "SRUN" ELSE stat[x]
  BY DEF IInv, TypeOK
<1>2. q \in Proc /\ q # None /\ q # p /\ \A a \in Proc : a # p => tgt[a] # q
  BY DEF IInv, OneWakerInv, WakeLabel
<1>3. \A x : Queued(x)' <=> Queued(x)
  BY DEF Queued
<1>4. \A x \in Proc : Waiting(x)' <=> Waiting(x) /\ x # q
  BY <1>1, <1>2 DEF Waiting, WaitLabel, WakeLabel
<1>5. QueueInv'
  BY DEF IInv, QueueInv
<1>6. WaitInv'
  BY <1>3, <1>4 DEF IInv, WaitInv, Waiting
<1>7. TargetInv'
  <2>1. ASSUME NEW b \in Proc PROVE tgt'[b] # None <=> pc'[b] \in WakeLabel
    BY <1>1, <1>2 DEF IInv, TargetInv, WakeLabel
  <2>2. ASSUME NEW b \in Proc, NEW x, x = tgt'[b], x # None
        PROVE  Waiting(x)' /\ mode'[x] # "none" /\ ~Queued(x)'
    <3>1. b # p /\ x = tgt[b] /\ x # q
      BY <2>2, <1>1, <1>2
    <3>2. x \in Proc /\ Waiting(x) /\ mode[x] # "none" /\ ~Queued(x)
      BY <2>2, <3>1 DEF IInv, TypeOK, TargetInv, Waiting
    <3> QED
      BY <3>1, <3>2, <1>3, <1>4
  <2> QED
    BY <2>1, <2>2 DEF TargetInv, Waiting
<1>8. OneWakerInv'
  BY <1>1 DEF IInv, OneWakerInv
<1>9. NotLostInv'
  <2>1. SUFFICES ASSUME NEW x \in Proc, Waiting(x)', ~Queued(x)'
                 PROVE  \E b \in Proc : tgt'[b] = x
    BY DEF NotLostInv, Waiting
  <2>2. PICK b \in Proc : tgt[b] = x
    BY <2>1, <1>3, <1>4 DEF IInv, NotLostInv, Waiting
  <2>3. x # q
    BY <2>1, <1>4
  <2> QED
    BY <2>2, <2>3, <1>1
<1> QED
  BY <1>5, <1>6, <1>7, <1>8, <1>9 DEF PlaceInv

LEMMA ReleaseType ==
  ASSUME TypeOK, NEW l \in Lock \cup {None}, Release(l)
  PROVE  spin' \in [Lock -> Proc \cup {None}]
<1>1. CASE l = None
  BY <1>1 DEF TypeOK, Release
<1>2. CASE l # None
  <2>1. l \in Lock /\ spin' = [spin EXCEPT ![l] = None]
    BY <1>2 DEF Release
  <2> QED
    BY <2>1 DEF TypeOK
<1> QED
  BY <1>1, <1>2

(* p_reader(): entered, or on rw_rdwait. *)
LEMMA PReaderStep ==
  ASSUME IInv, NEW p \in Proc, NEW l \in Lock \cup {None}, PReader(p, l)
  PROVE  IInv'
<1>1. CASE ReadOK
  <2>1. /\ pc[p] = "run" /\ mode[p] = "none"
        /\ count >= 0 /\ count' = count + 1
        /\ mode' = [mode EXCEPT ![p] = "read"]
        /\ UNCHANGED <<policy, rdwait, wrwait, plock, stat, loaded, runq, pc, arg, tgt>>
    BY <1>1 DEF IInv, TypeOK, ReadOK, PReader, MayEnter, Enter, runVars
  <2>2. spin' \in [Lock -> Proc \cup {None}]
    BY <1>1, ReleaseType DEF IInv, PReader, Enter
  <2>3. PlaceInv'
    BY <2>1, <2>2, PlaceFrame DEF IInv, TypeOK, ProcInv, Waiting, WaitLabel, WakeLabel
  <2>4. rdwait' \in Seq(Proc) /\ wrwait' \in Seq(Proc)
    BY <2>3 DEF PlaceInv, QueueInv, IsQueue
  <2>5. TypeOK'
    BY <2>1, <2>2, <2>4 DEF IInv, TypeOK, Label
  <2>6. ProcInv'
    BY <2>1, <2>2 DEF IInv, TypeOK, ProcInv
  <2>7. CountMatchesHolders'
    BY <1>1, <2>1, <2>2, CountReader
  <2>8. NobodyForgotten'
    BY <1>1, <2>1, <2>2, CountMeaning DEF IInv, TypeOK, NobodyForgotten, Strong, ReadOK
  <2> QED
    BY <2>3, <2>5, <2>6, <2>7, <2>8 DEF PlaceInv, IInv
<1>2. CASE ~ReadOK
  <2>1. /\ pc[p] = "run" /\ mode[p] = "none"
        /\ rdwait' = Append(rdwait, p)
        /\ plock' = [plock EXCEPT ![p] = p]
        /\ arg' = [arg EXCEPT ![p] = l]
        /\ pc' = [pc EXCEPT ![p] = "sleep"]
        /\ UNCHANGED <<policy, count, wrwait, spin, stat, loaded, runq, tgt, mode>>
    BY <1>2 DEF PReader, MayEnter, Block, Goto, runVars
  <2>2. PlaceInv'
    BY <2>1, PlaceJoin
  <2>3. rdwait' \in Seq(Proc) /\ wrwait' \in Seq(Proc)
    BY <2>2 DEF PlaceInv, QueueInv, IsQueue
  <2>4. TypeOK'
    BY <2>1, <2>3 DEF IInv, TypeOK, Label
  <2>5. ProcInv'
    BY <2>1 DEF IInv, TypeOK, ProcInv
  <2>6. CountMatchesHolders'
    BY <2>1, CountFrame
  <2>7. NobodyForgotten'
    BY <1>2, <2>1 DEF IInv, TypeOK, NobodyForgotten, Strong, ReadOK
  <2> QED
    BY <2>2, <2>4, <2>5, <2>6, <2>7 DEF PlaceInv, IInv
<1> QED
  BY <1>1, <1>2

(* p_writer(): entered, or on rw_wrwait. *)
LEMMA PWriterStep ==
  ASSUME IInv, NEW p \in Proc, NEW l \in Lock \cup {None}, PWriter(p, l)
  PROVE  IInv'
<1>1. CASE count = 0
  <2>1. /\ pc[p] = "run" /\ mode[p] = "none"
        /\ count' = -1
        /\ mode' = [mode EXCEPT ![p] = "write"]
        /\ UNCHANGED <<policy, rdwait, wrwait, plock, stat, loaded, runq, pc, arg, tgt>>
    BY <1>1 DEF IInv, TypeOK, ReadOK, PWriter, MayEnter, Enter, runVars
  <2>2. spin' \in [Lock -> Proc \cup {None}]
    BY <1>1, ReleaseType DEF IInv, PWriter, Enter
  <2>3. PlaceInv'
    BY <2>1, <2>2, PlaceFrame DEF IInv, TypeOK, ProcInv, Waiting, WaitLabel, WakeLabel
  <2>4. rdwait' \in Seq(Proc) /\ wrwait' \in Seq(Proc)
    BY <2>3 DEF PlaceInv, QueueInv, IsQueue
  <2>5. TypeOK'
    BY <2>1, <2>2, <2>4 DEF IInv, TypeOK, Label
  <2>6. ProcInv'
    BY <2>1, <2>2 DEF IInv, TypeOK, ProcInv
  <2>7. CountMatchesHolders'
    BY <1>1, <2>1, <2>2, CountWriter
  <2>8. NobodyForgotten'
    BY <1>1, <2>1, <2>2, CountMeaning DEF IInv, TypeOK, NobodyForgotten, Strong, ReadOK
  <2> QED
    BY <2>3, <2>5, <2>6, <2>7, <2>8 DEF PlaceInv, IInv
<1>2. CASE count # 0
  <2>1. /\ pc[p] = "run" /\ mode[p] = "none"
        /\ wrwait' = Append(wrwait, p)
        /\ plock' = [plock EXCEPT ![p] = p]
        /\ arg' = [arg EXCEPT ![p] = l]
        /\ pc' = [pc EXCEPT ![p] = "sleep"]
        /\ UNCHANGED <<policy, count, rdwait, spin, stat, loaded, runq, tgt, mode>>
    BY <1>2 DEF PWriter, MayEnter, Block, Goto, runVars
  <2>2. PlaceInv'
    BY <2>1, PlaceJoin
  <2>3. rdwait' \in Seq(Proc) /\ wrwait' \in Seq(Proc)
    BY <2>2 DEF PlaceInv, QueueInv, IsQueue
  <2>4. TypeOK'
    BY <2>1, <2>3 DEF IInv, TypeOK, Label
  <2>5. ProcInv'
    BY <2>1 DEF IInv, TypeOK, ProcInv
  <2>6. CountMatchesHolders'
    BY <2>1, CountFrame
  <2>7. NobodyForgotten'
    BY SMTT(60), <1>2, <2>1 DEF IInv, TypeOK, NobodyForgotten, Strong
  <2> QED
    BY <2>2, <2>4, <2>5, <2>6, <2>7 DEF PlaceInv, IInv
<1> QED
  BY <1>1, <1>2

(* cp_reader(), cp_writer() *)
LEMMA CPReaderStep ==
  ASSUME IInv, NEW p \in Proc, CPReader(p)
  PROVE  IInv'
<1>1. /\ pc[p] = "run" /\ mode[p] = "none"
      /\ ReadOK
      /\ count >= 0 /\ count' = count + 1
      /\ mode' = [mode EXCEPT ![p] = "read"]
      /\ UNCHANGED <<policy, rdwait, wrwait, plock, spin, stat, loaded, runq, pc,
           arg, tgt>>
  BY DEF CPReader, ReadOK, runVars
<1>2. PlaceInv'
  BY <1>1, PlaceFrame DEF IInv, TypeOK, ProcInv, Waiting, WaitLabel, WakeLabel
<1>3. rdwait' \in Seq(Proc) /\ wrwait' \in Seq(Proc)
  BY <1>2 DEF PlaceInv, QueueInv, IsQueue
<1>4. TypeOK'
  BY <1>1, <1>3 DEF IInv, TypeOK, Label
<1>5. ProcInv'
  BY <1>1 DEF IInv, TypeOK, ProcInv
<1>6. CountMatchesHolders'
  BY <1>1, CountReader
<1>7. NobodyForgotten'
  BY <1>1, CountMeaning DEF IInv, TypeOK, NobodyForgotten, Strong, ReadOK
<1> QED
  BY <1>2, <1>4, <1>5, <1>6, <1>7 DEF PlaceInv, IInv

LEMMA CPWriterStep ==
  ASSUME IInv, NEW p \in Proc, CPWriter(p)
  PROVE  IInv'
<1>1. /\ pc[p] = "run" /\ mode[p] = "none"
      /\ count = 0 /\ count' = -1
      /\ mode' = [mode EXCEPT ![p] = "write"]
      /\ UNCHANGED <<policy, rdwait, wrwait, plock, spin, stat, loaded, runq, pc,
           arg, tgt>>
  BY DEF CPWriter, runVars
<1>2. PlaceInv'
  BY <1>1, PlaceFrame DEF IInv, TypeOK, ProcInv, Waiting, WaitLabel, WakeLabel
<1>3. rdwait' \in Seq(Proc) /\ wrwait' \in Seq(Proc)
  BY <1>2 DEF PlaceInv, QueueInv, IsQueue
<1>4. TypeOK'
  BY <1>1, <1>3 DEF IInv, TypeOK, Label
<1>5. ProcInv'
  BY <1>1 DEF IInv, TypeOK, ProcInv
<1>6. CountMatchesHolders'
  BY <1>1, CountWriter
<1>7. NobodyForgotten'
  BY <1>1, CountMeaning DEF IInv, TypeOK, NobodyForgotten, Strong, ReadOK
<1> QED
  BY <1>2, <1>4, <1>5, <1>6, <1>7 DEF PlaceInv, IInv

(* The rest of rwsema_block(). *)
LEMMA SleepStep ==
  ASSUME IInv, NEW p \in Proc, Sleep(p)
  PROVE  IInv'
<1>1. /\ pc[p] = "sleep"
      /\ arg' = [arg EXCEPT ![p] = None]
      /\ stat' = [stat EXCEPT ![p] = "SSLEEP"]
      /\ pc' = [pc EXCEPT ![p] = "swtch"]
      /\ UNCHANGED <<policy, count, rdwait, wrwait, plock, loaded, runq, tgt, mode>>
  BY DEF Sleep, Goto, semaVars
<1>2. spin' \in [Lock -> Proc \cup {None}]
  BY ReleaseType DEF IInv, TypeOK, Sleep
<1>3. PlaceInv'
  BY <1>1, <1>2, PlaceFrame DEF IInv, TypeOK, ProcInv, Waiting, WaitLabel, WakeLabel
<1>4. rdwait' \in Seq(Proc) /\ wrwait' \in Seq(Proc)
  BY <1>3 DEF PlaceInv, QueueInv, IsQueue
<1>5. TypeOK'
  BY <1>1, <1>2, <1>4 DEF IInv, TypeOK, Label
<1>6. ProcInv'
  BY <1>1, <1>2 DEF IInv, TypeOK, ProcInv
<1>7. CountMatchesHolders'
  BY <1>1, <1>2, CountFrame
<1>8. NobodyForgotten'
  BY <1>1, <1>2 DEF IInv, TypeOK, NobodyForgotten, Strong
<1> QED
  BY <1>3, <1>5, <1>6, <1>7, <1>8 DEF PlaceInv, IInv

LEMMA SwtchStep ==
  ASSUME IInv, NEW p \in Proc, Swtch(p)
  PROVE  IInv'
<1>1. /\ pc[p] = "swtch"
      /\ plock' = [plock EXCEPT ![p] = None]
      /\ pc' = [pc EXCEPT ![p] = "off"]
      /\ UNCHANGED <<policy, count, rdwait, wrwait, spin, stat, loaded, runq, arg,
           tgt, mode>>
  BY DEF Swtch, Goto, semaVars, runVars
<1>2. PlaceInv'
  BY <1>1, PlaceFrame DEF IInv, TypeOK, ProcInv, Waiting, WaitLabel, WakeLabel
<1>3. rdwait' \in Seq(Proc) /\ wrwait' \in Seq(Proc)
  BY <1>2 DEF PlaceInv, QueueInv, IsQueue
<1>4. TypeOK'
  BY <1>1, <1>3 DEF IInv, TypeOK, Label
<1>5. ProcInv'
  BY <1>1 DEF IInv, TypeOK, ProcInv
<1>6. CountMatchesHolders'
  BY <1>1, CountFrame
<1>7. NobodyForgotten'
  BY <1>1 DEF IInv, TypeOK, NobodyForgotten, Strong
<1> QED
  BY <1>2, <1>4, <1>5, <1>6, <1>7 DEF PlaceInv, IInv

(* v_reader(): the last one out lets a writer in. *)
LEMMA VReaderStep ==
  ASSUME IInv, NEW p \in Proc, VReader(p)
  PROVE  IInv'
<1>1. CASE count = 1 /\ wrwait # <<>>
  <2>1. /\ pc[p] = "run" /\ mode[p] = "read"
        /\ wrwait # <<>> /\ wrwait' = Tail(wrwait)
        /\ tgt' = [tgt EXCEPT ![p] = Head(wrwait)]
        /\ mode' = [mode EXCEPT ![p] = "none", ![Head(wrwait)] = "write"]
        /\ pc' = [pc EXCEPT ![p] = "wake"]
        /\ count' = -1
        /\ UNCHANGED <<policy, rdwait, plock, spin, stat, loaded, runq, arg>>
    BY <1>1 DEF VReader, Pick, Goto, runVars
  <2>2. PICK q \in Proc : /\ q = Head(wrwait) /\ Queued(q) /\ QueueInv'
                          /\ \A x : Queued(x)' <=> Queued(x) /\ x # q
    BY <2>1, LeaveQueue
  <2>3. q # p /\ mode[q] = "none"
    BY <2>1, <2>2 DEF IInv, WaitInv, WaitLabel
  <2>4. /\ mode' = [mode EXCEPT ![p] = "none", ![q] = "write"]
        /\ tgt' = [tgt EXCEPT ![p] = q]
    BY <2>1, <2>2
  <2>5. /\ tgt' \in [Proc -> Proc \cup {None}]
        /\ mode' \in [Proc -> {"none", "read", "write"}]
    BY <2>4 DEF IInv, TypeOK
  <2>6. tgt'[p] = q /\ (\A x \in Proc \ {p} : tgt'[x] = tgt[x])
    BY <2>4 DEF IInv, TypeOK
  <2>7. pc'[p] \in WakeLabel /\ (\A x \in Proc \ {p} : pc'[x] = pc[x])
    BY <2>1 DEF IInv, TypeOK, WakeLabel
  <2>8. /\ UNCHANGED <<policy, plock, spin, stat, loaded, runq, arg>>
        /\ count' \in Int /\ pc' \in [Proc -> Label]
    BY <2>1 DEF IInv, TypeOK, Label
  <2>9. mode'[q] # "none" /\ (\A x \in Proc \ {p} : x # q => mode'[x] = mode[x])
    BY <2>4 DEF IInv, TypeOK
  <2>10. PlaceInv'
    BY <2>1, <2>2, <2>6, <2>7, <2>9, PlacePick
  <2>11. rdwait' \in Seq(Proc) /\ wrwait' \in Seq(Proc)
    BY <2>10 DEF PlaceInv, QueueInv, IsQueue
  <2>12. TypeOK'
    BY <2>5, <2>8, <2>11 DEF IInv, TypeOK, Label
  <2>13. ProcInv'
    BY <2>1, <2>2, <2>3, <2>7, <2>9 DEF IInv, TypeOK, ProcInv
  <2>14. CountMatchesHolders'
    BY <1>1, <2>1, <2>2, <2>3, <2>4, CountPass
  <2>15. NobodyForgotten'
    BY <1>1, <2>1 DEF IInv, TypeOK, NobodyForgotten
  <2> QED
    BY <2>10, <2>12, <2>13, <2>14, <2>15 DEF PlaceInv, IInv
<1>2. CASE ~(count = 1 /\ wrwait # <<>>)
  <2>1. /\ pc[p] = "run" /\ mode[p] = "read"
        /\ count' = count - 1
        /\ mode' = [mode EXCEPT ![p] = "none"]
        /\ UNCHANGED <<policy, rdwait, wrwait, plock, spin, stat, loaded, runq, pc,
             arg, tgt>>
    BY <1>2 DEF VReader, LeaveMode, runVars
  <2>2. PlaceInv'
    BY <2>1, PlaceFrame DEF IInv, TypeOK, ProcInv, Waiting, WaitLabel, WakeLabel
  <2>3. rdwait' \in Seq(Proc) /\ wrwait' \in Seq(Proc)
    BY <2>2 DEF PlaceInv, QueueInv, IsQueue
  <2>4. TypeOK'
    BY <2>1, <2>3 DEF IInv, TypeOK, Label
  <2>5. ProcInv'
    BY <2>1 DEF IInv, TypeOK, ProcInv
  <2>6. CountMatchesHolders'
    BY <2>1, CountReaderOut
  <2>7. NobodyForgotten'
    BY <1>2, <2>1, CountMeaning DEF IInv, TypeOK, NobodyForgotten, Strong, ReadOK
  <2> QED
    BY <2>2, <2>4, <2>5, <2>6, <2>7 DEF PlaceInv, IInv
<1> QED
  BY <1>1, <1>2

(* v_writer(): a writer, the first reader, or nobody follows. *)
LEMMA VWriterStep ==
  ASSUME IInv, NEW p \in Proc, VWriter(p)
  PROVE  IInv'
<1>1. CASE wrwait # <<>>
  <2>1. /\ pc[p] = "run" /\ mode[p] = "write"
        /\ wrwait # <<>> /\ wrwait' = Tail(wrwait)
        /\ tgt' = [tgt EXCEPT ![p] = Head(wrwait)]
        /\ mode' = [mode EXCEPT ![p] = "none", ![Head(wrwait)] = "write"]
        /\ pc' = [pc EXCEPT ![p] = "wake"]
        /\ UNCHANGED <<policy, count, rdwait, plock, spin, stat, loaded, runq, arg>>
    BY <1>1 DEF VWriter, Pick, Goto, runVars
  <2>2. PICK q \in Proc : /\ q = Head(wrwait) /\ Queued(q) /\ QueueInv'
                          /\ \A x : Queued(x)' <=> Queued(x) /\ x # q
    BY <2>1, LeaveQueue
  <2>3. q # p /\ mode[q] = "none"
    BY <2>1, <2>2 DEF IInv, WaitInv, WaitLabel
  <2>4. /\ mode' = [mode EXCEPT ![p] = "none", ![q] = "write"]
        /\ tgt' = [tgt EXCEPT ![p] = q]
    BY <2>1, <2>2
  <2>5. /\ tgt' \in [Proc -> Proc \cup {None}]
        /\ mode' \in [Proc -> {"none", "read", "write"}]
    BY <2>4 DEF IInv, TypeOK
  <2>6. tgt'[p] = q /\ (\A x \in Proc \ {p} : tgt'[x] = tgt[x])
    BY <2>4 DEF IInv, TypeOK
  <2>7. pc'[p] \in WakeLabel /\ (\A x \in Proc \ {p} : pc'[x] = pc[x])
    BY <2>1 DEF IInv, TypeOK, WakeLabel
  <2>8. /\ UNCHANGED <<policy, plock, spin, stat, loaded, runq, arg>>
        /\ count' \in Int /\ pc' \in [Proc -> Label]
    BY <2>1 DEF IInv, TypeOK, Label
  <2>9. mode'[q] # "none" /\ (\A x \in Proc \ {p} : x # q => mode'[x] = mode[x])
    BY <2>4 DEF IInv, TypeOK
  <2>10. PlaceInv'
    BY <2>1, <2>2, <2>6, <2>7, <2>9, PlacePick
  <2>11. rdwait' \in Seq(Proc) /\ wrwait' \in Seq(Proc)
    BY <2>10 DEF PlaceInv, QueueInv, IsQueue
  <2>12. TypeOK'
    BY <2>5, <2>8, <2>11 DEF IInv, TypeOK, Label
  <2>13. ProcInv'
    BY <2>1, <2>2, <2>3, <2>7, <2>9 DEF IInv, TypeOK, ProcInv
  <2>14. CountMatchesHolders'
    BY <2>1, <2>2, <2>3, <2>4, CountPass, CountMeaning
  <2>15. NobodyForgotten'
    BY <2>1, CountMeaning DEF IInv, TypeOK, NobodyForgotten
  <2> QED
    BY <2>10, <2>12, <2>13, <2>14, <2>15 DEF PlaceInv, IInv
<1>2. CASE wrwait = <<>> /\ rdwait # <<>>
  <2>1. /\ pc[p] = "run" /\ mode[p] = "write"
        /\ rdwait # <<>> /\ rdwait' = Tail(rdwait)
        /\ tgt' = [tgt EXCEPT ![p] = Head(rdwait)]
        /\ mode' = [mode EXCEPT ![p] = "none", ![Head(rdwait)] = "read"]
        /\ pc' = [pc EXCEPT ![p] = "wake_reader"]
        /\ count' = 1
        /\ UNCHANGED <<policy, wrwait, plock, spin, stat, loaded, runq, arg>>
    BY <1>2 DEF VWriter, Pick, Goto, runVars
  <2>2. PICK q \in Proc : /\ q = Head(rdwait) /\ Queued(q) /\ QueueInv'
                          /\ \A x : Queued(x)' <=> Queued(x) /\ x # q
    BY <2>1, LeaveQueue
  <2>3. q # p /\ mode[q] = "none"
    BY <2>1, <2>2 DEF IInv, WaitInv, WaitLabel
  <2>4. /\ mode' = [mode EXCEPT ![p] = "none", ![q] = "read"]
        /\ tgt' = [tgt EXCEPT ![p] = q]
    BY <2>1, <2>2
  <2>5. /\ tgt' \in [Proc -> Proc \cup {None}]
        /\ mode' \in [Proc -> {"none", "read", "write"}]
    BY <2>4 DEF IInv, TypeOK
  <2>6. tgt'[p] = q /\ (\A x \in Proc \ {p} : tgt'[x] = tgt[x])
    BY <2>4 DEF IInv, TypeOK
  <2>7. pc'[p] \in WakeLabel /\ (\A x \in Proc \ {p} : pc'[x] = pc[x])
    BY <2>1 DEF IInv, TypeOK, WakeLabel
  <2>8. /\ UNCHANGED <<policy, plock, spin, stat, loaded, runq, arg>>
        /\ count' \in Int /\ pc' \in [Proc -> Label]
    BY <2>1 DEF IInv, TypeOK, Label
  <2>9. mode'[q] # "none" /\ (\A x \in Proc \ {p} : x # q => mode'[x] = mode[x])
    BY <2>4 DEF IInv, TypeOK
  <2>10. PlaceInv'
    BY <2>1, <2>2, <2>6, <2>7, <2>9, PlacePick
  <2>11. rdwait' \in Seq(Proc) /\ wrwait' \in Seq(Proc)
    BY <2>10 DEF PlaceInv, QueueInv, IsQueue
  <2>12. TypeOK'
    BY <2>5, <2>8, <2>11 DEF IInv, TypeOK, Label
  <2>13. ProcInv'
    BY <2>1, <2>2, <2>3, <2>7, <2>9 DEF IInv, TypeOK, ProcInv
  <2>14. CountMatchesHolders'
    BY <2>1, <2>2, <2>3, <2>4, CountPass
  <2>15. NobodyForgotten'
    BY <2>1 DEF IInv, TypeOK, NobodyForgotten
  <2> QED
    BY <2>10, <2>12, <2>13, <2>14, <2>15 DEF PlaceInv, IInv
<1>3. CASE wrwait = <<>> /\ rdwait = <<>>
  <2>1. /\ pc[p] = "run" /\ mode[p] = "write"
        /\ count' = 0
        /\ mode' = [mode EXCEPT ![p] = "none"]
        /\ UNCHANGED <<policy, rdwait, wrwait, plock, spin, stat, loaded, runq, pc,
             arg, tgt>>
    BY <1>3 DEF VWriter, LeaveMode, runVars
  <2>2. PlaceInv'
    BY <2>1, PlaceFrame DEF IInv, TypeOK, ProcInv, Waiting, WaitLabel, WakeLabel
  <2>3. rdwait' \in Seq(Proc) /\ wrwait' \in Seq(Proc)
    BY <2>2 DEF PlaceInv, QueueInv, IsQueue
  <2>4. TypeOK'
    BY <2>1, <2>3 DEF IInv, TypeOK, Label
  <2>5. ProcInv'
    BY <2>1 DEF IInv, TypeOK, ProcInv
  <2>6. CountMatchesHolders'
    BY <2>1, CountIdle
  <2>7. NobodyForgotten'
    BY <1>3, <2>1 DEF IInv, TypeOK, NobodyForgotten, Strong
  <2> QED
    BY <2>2, <2>4, <2>5, <2>6, <2>7 DEF PlaceInv, IInv
<1> QED
  BY <1>1, <1>2, <1>3

(* The loop of v_writer() over the readers. *)
LEMMA LoopAgainStep ==
  ASSUME IInv, NEW p \in Proc, LoopAgain(p)
  PROVE  IInv'
<1>1. CASE rdwait # <<>> /\ ReadOK
  <2>1. /\ pc[p] = "loop"
        /\ rdwait # <<>> /\ rdwait' = Tail(rdwait)
        /\ tgt' = [tgt EXCEPT ![p] = Head(rdwait)]
        /\ mode' = [mode EXCEPT ![Head(rdwait)] = "read"]
        /\ pc' = [pc EXCEPT ![p] = "wake_reader"]
        /\ count >= 0 /\ count' = count + 1
        /\ UNCHANGED <<policy, wrwait, plock, spin, stat, loaded, runq, arg>>
    BY <1>1 DEF LoopAgain, ReadOK, Goto, runVars
  <2>2. PICK q \in Proc : /\ q = Head(rdwait) /\ Queued(q) /\ QueueInv'
                          /\ \A x : Queued(x)' <=> Queued(x) /\ x # q
    BY <2>1, LeaveQueue
  <2>3. q # p /\ mode[q] = "none"
    BY <2>1, <2>2 DEF IInv, WaitInv, WaitLabel
  <2>4. /\ mode' = [mode EXCEPT ![q] = "read"]
        /\ tgt' = [tgt EXCEPT ![p] = q]
    BY <2>1, <2>2
  <2>5. /\ tgt' \in [Proc -> Proc \cup {None}]
        /\ mode' \in [Proc -> {"none", "read", "write"}]
    BY <2>4 DEF IInv, TypeOK
  <2>6. tgt'[p] = q /\ (\A x \in Proc \ {p} : tgt'[x] = tgt[x])
    BY <2>4 DEF IInv, TypeOK
  <2>7. pc'[p] \in WakeLabel /\ (\A x \in Proc \ {p} : pc'[x] = pc[x])
    BY <2>1 DEF IInv, TypeOK, WakeLabel
  <2>8. /\ UNCHANGED <<policy, plock, spin, stat, loaded, runq, arg>>
        /\ count' \in Int /\ pc' \in [Proc -> Label]
    BY <2>1 DEF IInv, TypeOK, Label
  <2>9. mode'[q] # "none" /\ (\A x \in Proc \ {p} : x # q => mode'[x] = mode[x])
    BY <2>4 DEF IInv, TypeOK
  <2>10. PlaceInv'
    BY <2>1, <2>2, <2>6, <2>7, <2>9, PlacePick
  <2>11. rdwait' \in Seq(Proc) /\ wrwait' \in Seq(Proc)
    BY <2>10 DEF PlaceInv, QueueInv, IsQueue
  <2>12. TypeOK'
    BY <2>5, <2>8, <2>11 DEF IInv, TypeOK, Label
  <2>13. ProcInv'
    BY <2>1, <2>2, <2>3, <2>7, <2>9 DEF IInv, TypeOK, ProcInv
  <2>14. CountMatchesHolders'
    BY <2>1, <2>2, <2>3, <2>4, CountReader
  <2>15. NobodyForgotten'
    BY <2>1 DEF IInv, TypeOK, NobodyForgotten
  <2> QED
    BY <2>10, <2>12, <2>13, <2>14, <2>15 DEF PlaceInv, IInv
<1>2. CASE ~(rdwait # <<>> /\ ReadOK)
  <2>1. /\ pc[p] = "loop"
        /\ pc' = [pc EXCEPT ![p] = "run"]
        /\ UNCHANGED <<policy, count, rdwait, wrwait, plock, spin, stat, loaded,
             runq, arg, tgt, mode>>
    BY <1>2 DEF LoopAgain, Goto, runVars
  <2>2. PlaceInv'
    BY <2>1, PlaceFrame DEF IInv, TypeOK, ProcInv, Waiting, WaitLabel, WakeLabel
  <2>3. rdwait' \in Seq(Proc) /\ wrwait' \in Seq(Proc)
    BY <2>2 DEF PlaceInv, QueueInv, IsQueue
  <2>4. TypeOK'
    BY <2>1, <2>3 DEF IInv, TypeOK, Label
  <2>5. ProcInv'
    BY <2>1 DEF IInv, TypeOK, ProcInv
  <2>6. CountMatchesHolders'
    BY <2>1, CountFrame
  <2>7. NobodyForgotten'
    BY <1>2, <2>1 DEF IInv, TypeOK, NobodyForgotten, Strong, ReadOK
  <2> QED
    BY <2>2, <2>4, <2>5, <2>6, <2>7 DEF PlaceInv, IInv
<1> QED
  BY <1>1, <1>2

LEMMA LookOutStep ==
  ASSUME IInv, NEW p \in Proc, LookOut(p)
  PROVE  IInv'
<1>1. /\ pc[p] = "look"
      /\ pc' = [pc EXCEPT ![p] = IF rdwait = <<>> THEN "run" ELSE "loop"]
      /\ UNCHANGED <<policy, count, rdwait, wrwait, plock, spin, stat, loaded, runq,
           arg, tgt, mode>>
  BY DEF LookOut, Goto, semaVars, runVars
<1>2. PlaceInv'
  BY <1>1, PlaceFrame DEF IInv, TypeOK, ProcInv, Waiting, WaitLabel, WakeLabel
<1>3. rdwait' \in Seq(Proc) /\ wrwait' \in Seq(Proc)
  BY <1>2 DEF PlaceInv, QueueInv, IsQueue
<1>4. TypeOK'
  BY <1>1, <1>3 DEF IInv, TypeOK, Label
<1>5. ProcInv'
  BY <1>1 DEF IInv, TypeOK, ProcInv
<1>6. CountMatchesHolders'
  BY <1>1, CountFrame
<1>7. NobodyForgotten'
  BY <1>1 DEF IInv, TypeOK, NobodyForgotten, Strong
<1> QED
  BY <1>2, <1>4, <1>5, <1>6, <1>7 DEF PlaceInv, IInv

(* rwsema_wake(): the target is runnable. *)
LEMMA WakeStep ==
  ASSUME IInv, NEW p \in Proc, Wake(p)
  PROVE  IInv'
<1>1. /\ pc[p] \in WakeLabel /\ plock[tgt[p]] = None
      /\ stat' = [stat EXCEPT ![tgt[p]] = "SRUN"]
      /\ tgt' = [tgt EXCEPT ![p] = None]
      /\ runq' = IF loaded[tgt[p]] THEN [runq EXCEPT ![tgt[p]] = @ + 1] ELSE runq
      /\ pc' = [pc EXCEPT ![p] = IF pc[p] = "wake" THEN "run" ELSE "look"]
      /\ UNCHANGED <<policy, count, rdwait, wrwait, plock, spin, loaded, arg, mode>>
  BY DEF Wake, Goto, StateFree, WakeLabel, semaVars
<1>2. tgt[p] \in Proc /\ tgt[p] # p /\ mode[tgt[p]] # "none" /\ ~Queued(tgt[p])
  BY ZenonT(60), <1>1 DEF IInv, TypeOK, TargetInv, WaitLabel, WakeLabel
<1>3. pc[tgt[p]] = "off" /\ stat[tgt[p]] = "SSLEEP"
  BY <1>1, <1>2 DEF IInv, TypeOK, TargetInv, ProcInv, WaitLabel, WakeLabel
<1>4. PlaceInv'
  BY <1>1, <1>2, <1>3, PlaceWake
<1>5. rdwait' \in Seq(Proc) /\ wrwait' \in Seq(Proc)
  BY <1>4 DEF PlaceInv, QueueInv, IsQueue
<1>6. TypeOK'
  BY <1>1, <1>2, <1>3, <1>5 DEF IInv, TypeOK, Label
<1>7. ProcInv'
  BY <1>1, <1>2, <1>3 DEF IInv, TypeOK, ProcInv, WakeLabel
<1>8. CountMatchesHolders'
  BY <1>1, <1>2, <1>3, CountFrame
<1>9. NobodyForgotten'
  BY <1>1, <1>2, <1>3 DEF IInv, TypeOK, NobodyForgotten, Strong, WakeLabel
<1> QED
  BY <1>4, <1>6, <1>7, <1>8, <1>9 DEF PlaceInv, IInv

(* The dispatcher and the swapper. *)
LEMMA DispatchStep ==
  ASSUME IInv, NEW p \in Proc, Dispatch(p)
  PROVE  IInv'
<1>1. /\ runq[p] > 0
      /\ runq' = [runq EXCEPT ![p] = @ - 1]
      /\ stat' = [stat EXCEPT ![p] = "SONPROC"]
      /\ pc' = [pc EXCEPT ![p] = "run"]
      /\ UNCHANGED <<policy, count, rdwait, wrwait, plock, spin, loaded, arg, tgt,
           mode>>
  BY DEF Dispatch, Goto, semaVars
<1>2. stat[p] = "SRUN" /\ runq[p] = 1
  BY <1>1 DEF IInv, ProcInv
<1>3. pc[p] = "off" /\ mode[p] # "none"
  BY <1>1, <1>2 DEF IInv, ProcInv
<1>4. PlaceInv'
  BY <1>1, <1>2, <1>3, PlaceFrame DEF IInv, TypeOK, ProcInv, Waiting, WaitLabel,
       WakeLabel
<1>5. rdwait' \in Seq(Proc) /\ wrwait' \in Seq(Proc)
  BY <1>4 DEF PlaceInv, QueueInv, IsQueue
<1>6. TypeOK'
  BY <1>1, <1>2, <1>3, <1>5 DEF IInv, TypeOK, Label
<1>7. ProcInv'
  BY <1>1, <1>2, <1>3 DEF IInv, TypeOK, ProcInv
<1>8. CountMatchesHolders'
  BY <1>1, <1>2, <1>3, CountFrame
<1>9. NobodyForgotten'
  BY <1>1, <1>2, <1>3 DEF IInv, TypeOK, NobodyForgotten, Strong
<1> QED
  BY <1>4, <1>6, <1>7, <1>8, <1>9 DEF PlaceInv, IInv

LEMMA SwapOutStep ==
  ASSUME IInv, NEW p \in Proc, SwapOut(p)
  PROVE  IInv'
<1>1. /\ loaded[p] /\ loaded' = [loaded EXCEPT ![p] = FALSE]
      /\ runq' = IF stat[p] = "SRUN" THEN [runq EXCEPT ![p] = @ - 1] ELSE runq
      /\ UNCHANGED <<policy, count, rdwait, wrwait, plock, spin, stat, pc, arg, tgt,
           mode>>
  BY DEF SwapOut, semaVars
<1>2. stat[p] = "SRUN" => runq[p] = 1
  BY <1>1 DEF IInv, ProcInv
<1>3. PlaceInv'
  BY <1>1, <1>2, PlaceFrame DEF IInv, TypeOK, ProcInv, Waiting, WaitLabel, WakeLabel
<1>4. rdwait' \in Seq(Proc) /\ wrwait' \in Seq(Proc)
  BY <1>3 DEF PlaceInv, QueueInv, IsQueue
<1>5. TypeOK'
  BY <1>1, <1>2, <1>4 DEF IInv, TypeOK, Label
<1>6. ProcInv'
  BY <1>1, <1>2 DEF IInv, TypeOK, ProcInv
<1>7. CountMatchesHolders'
  BY <1>1, <1>2, CountFrame
<1>8. NobodyForgotten'
  BY <1>1, <1>2 DEF IInv, TypeOK, NobodyForgotten, Strong
<1> QED
  BY <1>3, <1>5, <1>6, <1>7, <1>8 DEF PlaceInv, IInv

LEMMA SwapInStep ==
  ASSUME IInv, NEW p \in Proc, SwapIn(p)
  PROVE  IInv'
<1>1. /\ ~loaded[p] /\ stat[p] = "SRUN" /\ loaded' = [loaded EXCEPT ![p] = TRUE]
      /\ runq' = [runq EXCEPT ![p] = @ + 1]
      /\ UNCHANGED <<policy, count, rdwait, wrwait, plock, spin, stat, pc, arg, tgt,
           mode>>
  BY DEF SwapIn, semaVars
<1>2. PlaceInv'
  BY <1>1, PlaceFrame DEF IInv, TypeOK, ProcInv, Waiting, WaitLabel, WakeLabel
<1>3. rdwait' \in Seq(Proc) /\ wrwait' \in Seq(Proc)
  BY <1>2 DEF PlaceInv, QueueInv, IsQueue
<1>4. TypeOK'
  BY <1>1, <1>3 DEF IInv, TypeOK, Label
<1>5. ProcInv'
  BY <1>1 DEF IInv, TypeOK, ProcInv
<1>6. CountMatchesHolders'
  BY <1>1, CountFrame
<1>7. NobodyForgotten'
  BY <1>1 DEF IInv, TypeOK, NobodyForgotten, Strong
<1> QED
  BY <1>2, <1>4, <1>5, <1>6, <1>7 DEF PlaceInv, IInv

(* The callers' locks. *)
LEMMA TakeLockStep ==
  ASSUME IInv, NEW p \in Proc, NEW l \in Lock, TakeLock(p, l)
  PROVE  IInv'
<1>1. /\ spin' = [spin EXCEPT ![l] = p]
      /\ UNCHANGED <<policy, count, rdwait, wrwait, plock, stat, loaded, runq, pc,
           arg, tgt, mode>>
  BY DEF TakeLock, semaVars, runVars
<1>2. PlaceInv'
  BY <1>1, PlaceFrame DEF IInv, TypeOK, ProcInv, Waiting, WaitLabel, WakeLabel
<1>3. rdwait' \in Seq(Proc) /\ wrwait' \in Seq(Proc)
  BY <1>2 DEF PlaceInv, QueueInv, IsQueue
<1>4. TypeOK'
  BY <1>1, <1>3 DEF IInv, TypeOK, Label
<1>5. ProcInv'
  BY <1>1 DEF IInv, TypeOK, ProcInv
<1>6. CountMatchesHolders'
  BY <1>1, CountFrame
<1>7. NobodyForgotten'
  BY <1>1 DEF IInv, TypeOK, NobodyForgotten, Strong
<1> QED
  BY <1>2, <1>4, <1>5, <1>6, <1>7 DEF PlaceInv, IInv

LEMMA DropLockStep ==
  ASSUME IInv, NEW p \in Proc, NEW l \in Lock, DropLock(p, l)
  PROVE  IInv'
<1>1. /\ spin' = [spin EXCEPT ![l] = None]
      /\ UNCHANGED <<policy, count, rdwait, wrwait, plock, stat, loaded, runq, pc,
           arg, tgt, mode>>
  BY DEF DropLock, semaVars, runVars
<1>2. PlaceInv'
  BY <1>1, PlaceFrame DEF IInv, TypeOK, ProcInv, Waiting, WaitLabel, WakeLabel
<1>3. rdwait' \in Seq(Proc) /\ wrwait' \in Seq(Proc)
  BY <1>2 DEF PlaceInv, QueueInv, IsQueue
<1>4. TypeOK'
  BY <1>1, <1>3 DEF IInv, TypeOK, Label
<1>5. ProcInv'
  BY <1>1 DEF IInv, TypeOK, ProcInv
<1>6. CountMatchesHolders'
  BY <1>1, CountFrame
<1>7. NobodyForgotten'
  BY <1>1 DEF IInv, TypeOK, NobodyForgotten, Strong
<1> QED
  BY <1>2, <1>4, <1>5, <1>6, <1>7 DEF PlaceInv, IInv

-----------------------------------------------------------------------------
(* The inductive invariant holds. *)
LEMMA InitInv == Init => IInv
<1> SUFFICES ASSUME Init PROVE IInv
  OBVIOUS
<1>1. <<>> \in Seq(Proc) /\ ToSet(<<>>) = {} /\ IsInjective(<<>>)
  BY EmptySeq, LenProperties DEF ToSet, IsInjective
<1>2. TypeOK
  BY <1>1 DEF Init, TypeOK, Label
<1>3. QueueInv /\ \A p : ~Queued(p)
  BY <1>1 DEF Init, QueueInv, IsQueue, Queued
<1>4. WaitInv /\ TargetInv /\ OneWakerInv /\ NotLostInv
  BY <1>3 DEF Init, WaitInv, TargetInv, OneWakerInv, NotLostInv, WaitLabel, WakeLabel
<1>5. ProcInv
  BY DEF Init, ProcInv
<1>6. Holders("read") = {} /\ Holders("write") = {}
  BY DEF Init, Holders
<1>7. CountMatchesHolders
  BY <1>6, FS_EmptySet DEF Init, CountMatchesHolders
<1>8. NobodyForgotten
  BY DEF Init, NobodyForgotten
<1> QED
  BY <1>2, <1>3, <1>4, <1>5, <1>7, <1>8 DEF IInv

LEMMA NextInv == IInv /\ [Next]_vars => IInv'
<1> SUFFICES ASSUME IInv, [Next]_vars PROVE IInv'
  OBVIOUS
<1>1. CASE Next
  <2>1. PICK p \in Proc : \/ Inside(p) \/ Calls(p)
                          \/ Dispatch(p) \/ SwapOut(p) \/ SwapIn(p)
                          \/ \E l \in Lock : TakeLock(p, l) \/ DropLock(p, l)
    BY <1>1 DEF Next
  <2>2. CASE Inside(p)
    BY <2>2, SleepStep, SwtchStep, WakeStep, LookOutStep, LoopAgainStep DEF Inside
  <2>3. CASE Calls(p)
    BY <2>3, PReaderStep, PWriterStep, CPReaderStep, CPWriterStep, VReaderStep,
       VWriterStep DEF Calls
  <2>4. CASE Dispatch(p) \/ SwapOut(p) \/ SwapIn(p)
    BY <2>4, DispatchStep, SwapOutStep, SwapInStep
  <2>5. CASE \E l \in Lock : TakeLock(p, l) \/ DropLock(p, l)
    BY <2>5, TakeLockStep, DropLockStep
  <2> QED
    BY <2>1, <2>2, <2>3, <2>4, <2>5
<1>2. CASE UNCHANGED vars
  <2>1. UNCHANGED <<policy, count, rdwait, wrwait, plock, spin, stat, loaded, runq, pc,
                    arg, tgt, mode>>
    BY <1>2 DEF vars, semaVars, runVars
  <2>2. PlaceInv'
    BY <2>1, PlaceFrame DEF Waiting
  <2>3. CountMatchesHolders'
    BY <2>1, CountFrame
  <2>4. TypeOK' /\ ProcInv' /\ NobodyForgotten'
    BY <2>1 DEF IInv, TypeOK, ProcInv, NobodyForgotten, Strong
  <2> QED
    BY <2>2, <2>3, <2>4 DEF PlaceInv, IInv
<1> QED
  BY <1>1, <1>2

THEOREM Invariance == Spec => []IInv
<1> QED
  BY InitInv, NextInv, PTL DEF Spec

(* Every variable keeps its type. *)
THEOREM TypeCorrect == Spec => []TypeOK
<1>1. IInv => TypeOK
  BY DEF IInv
<1> QED
  BY <1>1, Invariance, PTL

(* The assertions of rwsema.c: rw_count is the number of readers inside,   *)
(* or -1 for the one writer, whoever is still on the way out or in.        *)
THEOREM CountCorrect == Spec => []CountMatchesHolders
<1>1. IInv => CountMatchesHolders
  BY DEF IInv
<1> QED
  BY <1>1, Invariance, PTL

(* Nobody is left on a queue of a semaphore that could let it in, in spite *)
(* of the look at rw_rdwait without the gate that ends v_writer().         *)
THEOREM NotForgotten == Spec => []NobodyForgotten
<1>1. IInv => NobodyForgotten
  BY DEF IInv
<1> QED
  BY <1>1, Invariance, PTL

(* A waiter is handed to one waker, once, and runs with its context saved. *)
THEOREM WokenOnceCorrect == Spec => []WokenOnce
<1>1. IInv => WokenOnce
  <2> SUFFICES ASSUME IInv, NEW p \in Proc
               PROVE  LET wakers == {a \in Proc : tgt[a] = p} IN
                   /\ Queued(p) => mode[p] = "none" /\ wakers = {} /\ stat[p] # "SRUN"
                   /\ Cardinality(wakers) <= 1
                   /\ runq[p] <= 1
                   /\ runq[p] = 1 => /\ pc[p] = "off" /\ ~Queued(p)
                                     /\ wakers = {} /\ mode[p] # "none"
                   /\ pc[p] = "off" /\ stat[p] = "SSLEEP" => Queued(p) \/ wakers # {}
    BY DEF WokenOnce, Queued
  <2> DEFINE wakers == {a \in Proc : tgt[a] = p}
  <2>2. p # None
    OBVIOUS
  <2>3. Queued(p) => mode[p] = "none" /\ wakers = {} /\ stat[p] # "SRUN"
    BY <2>2 DEF IInv, WaitInv, TargetInv
  <2>4. Cardinality(wakers) <= 1
    <3>1. CASE wakers = {}
      BY <3>1, FS_EmptySet
    <3>2. CASE wakers # {}
      <4>1. PICK a \in Proc : wakers = {a}
        BY <3>2, <2>2 DEF IInv, OneWakerInv
      <4>2. Cardinality({a}) = 1
        BY FS_Singleton
      <4> QED
        BY <4>1, <4>2
    <3> QED
      BY <3>1, <3>2
  <2>5. runq[p] <= 1 /\ (runq[p] = 1 => stat[p] = "SRUN")
    BY DEF IInv, ProcInv
  <2>6. stat[p] = "SRUN" => pc[p] = "off" /\ mode[p] # "none" /\ ~Queued(p) /\ wakers = {}
    <3>1. stat[p] = "SRUN" => pc[p] = "off" /\ mode[p] # "none"
      BY DEF IInv, ProcInv
    <3>2. stat[p] = "SRUN" => ~Queued(p) /\ wakers = {}
      BY <2>2 DEF IInv, WaitInv, TargetInv
    <3> QED
      BY <3>1, <3>2
  <2>7. pc[p] = "off" /\ stat[p] = "SSLEEP" => Queued(p) \/ wakers # {}
    BY DEF IInv, NotLostInv, WaitLabel
  <2> QED
    BY <2>3, <2>4, <2>5, <2>6, <2>7
<1> QED
  BY <1>1, Invariance, PTL

-----------------------------------------------------------------------------
(* The refinement of RWLock. *)

LEMMA AbstractStutter ==
  ASSUME IInv, UNCHANGED <<policy, count, mode, rdwait, wrwait>>
  PROVE  UNCHANGED Abstract!lockVars
<1>1. Holders("read")' = Holders("read") /\ Holders("write")' = Holders("write")
  BY CountFrame
<1>2. Strong' = Strong
  BY DEF Strong
<1> QED
  BY <1>1, <1>2 DEF Abstract!lockVars

(* A process that calls p_reader() or p_writer() has nothing to do with    *)
(* the semaphore yet.                                                      *)
LEMMA AbstractUninvolved ==
  ASSUME IInv, NEW p \in Proc, pc[p] = "run", mode[p] = "none"
  PROVE  Abstract!Uninvolved(p)
<1>1. ~Queued(p)
  BY DEF IInv, WaitInv, WaitLabel
<1>2. p \notin Holders("read") \cup Holders("write")
  BY DEF Holders
<1> QED
  BY <1>1, <1>2 DEF Queued, ToSet, Abstract!Uninvolved, Abstract!ToSet

LEMMA AbstractReadAllowed == IInv => (Abstract!ReadAllowed <=> ReadOK)
BY CountMeaning DEF Abstract!ReadAllowed, ReadOK

LEMMA PReaderAbstract ==
  ASSUME IInv, NEW p \in Proc, NEW l \in Lock \cup {None}, PReader(p, l)
  PROVE  Abstract!Read(p)
<1>1. /\ pc[p] = "run" /\ mode[p] = "none"
      /\ Strong' = Strong /\ wrwait' = wrwait
  BY DEF PReader, MayEnter, Enter, Strong
<1>2. Abstract!Uninvolved(p)
  BY <1>1, AbstractUninvolved
<1>3. CASE ReadOK
  <2>1. /\ count >= 0 /\ count' = count + 1 /\ rdwait' = rdwait
        /\ mode' = [mode EXCEPT ![p] = "read"]
    BY <1>3 DEF PReader, Enter, ReadOK
  <2>2. Holders("read")' = Holders("read") \cup {p} /\ Holders("write")' = Holders("write")
    BY <1>1, <2>1, CountReader
  <2> QED
    BY <1>1, <1>2, <1>3, <2>1, <2>2, AbstractReadAllowed DEF Abstract!Read
<1>4. CASE ~ReadOK
  <2>1. rdwait' = Append(rdwait, p) /\ UNCHANGED <<count, mode>>
    BY <1>4 DEF PReader, Block
  <2>2. Holders("read")' = Holders("read") /\ Holders("write")' = Holders("write")
    BY <2>1, CountFrame
  <2> QED
    BY <1>1, <1>2, <1>4, <2>1, <2>2, AbstractReadAllowed DEF Abstract!Read
<1> QED
  BY <1>3, <1>4

LEMMA PWriterAbstract ==
  ASSUME IInv, NEW p \in Proc, NEW l \in Lock \cup {None}, PWriter(p, l)
  PROVE  Abstract!Write(p)
<1>1. /\ pc[p] = "run" /\ mode[p] = "none"
      /\ Strong' = Strong /\ rdwait' = rdwait
  BY DEF PWriter, MayEnter, Enter, Strong
<1>2. Abstract!Uninvolved(p)
  BY <1>1, AbstractUninvolved
<1>3. count = 0 <=> Holders("read") \cup Holders("write") = {}
  BY CountMeaning
<1>4. CASE count = 0
  <2>1. count' = -1 /\ wrwait' = wrwait /\ mode' = [mode EXCEPT ![p] = "write"]
    BY <1>4 DEF PWriter, Enter
  <2>2. /\ Holders("read")' = {} /\ Holders("write")' = {p} /\ Holders("read") = {}
    BY <1>4, <2>1, CountWriter
  <2> QED
    BY <1>1, <1>2, <1>3, <1>4, <2>1, <2>2 DEF Abstract!Write
<1>5. CASE count # 0
  <2>1. wrwait' = Append(wrwait, p) /\ UNCHANGED <<count, mode>>
    BY <1>5 DEF PWriter, Block
  <2>2. Holders("read")' = Holders("read") /\ Holders("write")' = Holders("write")
    BY <2>1, CountFrame
  <2> QED
    BY <1>1, <1>2, <1>3, <1>5, <2>1, <2>2 DEF Abstract!Write
<1> QED
  BY <1>4, <1>5

LEMMA CPReaderAbstract ==
  ASSUME IInv, NEW p \in Proc, CPReader(p)
  PROVE  Abstract!Read(p)
<1>1. /\ pc[p] = "run" /\ mode[p] = "none" /\ ReadOK
      /\ Strong' = Strong /\ UNCHANGED <<rdwait, wrwait>>
      /\ count >= 0 /\ count' = count + 1 /\ mode' = [mode EXCEPT ![p] = "read"]
  BY DEF CPReader, Strong, ReadOK
<1>2. Abstract!Uninvolved(p)
  BY <1>1, AbstractUninvolved
<1>3. Holders("read")' = Holders("read") \cup {p} /\ Holders("write")' = Holders("write")
  BY <1>1, CountReader
<1> QED
  BY <1>1, <1>2, <1>3, AbstractReadAllowed DEF Abstract!Read

LEMMA CPWriterAbstract ==
  ASSUME IInv, NEW p \in Proc, CPWriter(p)
  PROVE  Abstract!Write(p)
<1>1. /\ pc[p] = "run" /\ mode[p] = "none"
      /\ Strong' = Strong /\ UNCHANGED <<rdwait, wrwait>>
      /\ count = 0 /\ count' = -1 /\ mode' = [mode EXCEPT ![p] = "write"]
  BY DEF CPWriter, Strong
<1>2. Abstract!Uninvolved(p)
  BY <1>1, AbstractUninvolved
<1>3. /\ Holders("read") \cup Holders("write") = {} /\ Holders("read") = {}
      /\ Holders("read")' = {} /\ Holders("write")' = {p}
  BY <1>1, CountWriter
<1> QED
  BY <1>1, <1>2, <1>3 DEF Abstract!Write

LEMMA VReaderAbstract ==
  ASSUME IInv, NEW p \in Proc, VReader(p)
  PROVE  Abstract!ReadDone(p)
<1>1. /\ mode[p] = "read" /\ pc[p] = "run" /\ p \in Holders("read")
      /\ Strong' = Strong /\ rdwait' = rdwait
  BY DEF VReader, Strong, Holders
<1>2. count = 1 <=> Holders("read") = {p}
  BY <1>1, CountMeaning
<1>3. CASE count = 1 /\ wrwait # <<>>
  <2>1. /\ wrwait' = Tail(wrwait) /\ count' = -1
        /\ mode' = [mode EXCEPT ![p] = "none", ![Head(wrwait)] = "write"]
    BY <1>3 DEF VReader, Pick
  <2>2. PICK q \in Proc : q = Head(wrwait) /\ Queued(q)
    BY <1>1, <1>3, <2>1, LeaveQueue
  <2>3. q # p /\ mode' = [mode EXCEPT ![p] = "none", ![q] = "write"]
    BY <1>1, <2>1, <2>2 DEF IInv, WaitInv, WaitLabel
  <2>4. Holders("read")' = {} /\ Holders("write")' = {q}
    BY <1>1, <1>3, <2>1, <2>3, CountPass
  <2>5. Abstract!PassToWriter
    BY <1>3, <2>1, <2>2, <2>4 DEF Abstract!PassToWriter
  <2> QED
    BY <1>1, <1>2, <1>3, <2>4, <2>5 DEF Abstract!ReadDone
<1>4. CASE ~(count = 1 /\ wrwait # <<>>)
  <2>1. wrwait' = wrwait /\ count' = count - 1 /\ mode' = [mode EXCEPT ![p] = "none"]
    BY <1>4 DEF VReader, LeaveMode
  <2>2. /\ Holders("read")' = Holders("read") \ {p}
        /\ Holders("write")' = Holders("write")
    BY <1>1, <2>1, CountReaderOut
  <2> QED
    BY <1>1, <1>2, <1>4, <2>1, <2>2 DEF Abstract!ReadDone
<1> QED
  BY <1>3, <1>4

LEMMA VWriterAbstract ==
  ASSUME IInv, NEW p \in Proc, VWriter(p)
  PROVE  Abstract!WriteDone(p)
<1>1. /\ mode[p] = "write" /\ pc[p] = "run" /\ p \in Holders("write")
      /\ Strong' = Strong
  BY DEF VWriter, Strong, Holders
<1>2. Holders("read") = {} /\ Holders("write") = {p} /\ count = -1
  BY <1>1, CountMeaning DEF IInv, TypeOK
<1>3. CASE wrwait # <<>>
  <2>1. /\ wrwait' = Tail(wrwait) /\ UNCHANGED <<count, rdwait>>
        /\ mode' = [mode EXCEPT ![p] = "none", ![Head(wrwait)] = "write"]
    BY <1>3 DEF VWriter, Pick
  <2>2. PICK q \in Proc : q = Head(wrwait) /\ Queued(q)
    BY <1>1, <1>3, <2>1, LeaveQueue
  <2>3. q # p /\ mode' = [mode EXCEPT ![p] = "none", ![q] = "write"] /\ count' = -1
    BY <1>1, <1>2, <2>1, <2>2 DEF IInv, WaitInv, WaitLabel
  <2>4. Holders("read")' = {} /\ Holders("write")' = {q}
    BY <1>1, <2>3, CountPass
  <2>5. Abstract!PassToWriter
    BY <1>3, <2>1, <2>2, <2>4 DEF Abstract!PassToWriter
  <2> QED
    BY <1>1, <1>2, <2>1, <2>4, <2>5 DEF Abstract!WriteDone
<1>4. CASE wrwait = <<>> /\ rdwait # <<>>
  <2>1. /\ rdwait' = Tail(rdwait) /\ wrwait' = wrwait /\ count' = 1
        /\ mode' = [mode EXCEPT ![p] = "none", ![Head(rdwait)] = "read"]
    BY <1>4 DEF VWriter, Pick
  <2>2. PICK q \in Proc : q = Head(rdwait) /\ Queued(q)
    BY <1>1, <1>4, <2>1, LeaveQueue
  <2>3. q # p /\ mode' = [mode EXCEPT ![p] = "none", ![q] = "read"]
    BY <1>1, <2>1, <2>2 DEF IInv, WaitInv, WaitLabel
  <2>4. Holders("read")' = {q} /\ Holders("write")' = {}
    BY <1>1, <2>1, <2>3, CountPass
  <2> QED
    BY <1>1, <1>4, <2>1, <2>2, <2>4 DEF Abstract!WriteDone
<1>5. CASE wrwait = <<>> /\ rdwait = <<>>
  <2>1. UNCHANGED <<rdwait, wrwait>> /\ count' = 0 /\ mode' = [mode EXCEPT ![p] = "none"]
    BY <1>5 DEF VWriter, LeaveMode
  <2>2. Holders("read")' = Holders("read") /\ Holders("write")' = {}
    BY <1>1, <2>1, CountIdle
  <2> QED
    BY <1>1, <1>5, <2>1, <2>2 DEF Abstract!WriteDone
<1> QED
  BY <1>3, <1>4, <1>5

LEMMA LoopAgainAbstract ==
  ASSUME IInv, NEW p \in Proc, LoopAgain(p)
  PROVE  Abstract!Admit \/ UNCHANGED Abstract!lockVars
<1>1. pc[p] = "loop" /\ Strong' = Strong /\ wrwait' = wrwait
  BY DEF LoopAgain, Strong
<1>2. CASE rdwait # <<>> /\ ReadOK
  <2>1. /\ rdwait' = Tail(rdwait) /\ count >= 0 /\ count' = count + 1
        /\ mode' = [mode EXCEPT ![Head(rdwait)] = "read"]
    BY <1>2 DEF LoopAgain, ReadOK
  <2>2. PICK q \in Proc : q = Head(rdwait) /\ Queued(q)
    BY <1>1, <1>2, <2>1, LeaveQueue
  <2>3. mode[q] = "none" /\ mode' = [mode EXCEPT ![q] = "read"]
    BY <2>1, <2>2 DEF IInv, WaitInv
  <2>4. Holders("read")' = Holders("read") \cup {q} /\ Holders("write")' = Holders("write")
    BY <2>1, <2>3, CountReader
  <2> QED
    BY <1>1, <1>2, <2>1, <2>2, <2>4, AbstractReadAllowed DEF Abstract!Admit
<1>3. CASE ~(rdwait # <<>> /\ ReadOK)
  BY <1>3, AbstractStutter DEF LoopAgain
<1> QED
  BY <1>2, <1>3

LEMMA AbstractNext ==
  ASSUME IInv, [Next]_vars
  PROVE  [Abstract!Next]_Abstract!lockVars
<1>1. CASE UNCHANGED vars
  BY <1>1, AbstractStutter DEF vars, semaVars, runVars
<1>2. CASE Next
  <2>1. PICK p \in Proc : \/ Inside(p) \/ Calls(p)
                          \/ Dispatch(p) \/ SwapOut(p) \/ SwapIn(p)
                          \/ \E l \in Lock : TakeLock(p, l) \/ DropLock(p, l)
    BY <1>2 DEF Next
  <2>2. CASE \E l \in Lock \cup {None} : PReader(p, l) \/ PWriter(p, l)
    BY <2>2, PReaderAbstract, PWriterAbstract DEF Abstract!Next
  <2>3. CASE CPReader(p) \/ CPWriter(p) \/ VReader(p) \/ VWriter(p)
    BY <2>3, CPReaderAbstract, CPWriterAbstract, VReaderAbstract, VWriterAbstract
       DEF Abstract!Next
  <2>4. CASE LoopAgain(p)
    BY <2>4, LoopAgainAbstract DEF Abstract!Next
  <2>5. CASE Sleep(p) \/ Swtch(p) \/ Wake(p) \/ LookOut(p)
    BY <2>5, AbstractStutter DEF Sleep, Swtch, Wake, LookOut, semaVars
  <2>6. CASE Dispatch(p) \/ SwapOut(p) \/ SwapIn(p)
    BY <2>6, AbstractStutter DEF Dispatch, SwapOut, SwapIn, semaVars
  <2>7. CASE \E l \in Lock : TakeLock(p, l) \/ DropLock(p, l)
    BY <2>7, AbstractStutter DEF TakeLock, DropLock, semaVars
  <2> QED
    BY <2>1, <2>2, <2>3, <2>4, <2>5, <2>6, <2>7 DEF Inside, Calls
<1> QED
  BY <1>1, <1>2

(* The semaphore with its queues, wakers and swapped waiters is the lock   *)
(* that RWLock describes.                                                  *)
THEOREM Refinement == Spec => AbstractSpec
<1>1. Init => Abstract!Init
  BY DEF Init, Abstract!Init, Strong, Holders
<1>2. IInv /\ [Next]_vars => [Abstract!Next]_Abstract!lockVars
  BY AbstractNext
<1> QED
  BY <1>1, <1>2, Invariance, PTL DEF Spec, AbstractSpec, Abstract!Spec
=============================================================================
