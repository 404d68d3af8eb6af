------------------------------- MODULE RWLock -------------------------------
(***************************************************************************)
(* What the reader/writer semaphores of common/sys/rwsema.c promise: a     *)
(* lock held by one writer or by any number of readers, and two queues of  *)
(* processes that wait for it.  Who is let in when the lock is released is *)
(* decided in the step that releases it: a process that was made to wait   *)
(* has the lock when it is taken off its queue, before it runs again.      *)
(***************************************************************************)
EXTENDS Integers, FiniteSets, SequencesExt

CONSTANT Proc       \* processes

VARIABLES strong,   \* strong writer preference, chosen once for each lock
          readers,  \* processes with shared access
          writers,  \* the process with exclusive access, if any
          rq,       \* processes waiting for shared access, in order
          wq        \* processes waiting for exclusive access, in order

lockVars == <<strong, readers, writers, rq, wq>>

Init ==
  /\ strong \in BOOLEAN
  /\ readers = {} /\ writers = {}
  /\ rq = <<>> /\ wq = <<>>

Uninvolved(p) == p \notin readers \cup writers \cup ToSet(rq) \cup ToSet(wq)

(* Readers pass queued writers only under weak writer preference. *)
ReadAllowed == writers = {} /\ (strong => wq = <<>>)

Read(p) ==
  /\ Uninvolved(p)
  /\ IF ReadAllowed THEN readers' = readers \cup {p} /\ UNCHANGED rq
                    ELSE rq' = Append(rq, p) /\ UNCHANGED readers
  /\ UNCHANGED <<strong, writers, wq>>

Write(p) ==
  /\ Uninvolved(p)
  /\ IF readers \cup writers = {}
     THEN writers' = {p} /\ UNCHANGED wq
     ELSE wq' = Append(wq, p) /\ UNCHANGED writers
  /\ UNCHANGED <<strong, readers, rq>>

(* The first queued writer follows p. *)
PassToWriter ==
  /\ wq # <<>>
  /\ writers' = {Head(wq)}
  /\ wq' = Tail(wq)

(* The last reader lets a writer in. *)
ReadDone(p) ==
  /\ p \in readers
  /\ readers' = readers \ {p}
  /\ IF readers = {p} /\ wq # <<>> THEN PassToWriter ELSE UNCHANGED <<writers, wq>>
  /\ UNCHANGED <<strong, rq>>

(* A writer is followed by a writer, else by the first queued reader. *)
WriteDone(p) ==
  /\ p \in writers
  /\ \/ PassToWriter /\ UNCHANGED <<readers, rq>>
     \/ /\ wq = <<>>
        /\ writers' = {}
        /\ IF rq # <<>> THEN readers' = {Head(rq)} /\ rq' = Tail(rq)
                        ELSE UNCHANGED <<readers, rq>>
        /\ UNCHANGED wq
  /\ UNCHANGED strong

(* The other queued readers are let in one after the other. *)
Admit ==
  /\ rq # <<>> /\ ReadAllowed
  /\ readers' = readers \cup {Head(rq)}
  /\ rq' = Tail(rq)
  /\ UNCHANGED <<strong, writers, wq>>

Next == \/ \E p \in Proc : Read(p) \/ Write(p) \/ ReadDone(p) \/ WriteDone(p)
        \/ Admit

(* Nobody stays queued who may be let in. *)
Spec == Init /\ [][Next]_lockVars
FairSpec == Spec /\ WF_lockVars(Admit)
=============================================================================
