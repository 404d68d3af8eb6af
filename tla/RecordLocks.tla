----------------------------- MODULE RecordLocks -----------------------------
(***************************************************************************)
(* What fcntl(2) and lockf(3) promise of record locks, byte by byte: a     *)
(* process has no lock, a read lock or a write lock on each byte of a      *)
(* file, and a write lock shuts the other processes out.                   *)
(***************************************************************************)
EXTENDS Integers

CONSTANTS Proc,   \* processes
          File,   \* files
          Byte    \* offsets of a file

VARIABLES held,   \* the locked bytes: <<process, file, byte, type>>
          out     \* out[p]: the answer of the request p has made, if any

Init == held = {} /\ out = [p \in Proc |-> "none"]

Ranges == {{b \in Byte : s <= b /\ b <= e} : s \in Byte, e \in Byte} \ {{}}

(* The bytes B of f get the lock m of p, in the place of the one they had. *)
Assign(p, f, B, m) ==
  held' = {l \in held : l[1] # p \/ l[2] # f \/ l[3] \notin B}
            \cup {p} \X {f} \X B \X ({m} \ {"F_UNLCK"})

(* Two processes have locks on a byte only when both are read locks. *)
Compatible(locks) ==
  \A l, k \in locks : l[1] # k[1] /\ l[2] = k[2] /\ l[3] = k[3]
                          => l[4] = "F_RDLCK" /\ k[4] = "F_RDLCK"

(* A request is granted for all its bytes at once, and touches no other. *)
Grant(p, f, B, m) == Assign(p, f, B, m) /\ Compatible(held')

(* A close drops every lock of the process on the file. *)
Close(p, f) == Assign(p, f, Byte, "F_UNLCK")

(* A request that fails for want of records may have cost the process the  *)
(* lock it had on the bytes it asked for, and nothing else.                *)
Lose(p, f, B) == UNCHANGED held \/ Assign(p, f, B, "F_UNLCK")

(* Any other failure changes nothing, nor does the return from the call. *)
Next ==
  \E p \in Proc :
    \/ /\ out' = [out EXCEPT ![p] = "ok"]
       /\ \E f \in File : \/ Close(p, f)
                          \/ \E B \in Ranges, m \in {"F_UNLCK", "F_RDLCK", "F_WRLCK"} :
                               Grant(p, f, B, m)
    \/ /\ out' = [out EXCEPT ![p] = "ENOSPC"]
       /\ \E f \in File, B \in Ranges : Lose(p, f, B)
    \/ /\ \E e \in {"none", "EACCES", "EDEADLK", "EINTR"} : out' = [out EXCEPT ![p] = e]
       /\ UNCHANGED held

Spec == Init /\ [][Next]_<<held, out>>
=============================================================================
