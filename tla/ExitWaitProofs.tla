-------------------------- MODULE ExitWaitProofs ---------------------------
(* Proofs about ExitWait, for any number of processes: no process sleeps   *)
(* in wait1() on a child to wait for, no orphan is left stopped, whoever   *)
(* posts has a parent, and procmax is right.                               *)
EXTENDS ExitWait, FiniteSetTheorems, TLAPS

Giving(p) == pc[p] \in {"move", "adopt"}
Gone == {"exit", "post", "dead"}
Scanning == {"scan", "bury", "unlink", "report"}

(* The first child on the list of p that p still has.                      *)
FirstOf(p) == IF Giving(p) THEN child[p] ELSE cptr[p]

(* c is met when the list that begins with h is followed along f: every    *)
(* set that has h and, with each member, the next one, has c.              *)
Closed(S, f, h) ==
  /\ h # None => h \in S
  /\ \A x \in S : f[x] # None => f[x] \in S

Reaches(f, h, c) == \A S \in SUBSET Proc : Closed(S, f, h) => c \in S

(* What the labels say of the state of a process, and of its stop signal.  *)
StatInv ==
  \A p \in Proc :
    /\ stat[p] = "NULL" => pc[p] = "dead"
    /\ stat[p] = "SZOMB" => pc[p] \in {"post", "dead"}
    /\ pc[p] \in {"post", "dead"} => stat[p] \in {"NULL", "SZOMB"}
    /\ pc[p] = "post" => stat[p] = "SZOMB"
    /\ stat[p] = "SSTOP" <=> pc[p] \in {"stopping", "stopped"}
    /\ p \in tty => pc[p] \in {"stop", "stopping", "stopped"} /\ pptr[p] # init
    /\ pc[p] = "asleep" => zombie[p] = 0

(* init has no parent and does not die.                                    *)
InitInv ==
  /\ pptr[init] = None /\ sptr[init] = None
  /\ pc[init] \in {"user", "first", "scan", "asleep", "bury", "unlink",
                   "report"}

(* proc_list: one process at a time gives its children away.               *)
LockInv == \A x, y \in Proc : Giving(x) /\ Giving(y) => x = y

(* Everybody else has a parent, and nobody has one that is beyond giving   *)
(* its children away.                                                      *)
ParentInv ==
  /\ \A c \in Proc : Used(c) /\ c # init =>
       pptr[c] \in Proc /\ pc[pptr[c]] \notin Gone
  /\ \A x \in Proc : pc[x] = "adopt" =>
       q[x] \in Proc /\ Used(q[x]) /\ q[x] # init
  /\ \A x \in Proc : Giving(x) /\ cptr[x] = None =>
       pc[x] = "move" /\ child[x] = None

(* A pointer leads to a child of the process whose list it is in, and no   *)
(* two pointers lead to the same one.                                      *)
ListInv ==
  /\ \A p, c \in Proc : FirstOf(p) = c =>
       /\ Used(c) /\ ListedWith(c) = p
       /\ \A x \in Proc : sptr[x] # c
  /\ \A x, c \in Proc : sptr[x] = c =>
       /\ Used(x)
       /\ Used(c) /\ ListedWith(c) = ListedWith(x)
       /\ \A y \in Proc : sptr[y] = c => y = x

ReachInv ==
  \A p \in Proc : \A c \in Children(p) : Reaches(sptr, FirstOf(p), c)

(* The locals of wait1(): q is in front of child, or None.                 *)
ScanOK(p) ==
  /\ pc[p] \in Scanning =>
       /\ child[p] # None => child[p] \in Children(p)
       /\ q[p] # None => q[p] \in Children(p) /\ sptr[q[p]] = child[p]
  /\ pc[p] \in {"bury", "unlink", "report"} => child[p] # None
  /\ pc[p] \in {"bury", "unlink"} => stat[child[p]] = "SZOMB"
  /\ pc[p] = "unlink" => pc[child[p]] = "dead"

ScanInv == \A p \in Proc : ScanOK(p)

(* A child to wait for whose post p has not got and will not get is ahead  *)
(* of the scan.                                                            *)
Missed(p, c) == Waitable(p, c) /\ ~ToBePosted(p, c)

SeenOK(p) ==
  zombie[p] = 0 =>
    /\ pc[p] \in {"scan", "report", "asleep"} =>
         \A c \in Children(p) : Missed(p, c) =>
           pc[p] # "asleep" /\ Reaches(sptr, child[p], c)
    /\ pc[p] = "report" =>
         \A c \in Children(p) :
           c = child[p] /\ stat[c] = "SZOMB" => ToBePosted(p, c)

SeenInv == \A p \in Proc : SeenOK(p)

(* TypeOK, one variable after the other.                                   *)
Types ==
  /\ stat \in [Proc -> {"NULL", "SRUN", "SSTOP", "SZOMB"}]
  /\ pptr \in [Proc -> Proc \cup {None}]
  /\ cptr \in [Proc -> Proc \cup {None}]
  /\ sptr \in [Proc -> Proc \cup {None}]
  /\ child \in [Proc -> Proc \cup {None}]
  /\ q \in [Proc -> Proc \cup {None}]
  /\ procmax \in init + 1 .. NPROC + 1
  /\ wted \subseteq Proc /\ tty \subseteq Proc
  /\ zombie \in [Proc -> 0 .. 1]
  /\ options \in [Proc -> SUBSET {"WNOHANG", "WUNTRACED"}]
  /\ pc \in [Proc -> {"user", "first", "scan", "asleep", "bury", "unlink",
                      "report", "stop", "stopping", "stopped", "move",
                      "adopt", "exit", "post", "dead"}]

TreeInv == LockInv /\ ParentInv /\ ListInv /\ ReachInv /\ TopInUse

IInv == Types /\ StatInv /\ InitInv /\ TreeInv /\ ScanInv /\ SeenInv

-----------------------------------------------------------------------------
(* Following a list                                                        *)

(* What is met on a list does not depend on pointers outside of it.        *)
LEMMA ReachKept ==
  ASSUME NEW T \in SUBSET Proc, NEW f, NEW g, NEW h, NEW c \in T,
         h = None \/ h \in T,
         \A x \in T : f[x] = None \/ f[x] \in T,
         \A x \in T : g[x] = f[x],
         Reaches(f, h, c)
  PROVE  Reaches(g, h, c)
<1> SUFFICES ASSUME NEW S \in SUBSET Proc, Closed(S, g, h)
             PROVE  c \in S
  BY DEF Reaches
<1>1. Closed(S \cap T, f, h)
  BY DEF Closed
<1> QED
  BY <1>1 DEF Reaches

(* All but the first is met from the second on.                            *)
LEMMA ReachNext ==
  ASSUME NEW f, NEW h \in Proc, NEW c, c # h, Reaches(f, h, c)
  PROVE  Reaches(f, f[h], c)
<1> SUFFICES ASSUME NEW S \in SUBSET Proc, Closed(S, f, f[h])
             PROVE  c \in S
  BY DEF Reaches
<1>1. Closed(S \cup {h}, f, h)
  BY DEF Closed
<1> QED
  BY <1>1 DEF Reaches

LEMMA ReachInsert ==
  ASSUME NEW f, NEW h \in Proc, NEW c, Reaches(f, f[h], c)
  PROVE  Reaches(f, h, c)
<1> SUFFICES ASSUME NEW S \in SUBSET Proc, Closed(S, f, h)
             PROVE  c \in S
  BY DEF Reaches
<1>1. h # None
  BY DEF Proc, None
<1>2. Closed(S, f, f[h])
  BY <1>1 DEF Closed
<1> QED
  BY <1>2 DEF Reaches

LEMMA ReachFirst ==
  ASSUME NEW f, NEW h \in Proc
  PROVE  Reaches(f, h, h)
<1>1. h # None
  BY DEF Proc, None
<1> QED
  BY <1>1 DEF Reaches, Closed

LEMMA ReachEnd ==
  ASSUME NEW f, NEW c, Reaches(f, None, c)
  PROVE  FALSE
<1>1. Closed({}, f, None)
  BY DEF Closed
<1> QED
  BY <1>1 DEF Reaches

(* A member that is not the first is behind another one.                   *)
LEMMA ReachBehind ==
  ASSUME NEW f, NEW h, NEW c \in Proc, h = None \/ h \in Proc, h # c,
         \A x \in Proc : f[x] = None \/ f[x] \in Proc,
         Reaches(f, h, c)
  PROVE  \E x \in Proc \ {c} : f[x] = c
<1> SUFFICES ASSUME \A x \in Proc \ {c} : f[x] # c
             PROVE  FALSE
  OBVIOUS
<1>1. Closed(Proc \ {c}, f, h)
  BY DEF Closed
<1> QED
  BY <1>1 DEF Reaches

(* The list without k, which is behind b.                                  *)
LEMMA ReachRemove ==
  ASSUME NEW f \in [Proc -> Proc \cup {None}], NEW b \in Proc, NEW k \in Proc,
         b # k, f[b] = k, \A x \in Proc : f[x] = k => x = b,
         NEW h, h # k, NEW c, c # k, Reaches(f, h, c)
  PROVE  Reaches([f EXCEPT ![b] = f[k], ![k] = None], h, c)
<1> DEFINE g == [f EXCEPT ![b] = f[k], ![k] = None]
<1>1. g[b] = f[k] /\ g[k] = None /\ \A x \in Proc \ {b, k} : g[x] = f[x]
  OBVIOUS
<1> HIDE DEF g
<1> SUFFICES ASSUME NEW S \in SUBSET Proc, Closed(S, g, h)
             PROVE  c \in S
  BY DEF Reaches, g
<1>2. CASE b \in S
  <2>1. Closed(S \cup {k}, f, h)
    BY <1>1, <1>2 DEF Closed
  <2> QED
    BY <2>1 DEF Reaches
<1>3. CASE b \notin S
  <2>1. Closed(S \ {k}, f, h)
    BY <1>1, <1>3 DEF Closed
  <2> QED
    BY <2>1 DEF Reaches
<1> QED
  BY <1>2, <1>3

-----------------------------------------------------------------------------
(* Steps that do not change the tree                                       *)

Quiet ==
  /\ UNCHANGED family
  /\ \A x \in Proc :
       /\ Used(x)' <=> Used(x)
       /\ pc'[x] = "adopt" <=> pc[x] = "adopt"
       /\ pc'[x] = "move" <=> pc[x] = "move"
       /\ pc'[x] \in Gone => pc[x] \in Gone
       /\ Giving(x) => child'[x] = child[x] /\ q'[x] = q[x]

(* Nothing that Children and FirstOf look at changes.                      *)
LEMMA TreeSame ==
  ASSUME Quiet
  PROVE  /\ \A c \in Proc : ListedWith(c)' = ListedWith(c)
         /\ \A p : Children(p)' = Children(p)
         /\ \A p \in Proc : Giving(p)' <=> Giving(p)
         /\ \A p \in Proc : FirstOf(p)' = FirstOf(p)
<1>1. \A p \in Proc : Giving(p)' <=> Giving(p)
  BY DEF Quiet, Giving
<1>2. ASSUME NEW c \in Proc PROVE ListedWith(c)' = ListedWith(c)
  <2>1. (\E x \in Proc : pc'[x] = "adopt" /\ q'[x] = c)
          <=> (\E x \in Proc : pc[x] = "adopt" /\ q[x] = c)
    BY DEF Quiet, Giving
  <2> QED
    BY <2>1 DEF ListedWith, Quiet, family
<1>3. ASSUME NEW p PROVE Children(p)' = Children(p)
  BY <1>2 DEF Children, Quiet
<1>4. \A p \in Proc : FirstOf(p)' = FirstOf(p)
  BY <1>1 DEF FirstOf, Quiet, family
<1> QED
  BY <1>1, <1>2, <1>3, <1>4

LEMMA TreeKept ==
  ASSUME Types, TreeInv, Quiet
  PROVE  TreeInv'
<1>1. LockInv'
  BY TreeSame DEF TreeInv, LockInv
<1>2. ParentInv'
  <2>1. ASSUME NEW c \in Proc, Used(c)', c # init
        PROVE  pptr'[c] \in Proc /\ pc'[pptr'[c]] \notin Gone
    BY <2>1 DEF TreeInv, ParentInv, Quiet, family
  <2>2. ASSUME NEW x \in Proc, pc'[x] = "adopt"
        PROVE  q'[x] \in Proc /\ Used(q[x])' /\ q'[x] # init
    BY <2>2 DEF TreeInv, ParentInv, Quiet, Giving, Used
  <2>3. ASSUME NEW x \in Proc, Giving(x)', cptr'[x] = None
        PROVE  pc'[x] = "move" /\ child'[x] = None
    BY <2>3, TreeSame DEF TreeInv, ParentInv, Quiet, family
  <2> QED
    BY <2>1, <2>2, <2>3 DEF ParentInv, Used
<1>3. ListInv'
  <2>1. sptr' = sptr /\ \A c \in Proc : Used(c)' <=> Used(c)
    BY DEF Quiet, family
  <2> QED
    BY <2>1, TreeSame DEF TreeInv, ListInv
<1>4. ReachInv'
  BY TreeSame DEF TreeInv, ReachInv, Quiet, family
<1>5. TopInUse'
  <2>1. procmax - 1 \in Proc /\ procmax' = procmax
    BY ExitAssumption DEF Types, Proc, init, Quiet, family
  <2>2. \A x \in Proc : Used(x)' <=> Used(x)
    BY DEF Quiet
  <2>3. Used(procmax - 1)'
    BY <2>1, <2>2 DEF TreeInv, TopInUse, Used
  <2> QED
    BY <2>1, <2>2, <2>3 DEF TreeInv, TopInUse
<1> QED
  BY <1>1, <1>2, <1>3, <1>4, <1>5 DEF TreeInv

-----------------------------------------------------------------------------
(* A scan that others do not disturb                                       *)

(* The children a has stay on its list where they are, zombies dead.       *)
Same(a) ==
  \A c \in Children(a) :
    /\ c \in Children(a)'
    /\ sptr'[c] = sptr[c]
    /\ stat[c] = "SZOMB" => stat'[c] = "SZOMB"
    /\ stat[c] = "SZOMB" /\ pc[c] = "dead" => pc'[c] = "dead"

(* a does not move in its list.                                            *)
Steady(a) ==
  pc'[a] \in Scanning \cup {"asleep"} =>
    pc'[a] = pc[a] /\ child'[a] = child[a] /\ q'[a] = q[a]

(* There is nothing new to wait for, but what a will be told of.           *)
NoNews(a) ==
  /\ zombie'[a] = 0 => zombie[a] = 0
  /\ pc'[a] \in Scanning \cup {"asleep"} =>
       \A c \in Children(a)' : Missed(a, c)' =>
         /\ c \in Children(a)
         /\ Missed(a, c)
         /\ stat'[c] = "SZOMB" => stat[c] = "SZOMB"

LEMMA ScanKept ==
  ASSUME NEW a \in Proc, ScanOK(a), Same(a), Steady(a)
  PROVE  ScanOK(a)'
<1>1. CASE pc'[a] \in Scanning
  <2>1. pc'[a] = pc[a] /\ child'[a] = child[a] /\ q'[a] = q[a]
    BY <1>1 DEF Steady
  <2>2. child[a] # None =>
          /\ child[a] \in Children(a)'
          /\ stat[child[a]] = "SZOMB" => stat'[child[a]] = "SZOMB"
          /\ stat[child[a]] = "SZOMB" /\ pc[child[a]] = "dead"
               => pc'[child[a]] = "dead"
    BY <1>1, <2>1 DEF ScanOK, Same
  <2>3. q[a] # None => q[a] \in Children(a)' /\ sptr'[q[a]] = child[a]
    BY <1>1, <2>1 DEF ScanOK, Same
  <2> QED
    BY <1>1, <2>1, <2>2, <2>3 DEF ScanOK, Scanning
<1>2. CASE pc'[a] \notin Scanning
  BY <1>2 DEF ScanOK, Scanning
<1> QED
  BY <1>1, <1>2

LEMMA ListClosed ==
  ASSUME Types, ListInv, NEW a, NEW x \in Children(a)
  PROVE  sptr[x] = None \/ sptr[x] \in Children(a)
BY DEF Types, ListInv, Children

LEMMA SeenKept ==
  ASSUME Types, ListInv, NEW a \in Proc, ScanOK(a), SeenOK(a),
         Same(a), Steady(a), NoNews(a)
  PROVE  SeenOK(a)'
<1>1. CASE zombie'[a] = 0 /\ pc'[a] \in {"scan", "report", "asleep"}
  <2>1. /\ zombie[a] = 0
        /\ pc'[a] = pc[a] /\ child'[a] = child[a]
    BY <1>1 DEF NoNews, Steady, Scanning
  <2>2. ASSUME NEW c \in Children(a)', Missed(a, c)'
        PROVE  /\ c \in Children(a) /\ Missed(a, c)
               /\ stat'[c] = "SZOMB" => stat[c] = "SZOMB"
    BY <1>1, <2>2 DEF NoNews, Scanning
  <2>3. ASSUME NEW c \in Children(a)', Missed(a, c)'
        PROVE  pc'[a] # "asleep" /\ Reaches(sptr', child'[a], c)
    <3>1. c \in Children(a) /\ Missed(a, c)
      BY <2>2, <2>3
    <3>2. pc[a] # "asleep" /\ Reaches(sptr, child[a], c)
      BY <1>1, <2>1, <3>1 DEF SeenOK
    <3>3. child[a] = None \/ child[a] \in Children(a)
      BY <1>1, <2>1, <3>2 DEF ScanOK, Scanning
    <3>4. \A x \in Children(a) : sptr[x] = None \/ sptr[x] \in Children(a)
      BY ListClosed
    <3>5. \A x \in Children(a) : sptr'[x] = sptr[x]
      BY DEF Same
    <3>6. Children(a) \in SUBSET Proc
      BY DEF Children
    <3>7. Reaches(sptr', child[a], c)
      BY <3>1, <3>2, <3>3, <3>4, <3>5, <3>6, ReachKept
    <3> QED
      BY <2>1, <3>2, <3>7
  <2>4. ASSUME NEW c \in Children(a)', pc'[a] = "report", c = child'[a],
               stat'[c] = "SZOMB", ~ToBePosted(a, c)'
        PROVE  FALSE
    <3>1. Missed(a, c)'
      BY <2>4 DEF Missed, Waitable
    <3>2. c \in Children(a) /\ Missed(a, c) /\ stat[c] = "SZOMB"
      BY <2>2, <2>4, <3>1
    <3> QED
      BY <2>1, <2>4, <3>2 DEF SeenOK, Missed
  <2> QED
    BY <2>3, <2>4 DEF SeenOK
<1>2. CASE ~(zombie'[a] = 0 /\ pc'[a] \in {"scan", "report", "asleep"})
  BY <1>2 DEF SeenOK
<1> QED
  BY <1>1, <1>2

-----------------------------------------------------------------------------
(* Steps of p that concern nobody else                                     *)

Local(p) ==
  /\ Quiet
  /\ \A x \in Proc :
       /\ pc'[x] \in {"post", "stopping"} <=> pc[x] \in {"post", "stopping"}
       /\ stat'[x] = "SZOMB" <=> stat[x] = "SZOMB"
       /\ stat'[x] = "SSTOP" => stat[x] = "SSTOP"
       /\ pc[x] = "dead" => pc'[x] = "dead"
  /\ wted \subseteq wted'
  /\ \A x \in Proc \ {p} :
       /\ pc'[x] = pc[x] /\ zombie'[x] = zombie[x] /\ options'[x] = options[x]
       /\ child'[x] = child[x] /\ q'[x] = q[x]

LEMMA PostKept ==
  ASSUME NEW p, Local(p), NEW a \in Proc, NEW c \in Proc
  PROVE  ToBePosted(a, c)' <=> ToBePosted(a, c)
BY DEF Local, Quiet, family, ToBePosted

LEMMA MissedKept ==
  ASSUME NEW p, Local(p), NEW a \in Proc, NEW c \in Proc,
         options'[a] = options[a], Missed(a, c)'
  PROVE  Missed(a, c)
BY PostKept DEF Local, Missed, Waitable, StopWanted

LEMMA OthersKept ==
  ASSUME IInv, NEW p \in Proc, Local(p), NEW a \in Proc \ {p}
  PROVE  ScanOK(a)' /\ SeenOK(a)'
<1>1. /\ Children(a)' = Children(a)
      /\ \A c \in Children(a) : c \in Proc
  BY TreeSame DEF Local, Children
<1>2. Same(a)
  BY <1>1 DEF Same, Local, Quiet, family
<1>3. Steady(a)
  BY DEF Steady, Local
<1>4. NoNews(a)
  <2>1. options'[a] = options[a] /\ zombie'[a] = zombie[a]
    BY DEF Local
  <2>2. \A c \in Proc : Missed(a, c)' => Missed(a, c)
    BY <2>1, MissedKept
  <2>3. \A c \in Proc : stat'[c] = "SZOMB" => stat[c] = "SZOMB"
    BY DEF Local
  <2> QED
    BY <1>1, <2>1, <2>2, <2>3 DEF NoNews
<1>5. ScanOK(a) /\ SeenOK(a)
  BY DEF IInv, ScanInv, SeenInv
<1> QED
  BY <1>2, <1>3, <1>4, <1>5, ScanKept, SeenKept DEF IInv, TreeInv

LEMMA LocalKept ==
  ASSUME IInv, Types', StatInv', InitInv', NEW p \in Proc, Local(p),
         ScanOK(p)', SeenOK(p)'
  PROVE  IInv'
<1>1. TreeInv'
  BY TreeKept DEF IInv, Local
<1>2. ASSUME NEW a \in Proc PROVE ScanOK(a)' /\ SeenOK(a)'
  BY OthersKept
<1> QED
  BY <1>1, <1>2 DEF IInv, ScanInv, SeenInv

-----------------------------------------------------------------------------
(* Actions                                                                 *)

LEMMA WaitCallStep ==
  ASSUME IInv, NEW p \in Proc, WaitCall(p)
  PROVE  IInv'
<1>1. Types'
  <2>1. \A o \in Options[p] : o \subseteq {"WNOHANG", "WUNTRACED"}
    BY ExitAssumption DEF WaitCall
  <2> QED
    BY <2>1 DEF WaitCall, IInv, Types, locals, family
<1>2. StatInv'
  BY DEF WaitCall, IInv, Types, StatInv, locals, family
<1>3. InitInv'
  BY DEF WaitCall, IInv, Types, InitInv, locals, family
<1>4. Local(p)
  <2>1. Quiet
    BY DEF WaitCall, IInv, Types, StatInv, Quiet, Used, Giving, Gone, locals,
           family
  <2> QED
    BY <2>1 DEF WaitCall, IInv, Types, StatInv, Local, locals, family
<1>5. ScanOK(p)'
  BY DEF WaitCall, IInv, Types, ScanOK, Scanning, locals, family
<1>6. SeenOK(p)'
  BY DEF WaitCall, IInv, Types, SeenOK, locals, family
<1> QED
  BY <1>1, <1>2, <1>3, <1>4, <1>5, <1>6, LocalKept

LEMMA FirstStep ==
  ASSUME IInv, NEW p \in Proc, First(p)
  PROVE  IInv'
<1>1. Types'
  BY DEF First, IInv, Types, locals, family
<1>2. StatInv'
  BY DEF First, IInv, Types, StatInv, locals, family
<1>3. InitInv'
  BY DEF First, IInv, Types, InitInv, locals, family
<1>4. Local(p)
  <2>1. Quiet
    BY DEF First, IInv, Types, StatInv, Quiet, Used, Giving, Gone, locals,
           family
  <2> QED
    BY <2>1 DEF First, IInv, Types, StatInv, Local, locals, family
<1>5. ScanOK(p)'
  <2>1. cptr[p] # None => cptr[p] \in Children(p)
    <3>1. FirstOf(p) = cptr[p]
      BY DEF First, FirstOf, Giving
    <3> QED
      BY <3>1 DEF IInv, Types, TreeInv, ListInv, Children
  <2>2. Children(p)' = Children(p)
    BY <1>4, TreeSame DEF Local
  <2>3. pc'[p] = "scan" /\ child'[p] = cptr[p] /\ q'[p] = None
    BY DEF First, IInv, Types
  <2> QED
    BY <2>1, <2>2, <2>3 DEF ScanOK, Scanning
<1>6. SeenOK(p)'
  <2>1. FirstOf(p) = cptr[p]
    BY DEF First, FirstOf, Giving
  <2>2. Children(p)' = Children(p)
    BY <1>4, TreeSame DEF Local
  <2>3. pc'[p] = "scan" /\ child'[p] = cptr[p] /\ sptr' = sptr
    BY DEF First, IInv, Types, family
  <2>4. \A c \in Children(p) : Reaches(sptr', child'[p], c)
    BY <2>1, <2>3 DEF IInv, TreeInv, ReachInv
  <2> QED
    BY <2>2, <2>3, <2>4 DEF SeenOK
<1> QED
  BY <1>1, <1>2, <1>3, <1>4, <1>5, <1>6, LocalKept

LEMMA ScanStep ==
  ASSUME IInv, NEW p \in Proc, Scan(p)
  PROVE  IInv'
<1>1. Types'
  BY DEF Scan, IInv, Types, locals, family
<1>2. StatInv'
  BY DEF Scan, IInv, Types, StatInv, locals, family
<1>3. InitInv'
  <2>1. /\ UNCHANGED family
        /\ pc'[p] \in {"scan", "bury", "report"} /\ \A x \in Proc \ {p} : pc'[x] = pc[x]
    BY DEF Scan, IInv, Types, family
  <2>2. init \in Proc
    BY ExitAssumption DEF init, Proc
  <2> QED
    BY <2>1, <2>2 DEF IInv, InitInv, family
<1>4. Local(p)
  <2>1. Quiet
    BY DEF Scan, IInv, Types, StatInv, Quiet, Used, Giving, Gone, locals,
           family
  <2> QED
    BY <2>1 DEF Scan, IInv, Types, StatInv, Local, locals, family
<1>5. ScanOK(p)'
  <2>1. Children(p)' = Children(p) /\ ScanOK(p) /\ UNCHANGED <<stat, sptr>>
    BY <1>4, TreeSame DEF Local, IInv, ScanInv, Scan, family
  <2>2. child[p] \in Children(p)
    BY <2>1 DEF Scan, ScanOK, Scanning
  <2>3. child[p] \in Proc
           /\ (sptr[child[p]] = None \/ sptr[child[p]] \in Children(p))
    BY <2>2, ListClosed DEF IInv, TreeInv, Children
  <2>4. CASE pc'[p] = "scan"
    <3>1. child'[p] = sptr[child[p]] /\ q'[p] = child[p]
      BY <2>4 DEF Scan, IInv, Types
    <3> QED
      BY <2>1, <2>2, <2>3, <2>4, <3>1 DEF ScanOK
  <2>5. CASE pc'[p] # "scan"
    <3>1. /\ child' = child /\ q' = q /\ pc[p] = "scan" /\ child[p] # None
          /\ \/ pc'[p] = "bury" /\ stat[child[p]] = "SZOMB"
             \/ pc'[p] = "report"
      BY <2>5 DEF Scan, IInv, Types
    <3> QED
      BY <2>1, <2>2, <3>1 DEF ScanOK, Scanning
  <2> QED
    BY <2>4, <2>5
<1>6. SeenOK(p)'
  <2>1. /\ \A c \in Children(p)' : c \in Children(p) /\ c \in Proc
        /\ UNCHANGED <<stat, sptr, zombie, options>>
    BY <1>4, TreeSame DEF Local, Scan, family, Children
  <2>2. \A c \in Children(p)' : Missed(p, c)' => Missed(p, c)
    BY <1>4, <2>1, MissedKept
  <2>3. child[p] \in Proc
    BY DEF Scan, IInv, Types
  <2>4. ASSUME zombie[p] = 0, NEW c \in Children(p), Missed(p, c)
        PROVE  Reaches(sptr, child[p], c)
    BY <2>4 DEF IInv, SeenInv, SeenOK, Scan
  <2>5. CASE pc'[p] = "scan"
    <3>1. /\ child'[p] = sptr[child[p]]
          /\ stat[child[p]] # "SZOMB" /\ ~StopWanted(p, child[p])
      BY <2>5 DEF Scan, IInv, Types
    <3>2. ASSUME zombie[p] = 0, NEW c \in Children(p), Missed(p, c)
          PROVE  Reaches(sptr, sptr[child[p]], c)
      <4>1. c # child[p]
        BY <3>1, <3>2 DEF Missed, Waitable
      <4> QED
        BY <2>3, <2>4, <3>2, <4>1, ReachNext
    <3> QED
      BY <2>1, <2>2, <2>5, <3>1, <3>2 DEF SeenOK
  <2>6. CASE pc'[p] = "report"
    <3>1. child' = child /\ stat'[child'[p]] # "SZOMB"
      BY <2>6 DEF Scan, IInv, Types, StopWanted
    <3> QED
      BY <2>1, <2>2, <2>4, <2>6, <3>1 DEF SeenOK
  <2>7. CASE pc'[p] = "bury"
    BY <2>7 DEF SeenOK
  <2> QED
    BY <2>5, <2>6, <2>7 DEF Scan, IInv, Types
<1> QED
  BY <1>1, <1>2, <1>3, <1>4, <1>5, <1>6, LocalKept

LEMMA NoWaitStep ==
  ASSUME IInv, NEW p \in Proc, NoWait(p)
  PROVE  IInv'
<1>1. Types'
  BY DEF NoWait, Return, IInv, Types, locals, family
<1>2. StatInv'
  BY DEF NoWait, Return, IInv, Types, StatInv, locals, family
<1>3. InitInv'
  BY DEF NoWait, Return, IInv, Types, InitInv, locals, family
<1>4. Local(p)
  <2>1. Quiet
    BY DEF NoWait, Return, IInv, Types, StatInv, Quiet, Used, Giving, Gone,
           locals, family
  <2> QED
    BY <2>1 DEF NoWait, Return, IInv, Types, StatInv, Local, locals, family
<1>5. ScanOK(p)'
  BY DEF NoWait, Return, IInv, Types, ScanOK, Scanning, locals, family
<1>6. SeenOK(p)'
  BY DEF NoWait, Return, IInv, Types, SeenOK, locals, family
<1> QED
  BY <1>1, <1>2, <1>3, <1>4, <1>5, <1>6, LocalKept

LEMMA PEventStep ==
  ASSUME IInv, NEW p \in Proc, PEvent(p)
  PROVE  IInv'
<1>1. Types'
  BY DEF PEvent, IInv, Types, locals, family
<1>2. StatInv'
  BY DEF PEvent, IInv, Types, StatInv, locals, family
<1>3. InitInv'
  BY DEF PEvent, IInv, Types, InitInv, locals, family
<1>4. Local(p)
  <2>1. Quiet
    BY DEF PEvent, IInv, Types, StatInv, Quiet, Used, Giving, Gone, locals,
           family
  <2> QED
    BY <2>1 DEF PEvent, IInv, Types, StatInv, Local, locals, family
<1>5. ScanOK(p)'
  BY DEF PEvent, IInv, Types, ScanOK, Scanning, locals, family
<1>6. SeenOK(p)'
  <2>1. CASE pc'[p] = "asleep"
    <3>1. zombie[p] = 0 /\ pc[p] = "scan" /\ child[p] = None /\ p \in Proc
      BY <2>1 DEF PEvent, IInv, Types
    <3>2. \A c \in Children(p) : ~Missed(p, c)
      BY <3>1, ReachEnd DEF IInv, SeenInv, SeenOK
    <3>3. \A c \in Children(p)' : c \in Children(p) /\ c \in Proc
      BY <1>4, TreeSame DEF Local, Children
    <3>4. options'[p] = options[p]
      BY DEF PEvent, locals
    <3>5. \A c \in Children(p)' : ~Missed(p, c)'
      BY <1>4, <3>2, <3>3, <3>4, MissedKept
    <3> QED
      BY <2>1, <3>5 DEF SeenOK
  <2>2. CASE pc'[p] = "first"
    BY <2>2 DEF SeenOK
  <2> QED
    BY <2>1, <2>2 DEF PEvent, IInv, Types
<1> QED
  BY <1>1, <1>2, <1>3, <1>4, <1>5, <1>6, LocalKept

LEMMA InterruptStep ==
  ASSUME IInv, NEW p \in Proc, Interrupt(p)
  PROVE  IInv'
<1>1. Types'
  BY DEF Interrupt, Return, IInv, Types, locals, family
<1>2. StatInv'
  BY DEF Interrupt, Return, IInv, Types, StatInv, locals, family
<1>3. InitInv'
  BY DEF Interrupt, Return, IInv, Types, InitInv, locals, family
<1>4. Local(p)
  <2>1. Quiet
    BY DEF Interrupt, Return, IInv, Types, StatInv, Quiet, Used, Giving, Gone,
           locals, family
  <2> QED
    BY <2>1 DEF Interrupt, Return, IInv, Types, StatInv, Local, locals, family
<1>5. ScanOK(p)'
  BY DEF Interrupt, Return, IInv, Types, ScanOK, Scanning, locals, family
<1>6. SeenOK(p)'
  BY DEF Interrupt, Return, IInv, Types, SeenOK, locals, family
<1> QED
  BY <1>1, <1>2, <1>3, <1>4, <1>5, <1>6, LocalKept

LEMMA BuryStep ==
  ASSUME IInv, NEW p \in Proc, Bury(p)
  PROVE  IInv'
<1>1. Types'
  BY DEF Bury, IInv, Types, locals, family
<1>2. StatInv'
  BY DEF Bury, IInv, Types, StatInv, locals, family
<1>3. InitInv'
  BY DEF Bury, IInv, Types, InitInv, locals, family
<1>4. Local(p)
  <2>1. Quiet
    BY DEF Bury, IInv, Types, StatInv, Quiet, Used, Giving, Gone, locals,
           family
  <2> QED
    BY <2>1 DEF Bury, IInv, Types, StatInv, Local, locals, family
<1>5. ScanOK(p)'
  <2>1. Children(p)' = Children(p) /\ ScanOK(p) /\ UNCHANGED <<stat, sptr>>
    BY <1>4, TreeSame DEF Local, IInv, ScanInv, Bury, family
  <2>2. pc[p] = "bury" /\ pc'[p] = "unlink" /\ UNCHANGED <<child, q>>
    BY DEF Bury, IInv, Types, locals
  <2>3. child[p] \in Proc /\ stat[child[p]] = "SZOMB"
    BY <2>1, <2>2 DEF ScanOK, IInv, Types
  <2>4. pc[child[p]] = "dead" /\ child[p] # p
    BY <2>2, <2>3 DEF Bury, StateFree, IInv, StatInv
  <2>5. pc'[child[p]] = "dead"
    BY <2>3, <2>4 DEF Bury, IInv, Types
  <2> QED
    BY <2>1, <2>2, <2>3, <2>5 DEF ScanOK, Scanning
<1>6. SeenOK(p)'
  BY DEF Bury, IInv, Types, SeenOK, locals, family
<1> QED
  BY <1>1, <1>2, <1>3, <1>4, <1>5, <1>6, LocalKept

LEMMA ReportStep ==
  ASSUME IInv, NEW p \in Proc, Report(p)
  PROVE  IInv'
<1>1. Types'
  <2>1. child[p] \in Proc
    BY DEF Report, IInv, ScanInv, ScanOK, Types
  <2>2. /\ UNCHANGED <<stat, pptr, cptr, sptr, procmax, tty, zombie>>
        /\ \/ /\ wted' = wted \cup {child[p]}
              /\ pc' = [pc EXCEPT ![p] = "user"]
              /\ child' = [child EXCEPT ![p] = None]
              /\ q' = [q EXCEPT ![p] = None]
              /\ options' = [options EXCEPT ![p] = {}]
           \/ /\ q' = [q EXCEPT ![p] = child[p]]
              /\ child' = [child EXCEPT ![p] = sptr[child[p]]]
              /\ pc' = [pc EXCEPT ![p] = "scan"]
              /\ UNCHANGED <<wted, options>>
    BY DEF Report, Return, family
  <2> QED
    BY <2>1, <2>2 DEF IInv, Types
<1>2. StatInv'
  BY DEF Report, Return, IInv, Types, StatInv, locals, family
<1>3. InitInv'
  <2>1. /\ UNCHANGED family
        /\ pc'[p] \in {"scan", "user"} /\ \A x \in Proc \ {p} : pc'[x] = pc[x]
    BY DEF Report, Return, IInv, Types, family
  <2>2. init \in Proc
    BY ExitAssumption DEF init, Proc
  <2> QED
    BY <2>1, <2>2 DEF IInv, InitInv, family
<1>4. Local(p)
  <2>1. Quiet
    BY DEF Report, Return, IInv, Types, StatInv, Quiet, Used, Giving, Gone,
           locals, family
  <2> QED
    BY <2>1 DEF Report, Return, IInv, Types, StatInv, Local, locals, family
<1>5. ScanOK(p)'
  <2>1. Children(p)' = Children(p) /\ ScanOK(p) /\ UNCHANGED <<stat, sptr>>
    BY <1>4, TreeSame DEF Local, IInv, ScanInv, Report, family
  <2>2. CASE pc'[p] = "scan"
    <3>1. /\ pc[p] = "report" /\ child[p] # None
          /\ child'[p] = sptr[child[p]] /\ q'[p] = child[p]
      BY <2>1, <2>2 DEF Report, Return, IInv, Types, ScanOK
    <3>2. child[p] \in Children(p)
      BY <2>1, <3>1 DEF ScanOK, Scanning
    <3>3. sptr[child[p]] = None \/ sptr[child[p]] \in Children(p)
      BY <3>2, ListClosed DEF IInv, TreeInv
    <3> QED
      BY <2>1, <2>2, <3>1, <3>2, <3>3 DEF ScanOK
  <2>3. CASE pc'[p] = "user"
    BY <2>3 DEF ScanOK, Scanning
  <2> QED
    BY <2>2, <2>3 DEF Report, Return, IInv, Types
<1>6. SeenOK(p)'
  <2>1. CASE pc'[p] = "scan"
    <3>1. /\ \A c \in Children(p)' : c \in Children(p) /\ c \in Proc
          /\ UNCHANGED <<stat, sptr, zombie>>
      BY <1>4, TreeSame DEF Local, Report, family, Children
    <3>2. /\ pc[p] = "report" /\ stat[child[p]] # "SSTOP"
          /\ options'[p] = options[p] /\ child'[p] = sptr[child[p]]
      BY <2>1 DEF Report, Return, IInv, Types
    <3>3. \A c \in Children(p)' : Missed(p, c)' => Missed(p, c)
      BY <1>4, <3>1, <3>2, MissedKept
    <3>4. child[p] \in Proc
      BY <3>2 DEF IInv, ScanInv, ScanOK, Types
    <3>5. ASSUME zombie[p] = 0, NEW c \in Children(p), Missed(p, c)
          PROVE  Reaches(sptr, sptr[child[p]], c)
      <4>1. Reaches(sptr, child[p], c)
        BY <3>2, <3>5 DEF IInv, SeenInv, SeenOK
      <4>2. c # child[p]
        BY <3>2, <3>5 DEF IInv, SeenInv, SeenOK, Missed, Waitable, StopWanted
      <4> QED
        BY <3>4, <4>1, <4>2, ReachNext
    <3> QED
      BY <2>1, <3>1, <3>2, <3>3, <3>5 DEF SeenOK
  <2>2. CASE pc'[p] = "user"
    BY <2>2 DEF SeenOK
  <2> QED
    BY <2>1, <2>2 DEF Report, Return, IInv, Types
<1> QED
  BY <1>1, <1>2, <1>3, <1>4, <1>5, <1>6, LocalKept

LEMMA StopSignalStep ==
  ASSUME IInv, NEW p \in Proc, StopSignal(p)
  PROVE  IInv'
<1>1. Types'
  BY DEF StopSignal, IInv, Types, locals, family
<1>2. StatInv'
  BY DEF StopSignal, IInv, Types, StatInv, locals, family
<1>3. InitInv'
  BY DEF StopSignal, IInv, Types, InitInv, locals, family
<1>4. Local(p)
  <2>1. Quiet
    BY DEF StopSignal, IInv, Types, StatInv, Quiet, Used, Giving, Gone,
           locals, family
  <2> QED
    BY <2>1 DEF StopSignal, IInv, Types, StatInv, Local, locals, family
<1>5. ScanOK(p)'
  BY DEF StopSignal, IInv, Types, ScanOK, Scanning, locals, family
<1>6. SeenOK(p)'
  BY DEF StopSignal, IInv, Types, SeenOK, locals, family
<1> QED
  BY <1>1, <1>2, <1>3, <1>4, <1>5, <1>6, LocalKept

LEMMA ContStep ==
  ASSUME IInv, NEW p \in Proc, Cont(p)
  PROVE  IInv'
<1>1. Types'
  BY DEF Cont, Continue, IInv, Types, locals, family
<1>2. StatInv'
  BY DEF Cont, Continue, IInv, Types, StatInv, locals, family
<1>3. InitInv'
  BY DEF Cont, Continue, IInv, Types, InitInv, locals, family
<1>4. Local(p)
  <2>1. Quiet
    BY DEF Cont, Continue, IInv, Types, StatInv, Quiet, Used, Giving, Gone,
           locals, family
  <2> QED
    BY <2>1 DEF Cont, Continue, IInv, Types, StatInv, Local, locals, family
<1>5. ScanOK(p)'
  BY DEF Cont, Continue, IInv, Types, ScanOK, Scanning, locals, family
<1>6. SeenOK(p)'
  BY DEF Cont, Continue, IInv, Types, SeenOK, locals, family
<1> QED
  BY <1>1, <1>2, <1>3, <1>4, <1>5, <1>6, LocalKept

-----------------------------------------------------------------------------
(* Stops, deaths and the posts for them                                    *)

LEMMA InitProc == init \in Proc
BY ExitAssumption DEF init, Proc

(* Whoever is about to post is looked for by the parent it is listed with. *)
LEMMA Announced ==
  ASSUME ParentInv', NEW a \in Proc, NEW c \in Children(a)',
         pc'[c] \in {"post", "stopping"}
  PROVE  ToBePosted(a, c)'
<1>1. CASE \E x \in Proc : pc'[x] = "adopt" /\ q'[x] = c
  <2>1. PICK x \in Proc : pc'[x] = "adopt" /\ q'[x] = c
    BY <1>1
  <2>2. a = init
    BY <2>1 DEF Children, ListedWith
  <2>3. cptr'[x] # None
    BY <2>1 DEF ParentInv, Giving
  <2> QED
    BY <2>1, <2>2, <2>3 DEF ToBePosted
<1>2. CASE ~ \E x \in Proc : pc'[x] = "adopt" /\ q'[x] = c
  <2>1. pptr'[c] = a
    BY <1>2 DEF Children, ListedWith
  <2> QED
    BY <2>1 DEF ToBePosted
<1> QED
  BY <1>1, <1>2

(* p stops or dies, and has yet to post.                                   *)
Announcing(p) ==
  /\ Quiet
  /\ stat' \in [Proc -> {"NULL", "SRUN", "SSTOP", "SZOMB"}]
  /\ pc[p] \in {"stop", "exit"} /\ pc'[p] \in {"post", "stopping"}
  /\ stat[p] # "SZOMB"
  /\ \A x \in Proc \ {p} : pc'[x] = pc[x] /\ stat'[x] = stat[x]
  /\ wted' = wted \/ wted' = wted \ {p}
  /\ UNCHANGED <<zombie, locals>>

LEMMA AnnouncingKept ==
  ASSUME IInv, Types', StatInv', InitInv', NEW p \in Proc, Announcing(p)
  PROVE  IInv'
<1>1. TreeInv'
  BY TreeKept DEF IInv, Announcing
<1>2. ASSUME NEW a \in Proc PROVE ScanOK(a)' /\ SeenOK(a)'
  <2>1. /\ Children(a)' = Children(a)
        /\ \A c \in Children(a) : c \in Proc
    BY TreeSame DEF Announcing, Children
  <2>2. Same(a)
    BY <2>1 DEF Same, Announcing, Quiet, family
  <2>3. Steady(a)
    BY DEF Steady, Scanning, Announcing, locals
  <2>4. NoNews(a)
    <3>1. ASSUME NEW c \in Children(a)', Missed(a, c)'
          PROVE  /\ c \in Children(a) /\ Missed(a, c)
                 /\ stat'[c] = "SZOMB" => stat[c] = "SZOMB"
      <4>1. c # p
        BY <1>1, <3>1, Announced DEF TreeInv, Missed, Announcing
      <4>2. stat'[c] = stat[c] /\ (c \in wted' <=> c \in wted)
        BY <2>1, <4>1 DEF Announcing
      <4>3. Waitable(a, c)' <=> Waitable(a, c)
        BY <4>2 DEF Waitable, StopWanted, Announcing, locals
      <4>4. ToBePosted(a, c) => ToBePosted(a, c)'
        BY <2>1, <4>1 DEF ToBePosted, Announcing, Quiet, family
      <4> QED
        BY <2>1, <3>1, <4>2, <4>3, <4>4 DEF Missed
    <3> QED
      BY <3>1 DEF NoNews, Announcing
  <2> QED
    BY <2>2, <2>3, <2>4, ScanKept, SeenKept DEF IInv, TreeInv, ScanInv, SeenInv
<1> QED
  BY <1>1, <1>2 DEF IInv, ScanInv, SeenInv

LEMMA StopStep ==
  ASSUME IInv, NEW p \in Proc, Stop(p)
  PROVE  IInv'
<1>1. Types'
  BY DEF Stop, IInv, Types, locals, family
<1>2. StatInv'
  BY DEF Stop, IInv, Types, StatInv, locals, family
<1>3. InitInv'
  BY DEF Stop, IInv, Types, InitInv, locals, family
<1>4. Quiet
  BY DEF Stop, IInv, Types, StatInv, Quiet, Used, Giving, Gone, locals, family
<1>5. Announcing(p)
  BY <1>1, <1>4 DEF Stop, IInv, Types, StatInv, Announcing, locals, family
<1> QED
  BY <1>1, <1>2, <1>3, <1>5, AnnouncingKept

LEMMA ZombieStep ==
  ASSUME IInv, NEW p \in Proc, Zombie(p)
  PROVE  IInv'
<1>1. Types'
  BY DEF Zombie, IInv, Types, locals, family
<1>2. StatInv'
  BY DEF Zombie, IInv, Types, StatInv, locals, family
<1>3. InitInv'
  BY DEF Zombie, IInv, Types, InitInv, locals, family
<1>4. Quiet
  BY DEF Zombie, IInv, Types, StatInv, Quiet, Used, Giving, Gone, locals,
         family
<1>5. Announcing(p)
  BY <1>1, <1>4 DEF Zombie, IInv, Types, StatInv, Announcing, locals, family
<1> QED
  BY <1>1, <1>2, <1>3, <1>5, AnnouncingKept

(* p posts to its parent, which is awake with the post or has it.          *)
Posting(p) ==
  LET r == pptr[p] IN
  /\ Quiet
  /\ r \in Proc
  /\ pc[p] \in {"post", "stopping"} /\ pc'[p] \in {"dead", "stopped"}
  /\ pc'[r] = "first" \/ zombie'[r] = 1
  /\ \A x \in Proc \ {p} : pc'[x] = pc[x] \/ (pc[x] = "asleep" /\ pc'[x] = "first")
  /\ \A x \in Proc \ {r} : zombie'[x] = zombie[x]
  /\ UNCHANGED <<stat, wted, tty, locals>>

LEMMA PostingKept ==
  ASSUME IInv, Types', StatInv', InitInv', NEW p \in Proc, Posting(p)
  PROVE  IInv'
<1>1. TreeInv'
  BY TreeKept DEF IInv, Posting
<1>2. ASSUME NEW a \in Proc PROVE ScanOK(a)' /\ SeenOK(a)'
  <2>1. /\ Children(a)' = Children(a)
        /\ \A c \in Children(a) : c \in Proc
    BY TreeSame DEF Posting, Children
  <2>2. Same(a)
    BY <2>1 DEF Same, Posting, Quiet, family
  <2>3. Steady(a)
    BY DEF Steady, Scanning, Posting, locals
  <2>4. ScanOK(a)'
    BY <2>2, <2>3, ScanKept DEF IInv, ScanInv
  <2>5. CASE a = pptr[p]
    BY <2>4, <2>5 DEF Posting, SeenOK
  <2>6. CASE a # pptr[p]
    <3>1. ASSUME NEW c \in Children(a)', Missed(a, c)'
          PROVE  c \in Children(a) /\ Missed(a, c)
      <4>1. Waitable(a, c)' <=> Waitable(a, c)
        BY DEF Waitable, StopWanted, Posting, locals
      <4>2. ToBePosted(a, c) => ToBePosted(a, c)'
        BY <2>1, <2>6 DEF ToBePosted, Posting, Quiet, family
      <4> QED
        BY <2>1, <3>1, <4>1, <4>2 DEF Missed
    <3>2. NoNews(a)
      BY <2>6, <3>1 DEF NoNews, Posting
    <3> QED
      BY <2>2, <2>3, <2>4, <3>2, SeenKept
         DEF IInv, TreeInv, ScanInv, SeenInv
  <2> QED
    BY <2>4, <2>5, <2>6
<1> QED
  BY <1>1, <1>2 DEF IInv, ScanInv, SeenInv

LEMMA StopPostStep ==
  ASSUME IInv, NEW p \in Proc, StopPost(p)
  PROVE  IInv'
<1> DEFINE r == pptr[p]
<1>1. r \in Proc \ {p}
  <2>1. p # init /\ Used(p)
    BY DEF StopPost, IInv, InitInv, StatInv, Used
  <2> QED
    BY <2>1 DEF StopPost, IInv, TreeInv, ParentInv, StateFree
<1>2. \/ /\ pc[r] = "asleep"
         /\ pc' = [pc EXCEPT ![p] = "stopped", ![r] = "first"]
         /\ UNCHANGED zombie
      \/ /\ pc[r] # "asleep"
         /\ pc' = [pc EXCEPT ![p] = "stopped"]
         /\ zombie' = [zombie EXCEPT ![r] = 1]
  BY <1>1 DEF StopPost, VZombie, IInv, Types
<1>3. UNCHANGED <<stat, family, wted, tty, locals>>
  BY DEF StopPost
<1>4. pc[p] \in {"post", "stopping"} /\ p # init /\ pc[r] \notin Gone
  BY DEF StopPost, IInv, InitInv, StatInv, Used, TreeInv, ParentInv
<1> HIDE DEF r
<1>5. Types'
  BY <1>1, <1>2, <1>3 DEF IInv, Types, locals, family
<1>6. StatInv'
  BY <1>1, <1>2, <1>3 DEF StopPost, IInv, Types, StatInv, family
<1>7. InitInv'
  BY <1>1, <1>2, <1>3, <1>4, InitProc DEF IInv, Types, InitInv, family
<1>8. Quiet
  BY <1>1, <1>2, <1>3, <1>4
     DEF StopPost, IInv, Types, Quiet, Used, Giving, Gone, locals
<1>9. Posting(p)
  BY <1>1, <1>2, <1>3, <1>4, <1>8 DEF StopPost, IInv, Types, Posting, r
<1> QED
  BY <1>5, <1>6, <1>7, <1>9, PostingKept

LEMMA PostStep ==
  ASSUME IInv, NEW p \in Proc, Post(p)
  PROVE  IInv'
<1> DEFINE r == pptr[p]
<1>1. r \in Proc \ {p}
  <2>1. p # init /\ Used(p)
    BY DEF Post, IInv, InitInv, StatInv, Used
  <2> QED
    BY <2>1 DEF Post, IInv, TreeInv, ParentInv, StateFree
<1>2. \/ /\ pc[r] = "asleep"
         /\ pc' = [pc EXCEPT ![p] = "dead", ![r] = "first"]
         /\ UNCHANGED zombie
      \/ /\ pc[r] # "asleep"
         /\ pc' = [pc EXCEPT ![p] = "dead"]
         /\ zombie' = [zombie EXCEPT ![r] = 1]
  BY <1>1 DEF Post, VZombie, IInv, Types
<1>3. UNCHANGED <<stat, family, wted, tty, locals>>
  BY DEF Post
<1>4. pc[p] \in {"post", "stopping"} /\ p # init /\ pc[r] \notin Gone
  BY DEF Post, IInv, InitInv, StatInv, Used, TreeInv, ParentInv
<1> HIDE DEF r
<1>5. Types'
  BY <1>1, <1>2, <1>3 DEF IInv, Types, locals, family
<1>6. StatInv'
  BY <1>1, <1>2, <1>3 DEF Post, IInv, Types, StatInv, family
<1>7. InitInv'
  BY <1>1, <1>2, <1>3, <1>4, InitProc DEF IInv, Types, InitInv, family
<1>8. Quiet
  BY <1>1, <1>2, <1>3, <1>4
     DEF Post, IInv, Types, Quiet, Used, Giving, Gone, locals
<1>9. Posting(p)
  BY <1>1, <1>2, <1>3, <1>4, <1>8 DEF Post, IInv, Types, Posting, r
<1> QED
  BY <1>5, <1>6, <1>7, <1>9, PostingKept

-----------------------------------------------------------------------------
(* exit(): the lists stay as they are                                      *)

LEMMA ListsKept ==
  ASSUME ListInv, ReachInv, sptr' = sptr,
         \A c \in Proc : Used(c)' <=> Used(c),
         \A c \in Proc : ListedWith(c)' = ListedWith(c),
         \A p \in Proc : FirstOf(p)' = FirstOf(p)
  PROVE  ListInv' /\ ReachInv' /\ \A p : Children(p)' = Children(p)
<1>1. \A p : Children(p)' = Children(p)
  BY DEF Children
<1>2. ListInv'
  BY DEF ListInv
<1>3. ReachInv'
  BY <1>1 DEF ReachInv
<1> QED
  BY <1>1, <1>2, <1>3

LEMMA TopKept ==
  ASSUME Types, TopInUse, procmax' = procmax,
         \A c \in Proc : Used(c)' <=> Used(c)
  PROVE  TopInUse'
<1>1. procmax - 1 \in Proc
  BY ExitAssumption DEF Types, Proc, init
<1>2. Used(procmax - 1)'
  BY <1>1 DEF TopInUse, Used
<1> QED
  BY <1>2 DEF TopInUse

(* When nobody gives children away, p_pptr is right.                       *)
LEMMA Listed ==
  ASSUME ListFree
  PROVE  /\ \A c \in Proc : ListedWith(c) = pptr[c]
         /\ \A p \in Proc : FirstOf(p) = cptr[p] /\ ~Giving(p)
BY DEF ListFree, ListedWith, FirstOf, Giving

(* A step that changes no list, and nothing a scan of a looks at.          *)
LEMMA ScansKept ==
  ASSUME IInv, TreeInv', sptr' = sptr,
         \A c : Children(c)' = Children(c),
         NEW a \in Proc, Steady(a), NoNews(a),
         \A c \in Proc : stat[c] = "SZOMB" => stat'[c] = "SZOMB",
         \A c \in Proc : pc[c] = "dead" => pc'[c] = "dead"
  PROVE  ScanOK(a)' /\ SeenOK(a)'
<1>1. Same(a)
  BY DEF Same, Children
<1> QED
  BY <1>1, ScanKept, SeenKept DEF IInv, TreeInv, ScanInv, SeenInv

LEMMA ExitStep ==
  ASSUME IInv, NEW p \in Proc, Exit(p)
  PROVE  IInv'
<1>1. Types'
  BY DEF Exit, IInv, Types, family
<1>2. StatInv'
  BY DEF Exit, IInv, Types, StatInv, family
<1>3. InitInv'
  BY DEF Exit, IInv, Types, InitInv, family
<1>4. /\ pc[p] = "user" /\ pc' = [pc EXCEPT ![p] = "move"]
      /\ child' = [child EXCEPT ![p] = cptr[p]]
      /\ UNCHANGED <<stat, pptr, cptr, sptr, procmax, wted, tty, zombie, q,
                     options>>
      /\ ListFree
  BY DEF Exit, family
<1>5. TreeInv'
  <2>1. LockInv'
    BY <1>4, Listed DEF LockInv, Giving, IInv, Types
  <2>2. ParentInv'
    <3>1. \A x \in Proc : pc'[x] \in Gone => pc[x] \in Gone
      BY <1>4 DEF IInv, Types, Gone
    <3>2. \A x \in Proc : pc'[x] # "adopt"
      BY <1>4 DEF ListFree, IInv, Types
    <3>3. \A x \in Proc : Giving(x)' => x = p
      BY <1>4, Listed DEF Giving, IInv, Types
    <3>4. pc'[p] = "move" /\ child'[p] = cptr'[p]
      BY <1>4 DEF IInv, Types
    <3>5. \A c \in Proc : Used(c)' /\ c # init =>
            pptr'[c] \in Proc /\ pc'[pptr'[c]] \notin Gone
      BY <1>4, <3>1 DEF IInv, TreeInv, ParentInv, Used
    <3> QED
      BY <3>2, <3>3, <3>4, <3>5 DEF ParentInv
  <2>3. \A c \in Proc : ListedWith(c)' = ListedWith(c)
    BY <1>4, Listed DEF ListedWith, ListFree, IInv, Types
  <2>4. \A x \in Proc : FirstOf(x)' = FirstOf(x)
    BY <1>4, Listed DEF FirstOf, Giving, ListFree, IInv, Types
  <2>5. ListInv' /\ ReachInv'
    BY <1>4, <2>3, <2>4, ListsKept DEF IInv, TreeInv, Used
  <2>6. TopInUse'
    BY <1>4, TopKept DEF IInv, TreeInv, Used
  <2> QED
    BY <2>1, <2>2, <2>5, <2>6 DEF TreeInv
<1>6. \A c : Children(c)' = Children(c)
  BY <1>4, Listed DEF Children, ListedWith, ListFree, IInv, Types, Used
<1>7. ASSUME NEW a \in Proc PROVE ScanOK(a)' /\ SeenOK(a)'
  <2>1. Steady(a)
    BY <1>4 DEF Steady, Scanning, IInv, Types
  <2>2. NoNews(a)
    <3>1. ASSUME NEW c \in Children(a)', Missed(a, c)'
          PROVE  c \in Children(a) /\ Missed(a, c)
      <4>1. Waitable(a, c)' <=> Waitable(a, c)
        BY <1>4 DEF Waitable, StopWanted
      <4>2. ToBePosted(a, c) => ToBePosted(a, c)'
        BY <1>4 DEF ToBePosted, ListFree, IInv, Types
      <4> QED
        BY <1>6, <3>1, <4>1, <4>2 DEF Missed
    <3> QED
      BY <1>4, <3>1 DEF NoNews
  <2> QED
    BY <1>4, <1>5, <1>6, <2>1, <2>2, ScansKept DEF IInv, Types
<1> QED
  BY <1>1, <1>2, <1>3, <1>5, <1>7 DEF IInv, ScanInv, SeenInv

LEMMA AdoptStep ==
  ASSUME IInv, NEW p \in Proc, Adopt(p)
  PROVE  IInv'
<1> DEFINE c == q[p]
<1>1. c \in Proc /\ Used(c) /\ c # init /\ pc[p] = "adopt" /\ cptr[p] # None
  BY DEF Adopt, IInv, TreeInv, ParentInv, Giving
<1>2. \/ /\ stat[c] = "SSTOP" /\ pc[c] = "stopped"
         /\ stat' = [stat EXCEPT ![c] = "SRUN"]
         /\ tty' = tty \ {c}
         /\ pc' = [pc EXCEPT ![p] = "move", ![c] = "user"]
      \/ /\ stat[c] # "SSTOP" /\ c \notin tty
         /\ pc' = [pc EXCEPT ![p] = "move"]
         /\ UNCHANGED <<stat, tty>>
  BY <1>1 DEF Adopt, StateFree, IInv, StatInv
<1>3. /\ pptr' = [pptr EXCEPT ![c] = init]
      /\ UNCHANGED <<cptr, sptr, procmax, wted, zombie, child, q, options>>
  BY DEF Adopt, locals
<1>4. \A x \in Proc : Giving(x) => x = p
  BY <1>1 DEF IInv, TreeInv, LockInv, Giving
<1>5. c = q[p]
  OBVIOUS
<1> HIDE DEF c
<1>6. Types'
  BY <1>1, <1>2, <1>3, InitProc DEF IInv, Types
<1>7. StatInv'
  BY <1>1, <1>2, <1>3 DEF IInv, Types, StatInv
<1>8. InitInv'
  <2>1. p # init
    BY <1>1 DEF IInv, InitInv
  <2> QED
    BY <1>1, <1>2, <1>3, <2>1, InitProc DEF IInv, Types, InitInv
<1>9. /\ pc'[p] = "move"
      /\ \A x \in Proc \ {p, c} : pc'[x] = pc[x]
      /\ pc'[c] = pc[c] \/ pc'[c] = "user" \/ c = p
      /\ \A x \in Proc : stat'[x] = stat[x] \/ stat'[x] = "SRUN"
      /\ \A x \in Proc : Used(x)' <=> Used(x)
  BY <1>1, <1>2 DEF IInv, Types, Used
<1>10. /\ \A x \in Proc : Giving(x)' <=> Giving(x)
       /\ \A x \in Proc : pc'[x] # "adopt"
       /\ \A x \in Proc : pc'[x] \in Gone => pc[x] \in Gone
  BY <1>1, <1>4, <1>9 DEF Giving, Gone
<1>11. \A x \in Proc : ListedWith(x)' = ListedWith(x)
  BY <1>1, <1>3, <1>4, <1>5, <1>10 DEF ListedWith, Giving, IInv, Types
<1>12. \A x \in Proc : FirstOf(x)' = FirstOf(x)
  BY <1>3, <1>10 DEF FirstOf
<1>13. ListInv' /\ ReachInv' /\ \A x : Children(x)' = Children(x)
  BY <1>3, <1>9, <1>11, <1>12, ListsKept DEF IInv, TreeInv
<1>14. TreeInv'
  <2>1. LockInv'
    BY <1>10 DEF IInv, TreeInv, LockInv
  <2>2. ParentInv'
    <3>1. pptr'[c] = init /\ \A x \in Proc \ {c} : pptr'[x] = pptr[x]
      BY <1>1, <1>3 DEF IInv, Types
    <3>2. init \in Proc /\ pc[init] \notin Gone
      BY InitProc DEF IInv, InitInv, Gone
    <3>3. \A x \in Proc : Used(x)' /\ x # init =>
            pptr'[x] \in Proc /\ pc'[pptr'[x]] \notin Gone
      BY <1>9, <1>10, <3>1, <3>2 DEF IInv, TreeInv, ParentInv
    <3>4. \A x \in Proc : Giving(x)' => cptr'[x] # None
      BY <1>1, <1>3, <1>4, <1>10
    <3> QED
      BY <1>10, <3>3, <3>4 DEF ParentInv
  <2>3. TopInUse'
    BY <1>3, <1>9, TopKept DEF IInv, TreeInv
  <2> QED
    BY <1>13, <2>1, <2>2, <2>3 DEF TreeInv
<1>15. ASSUME NEW a \in Proc PROVE ScanOK(a)' /\ SeenOK(a)'
  <2>1. Steady(a)
    BY <1>1, <1>2, <1>3 DEF Steady, Scanning, IInv, Types
  <2>2. NoNews(a)
    <3>1. ASSUME NEW x \in Children(a)', Missed(a, x)'
          PROVE  x \in Children(a) /\ Missed(a, x) /\ stat'[x] = stat[x]
      <4>1. x \in Children(a) /\ x \in Proc
        BY <1>13, <3>1 DEF Children
      <4>2. stat'[x] = stat[x] /\ (Waitable(a, x)' => Waitable(a, x))
        BY <1>3, <1>9, <3>1, <4>1 DEF Waitable, StopWanted, Missed
      <4>3. a # init
        BY <1>1, <1>3, <1>9, <3>1 DEF Missed, ToBePosted
      <4>4. ASSUME pc[x] \in {"post", "stopping"}, pptr[x] = a
            PROVE  FALSE
        <5>1. x # c
          BY <1>5, <4>1, <4>3, <4>4, <1>1 DEF Children, ListedWith
        <5>2. pc'[x] = pc[x] /\ pptr'[x] = a
          BY <1>1, <1>3, <1>9, <4>1, <4>4, <5>1 DEF IInv, Types
        <5> QED
          BY <3>1, <4>4, <5>2 DEF Missed, ToBePosted
      <4> QED
        BY <3>1, <4>1, <4>2, <4>3, <4>4 DEF Missed, ToBePosted
    <3> QED
      BY <1>3, <3>1 DEF NoNews
  <2>3. \A x \in Proc : stat[x] = "SZOMB" => stat'[x] = "SZOMB"
    BY <1>1, <1>2 DEF IInv, Types
  <2>4. \A x \in Proc : pc[x] = "dead" => pc'[x] = "dead"
    BY <1>1, <1>2 DEF IInv, Types
  <2> QED
    BY <1>3, <1>13, <1>14, <2>1, <2>2, <2>3, <2>4, ScansKept
<1> QED
  BY <1>6, <1>7, <1>8, <1>14, <1>15 DEF IInv, ScanInv, SeenInv

LEMMA GivenStep ==
  ASSUME IInv, NEW p \in Proc, Given(p)
  PROVE  IInv'
<1>1. pc[p] = "move" /\ child[p] = None /\ p # init
  BY DEF Given, IInv, InitInv
<1>2. /\ cptr' = [cptr EXCEPT ![p] = None]
      /\ q' = [q EXCEPT ![p] = None]
      /\ UNCHANGED <<stat, pptr, sptr, procmax, wted, tty, child, options>>
  BY DEF Given
<1>3. \/ /\ pc[init] = "asleep" /\ cptr[p] # None
         /\ pc' = [pc EXCEPT ![p] = "exit", ![init] = "first"]
         /\ UNCHANGED zombie
      \/ /\ pc[init] # "asleep" /\ cptr[p] # None
         /\ pc' = [pc EXCEPT ![p] = "exit"]
         /\ zombie' = [zombie EXCEPT ![init] = 1]
      \/ /\ cptr[p] = None
         /\ pc' = [pc EXCEPT ![p] = "exit"]
         /\ UNCHANGED zombie
  BY <1>1, InitProc DEF Given, VZombie, IInv, Types
<1>4. \A x \in Proc : Giving(x) => x = p
  BY <1>1 DEF IInv, TreeInv, LockInv, Giving
<1>5. Types'
  BY <1>1, <1>2, <1>3, InitProc DEF IInv, Types
<1>6. StatInv'
  BY <1>1, <1>2, <1>3, InitProc DEF IInv, Types, StatInv
<1>7. InitInv'
  BY <1>1, <1>2, <1>3, InitProc DEF IInv, Types, InitInv
<1>8. /\ pc'[p] = "exit"
      /\ \A x \in Proc \ {p} :
           pc'[x] = pc[x] \/ (pc[x] = "asleep" /\ pc'[x] = "first")
      /\ \A x \in Proc : Used(x)' <=> Used(x)
  BY <1>1, <1>2, <1>3, InitProc DEF IInv, Types, Used
<1>9. /\ \A x \in Proc : ~Giving(x)'
      /\ \A x \in Proc : pc'[x] \in Gone => pc[x] \in Gone \/ x = p
  BY <1>4, <1>8 DEF Giving, Gone
<1>10. \A x \in Proc : ListedWith(x)' = ListedWith(x) /\ ListedWith(x) = pptr[x]
  BY <1>1, <1>2, <1>4, <1>9 DEF ListedWith, Giving
<1>11. \A x \in Proc : FirstOf(x)' = FirstOf(x)
  BY <1>1, <1>2, <1>4, <1>9 DEF FirstOf, Giving, IInv, Types
<1>12. ListInv' /\ ReachInv' /\ \A x : Children(x)' = Children(x)
  BY <1>2, <1>8, <1>10, <1>11, ListsKept DEF IInv, TreeInv
<1>13. TreeInv'
  <2>1. \A c \in Proc : Used(c) => pptr[c] # p
    <3> SUFFICES ASSUME NEW c \in Proc, Used(c), pptr[c] = p
                 PROVE  FALSE
      OBVIOUS
    <3>1. c \in Children(p)
      BY <1>10 DEF Children
    <3>2. Reaches(sptr, None, c)
      BY <1>1, <3>1 DEF IInv, TreeInv, ReachInv, FirstOf, Giving
    <3> QED
      BY <3>2, ReachEnd
  <2>2. LockInv'
    BY <1>9 DEF LockInv
  <2>3. ParentInv'
    <3>1. \A x \in Proc : pc'[x] # "adopt"
      BY <1>9 DEF Giving
    <3>2. \A x \in Proc : Used(x)' /\ x # init =>
            pptr'[x] \in Proc /\ pc'[pptr'[x]] \notin Gone
      BY <1>2, <1>8, <1>9, <2>1 DEF IInv, TreeInv, ParentInv
    <3> QED
      BY <1>9, <3>1, <3>2 DEF ParentInv
  <2>4. TopInUse'
    BY <1>2, <1>8, TopKept DEF IInv, TreeInv
  <2> QED
    BY <1>12, <2>2, <2>3, <2>4 DEF TreeInv
<1>14. ASSUME NEW a \in Proc PROVE ScanOK(a)' /\ SeenOK(a)'
  <2>1. Steady(a)
    BY <1>2, <1>8 DEF Steady, Scanning, IInv, Types
  <2>2. /\ \A x \in Proc : stat[x] = "SZOMB" => stat'[x] = "SZOMB"
        /\ \A x \in Proc : pc[x] = "dead" => pc'[x] = "dead"
    BY <1>1, <1>2, <1>8
  <2>3. CASE a # init \/ cptr[p] = None
    <3>1. ASSUME NEW x \in Children(a)', Missed(a, x)'
          PROVE  x \in Children(a) /\ Missed(a, x)
      <4>1. x \in Children(a) /\ x \in Proc
        BY <1>12, <3>1 DEF Children
      <4>2. Waitable(a, x)' <=> Waitable(a, x)
        BY <1>2 DEF Waitable, StopWanted
      <4>3. ToBePosted(a, x) => ToBePosted(a, x)'
        BY <1>1, <1>2, <1>4, <1>8, <2>3, <4>1 DEF ToBePosted, Giving
      <4> QED
        BY <3>1, <4>1, <4>2, <4>3 DEF Missed
    <3>2. zombie'[a] = zombie[a]
      BY <1>3, <2>3, InitProc DEF IInv, Types
    <3>3. NoNews(a)
      BY <1>2, <3>1, <3>2 DEF NoNews
    <3> QED
      BY <1>2, <1>12, <1>13, <2>1, <2>2, <3>3, ScansKept
  <2>4. CASE a = init /\ cptr[p] # None
    <3>1. Same(a)
      BY <1>2, <1>12, <2>2 DEF Same, Children
    <3>2. ScanOK(a)'
      BY <2>1, <3>1, ScanKept DEF IInv, ScanInv
    <3>3. pc'[a] = "first" \/ zombie'[a] = 1
      BY <1>1, <1>3, <2>4 DEF IInv, Types
    <3> QED
      BY <3>2, <3>3 DEF SeenOK
  <2> QED
    BY <2>3, <2>4
<1> QED
  BY <1>5, <1>6, <1>7, <1>13, <1>14 DEF IInv, ScanInv, SeenInv

-----------------------------------------------------------------------------
(* The process table                                                       *)

LEMMA LeastOf ==
  ASSUME NEW S \in SUBSET Nat, S # {}
  PROVE  \E x \in S : \A y \in S : x <= y
<1> DEFINE R == OpToRel(<, Nat)
<1>1. IsWellFoundedOn(R, Nat)
  BY NatLessThanWellFounded
<1>2. \A x, y \in Nat : <<y, x>> \notin R => x <= y
  BY DEF OpToRel
<1> HIDE DEF R
<1>3. PICK x \in S : \A y \in S : ~(<<y, x>> \in R)
  BY <1>1, WFMin
<1> QED
  BY <1>2, <1>3

LEMMA LeastIsIn ==
  ASSUME NEW S \in SUBSET Nat, S # {}
  PROVE  Min(S) \in S /\ \A x \in S : Min(S) <= x
BY LeastOf DEF Min

LEMMA GreatestIsMax ==
  ASSUME NEW n \in Nat, NEW S \in SUBSET (0 .. n), S # {}
  PROVE  Max(S) \in S /\ \A x \in S : x <= Max(S)
<1> DEFINE T == {n - x : x \in S}
<1>0. \A x \in S : x \in Nat /\ x <= n /\ n - x \in Nat
  <2>1. \A x \in 0 .. n : x \in Nat /\ x <= n /\ n - x \in Nat
    OBVIOUS
  <2> QED
    BY <2>1
<1>1. T \in SUBSET Nat /\ T # {}
  BY <1>0
<1>2. PICK m \in T : \A y \in T : m <= y
  BY <1>1, LeastOf
<1>3. PICK x \in S : m = n - x
  BY <1>2
<1>4. \A y \in S : x >= y
  <2> SUFFICES ASSUME NEW y \in S PROVE x >= y
    OBVIOUS
  <2>1. m <= n - y
    BY <1>2
  <2>2. x \in Int /\ y \in Int
    BY <1>0
  <2> QED
    BY <1>3, <2>1, <2>2
<1> QED
  BY <1>3, <1>4 DEF Max

LEMMA SlotFree ==
  ASSUME IInv, Slot \in Proc
  PROVE  ~Used(Slot) /\ Slot <= procmax
<1>1. CASE FreeSlots # {}
  <2>1. FreeSlots \in SUBSET Nat
    BY DEF FreeSlots, Proc
  <2>2. Slot \in FreeSlots
    BY <1>1, <2>1, LeastIsIn DEF Slot
  <2> QED
    BY <2>2 DEF FreeSlots, Proc, IInv, Types, init
<1>2. CASE FreeSlots = {}
  BY <1>2 DEF Slot, IInv, Types, init, TreeInv, TopInUse
<1> QED
  BY <1>1, <1>2

LEMMA ForkStep ==
  ASSUME IInv, NEW p \in Proc, Fork(p)
  PROVE  IInv'
<1>0. PICK c \in Proc : c = Slot
  BY DEF Fork
<1>1. c \in Proc /\ ~Used(c) /\ c <= procmax
  BY <1>0, SlotFree
<1>2. pc[p] = "user" /\ p \in Parents /\ ListFree
  BY DEF Fork
<1>3. /\ procmax' = IF c = procmax THEN procmax + 1 ELSE procmax
      /\ stat' = [stat EXCEPT ![c] = "SRUN"]
      /\ pptr' = [pptr EXCEPT ![c] = p]
      /\ sptr' = [sptr EXCEPT ![c] = cptr[p]]
      /\ cptr' = [cptr EXCEPT ![p] = c]
      /\ wted' = wted \ {c}
      /\ pc' = [pc EXCEPT ![c] = "user"]
      /\ UNCHANGED <<tty, zombie, child, q, options>>
  BY <1>0 DEF Fork, locals
<1>4. pc[c] = "dead" /\ c # init /\ c # p /\ c \notin tty
  BY <1>1, <1>2, InitProc DEF IInv, StatInv, InitInv, Used
<1>5. Types'
  <2>1. procmax' \in init + 1 .. NPROC + 1
    BY <1>1, <1>3, ExitAssumption DEF IInv, Types, Proc, init
  <2>2. cptr[p] \in Proc \cup {None}
    BY DEF IInv, Types
  <2> QED
    BY <1>1, <1>3, <2>1, <2>2 DEF IInv, Types
<1>6. StatInv'
  BY <1>1, <1>3, <1>4 DEF IInv, Types, StatInv
<1>7. InitInv'
  BY <1>1, <1>3, <1>4, InitProc DEF IInv, Types, InitInv
<1>8. /\ stat'[c] = "SRUN" /\ pptr'[c] = p /\ sptr'[c] = cptr[p]
      /\ cptr'[p] = c /\ pc'[c] = "user"
      /\ \A x \in Proc \ {c} : /\ stat'[x] = stat[x] /\ pptr'[x] = pptr[x]
                               /\ sptr'[x] = sptr[x] /\ pc'[x] = pc[x]
                               /\ x \in wted' <=> x \in wted
      /\ \A x \in Proc \ {p} : cptr'[x] = cptr[x]
  BY <1>1, <1>3 DEF IInv, Types
<1>9. ListFree'
  BY <1>2, <1>8 DEF ListFree
<1>10. /\ \A x \in Proc : ListedWith(x) = pptr[x]
       /\ \A x \in Proc : FirstOf(x) = cptr[x] /\ ~Giving(x)
  BY <1>2, Listed
<1>11. /\ \A x \in Proc : ListedWith(x)' = pptr'[x]
       /\ \A x \in Proc : FirstOf(x)' = cptr'[x] /\ ~Giving(x)'
  BY <1>9 DEF ListFree, ListedWith, FirstOf, Giving
<1>12. /\ Used(c)'
       /\ \A x \in Proc \ {c} : Used(x)' <=> Used(x)
  BY <1>1, <1>8 DEF Used
<1>13. /\ Children(p)' = Children(p) \cup {c}
       /\ \A a : a # p => Children(a)' = Children(a)
       /\ \A a : c \notin Children(a)
  <2>1. \A a, x : x \in Children(a) <=> x \in Proc /\ Used(x) /\ pptr[x] = a
    BY <1>10 DEF Children
  <2>2. \A a, x : x \in Children(a)' <=> x \in Proc /\ Used(x)' /\ pptr'[x] = a
    BY <1>11 DEF Children
  <2> QED
    BY <1>1, <1>8, <1>12, <2>1, <2>2
<1>14. /\ \A x, y \in Proc : cptr[x] = y =>
            Used(y) /\ pptr[y] = x /\ \A z \in Proc : sptr[z] # y
       /\ \A x, y \in Proc : sptr[x] = y =>
            /\ Used(x) /\ Used(y) /\ pptr[y] = pptr[x]
            /\ \A z \in Proc : sptr[z] = y => z = x
  BY <1>10 DEF IInv, TreeInv, ListInv
<1>15. TreeInv'
  <2>1. LockInv'
    BY <1>11 DEF LockInv
  <2>2. ParentInv'
    <3>1. \A x \in Proc : pc'[x] \in Gone => pc[x] \in Gone
      BY <1>4, <1>8 DEF Gone
    <3>2. pc[p] \notin Gone
      BY <1>2 DEF Gone
    <3>3. \A x \in Proc : Used(x)' /\ x # init =>
            pptr'[x] \in Proc /\ pc'[pptr'[x]] \notin Gone
      BY <1>8, <1>12, <3>1, <3>2 DEF IInv, TreeInv, ParentInv
    <3>4. \A x \in Proc : pc'[x] # "adopt"
      BY <1>11 DEF Giving
    <3> QED
      BY <1>11, <3>3, <3>4 DEF ParentInv
  <2>3. ListInv'
    <3>1. ASSUME NEW x \in Proc, NEW y \in Proc, cptr'[x] = y
          PROVE  Used(y)' /\ pptr'[y] = x /\ \A z \in Proc : sptr'[z] # y
      <4>1. CASE x = p
        <5>1. y = c /\ cptr[p] # c
          BY <1>1, <1>8, <1>14, <3>1, <4>1
        <5> QED
          BY <1>1, <1>8, <1>12, <1>14, <4>1, <5>1
      <4>2. CASE x # p
        <5>1. Used(y) /\ pptr[y] = x /\ \A z \in Proc : sptr[z] # y
          BY <1>8, <1>14, <3>1, <4>2
        <5>2. y # c /\ cptr[p] # y
          BY <1>1, <1>14, <4>2, <5>1
        <5> QED
          BY <1>8, <1>12, <5>1, <5>2
      <4> QED
        BY <4>1, <4>2
    <3>2. ASSUME NEW x \in Proc, NEW y \in Proc, sptr'[x] = y
          PROVE  /\ Used(x)' /\ Used(y)' /\ pptr'[y] = pptr'[x]
                 /\ \A z \in Proc : sptr'[z] = y => z = x
      <4>1. CASE x = c
        <5>1. Used(y) /\ pptr[y] = p /\ \A z \in Proc : sptr[z] # y
          BY <1>8, <1>14, <3>2, <4>1
        <5> QED
          BY <1>1, <1>8, <1>12, <4>1, <5>1
      <4>2. CASE x # c
        <5>1. /\ Used(x) /\ Used(y) /\ pptr[y] = pptr[x]
              /\ \A z \in Proc : sptr[z] = y => z = x
          BY <1>8, <1>14, <3>2, <4>2
        <5>2. y # c /\ cptr[p] # y
          BY <1>1, <1>8, <1>14, <3>2, <4>2, <5>1
        <5> QED
          BY <1>8, <1>12, <4>2, <5>1, <5>2
      <4> QED
        BY <4>1, <4>2
    <3> QED
      BY <1>11, <3>1, <3>2 DEF ListInv
  <2>4. ReachInv'
    <3>1. ASSUME NEW a \in Proc, NEW y \in Children(a)
          PROVE  Reaches(sptr', cptr[a], y)
      <4>1. Reaches(sptr, cptr[a], y)
        BY <1>10 DEF IInv, TreeInv, ReachInv
      <4>2. cptr[a] = None \/ cptr[a] \in Children(a)
        BY <1>10, <1>14 DEF Children, IInv, Types
      <4>3. \A x \in Children(a) : sptr[x] = None \/ sptr[x] \in Children(a)
        BY ListClosed DEF IInv, TreeInv
      <4>4. Children(a) \in SUBSET Proc
        BY DEF Children
      <4>5. \A x \in Children(a) : sptr'[x] = sptr[x]
        BY <1>8, <1>13, <4>4
      <4> QED
        BY <4>1, <4>2, <4>3, <4>4, <4>5, ReachKept
    <3>2. ASSUME NEW a \in Proc, NEW y \in Children(a)'
          PROVE  Reaches(sptr', cptr'[a], y)
      <4>1. CASE a # p
        BY <1>8, <1>13, <3>1, <4>1
      <4>2. CASE a = p /\ y = c
        BY <1>1, <1>8, <4>2, ReachFirst
      <4>3. CASE a = p /\ y # c
        <5>1. Reaches(sptr', sptr'[c], y)
          BY <1>8, <1>13, <3>1, <4>3
        <5> QED
          BY <1>1, <1>8, <4>3, <5>1, ReachInsert
      <4> QED
        BY <4>1, <4>2, <4>3
    <3> QED
      BY <1>11, <3>2 DEF ReachInv
  <2>5. TopInUse'
    <3>1. procmax \in Int /\ procmax - 1 \in Proc /\ c \in Int
      BY <1>1, ExitAssumption DEF IInv, Types, Proc, init
    <3>2. procmax' - 1 \in Proc /\ Used(procmax - 1)
      BY <1>1, <1>3, <3>1 DEF IInv, TreeInv, TopInUse
    <3>3. stat'[procmax' - 1] # "NULL"
      BY <1>1, <1>3, <1>8, <3>1, <3>2 DEF Used
    <3>4. \A x \in Proc : x >= procmax' => ~Used(x)'
      <4> SUFFICES ASSUME NEW x \in Proc, x >= procmax' PROVE ~Used(x)'
        OBVIOUS
      <4>1. x # c /\ x >= procmax
        BY <1>1, <1>3, <3>1 DEF Proc
      <4> QED
        BY <1>12, <4>1 DEF IInv, TreeInv, TopInUse
    <3> QED
      BY <3>3, <3>4 DEF TopInUse, Used
  <2> QED
    BY <2>1, <2>2, <2>3, <2>4, <2>5 DEF TreeInv
<1>16. ASSUME NEW a \in Proc PROVE ScanOK(a)' /\ SeenOK(a)'
  <2>1. Same(a)
    <3>1. \A x \in Children(a) : x \in Proc \ {c} /\ x \in Children(a)'
      BY <1>13 DEF Children
    <3> QED
      BY <1>8, <3>1 DEF Same
  <2>2. Steady(a)
    BY <1>3, <1>8 DEF Steady, Scanning
  <2>3. NoNews(a)
    <3>1. ASSUME NEW x \in Children(a)', Missed(a, x)'
          PROVE  x \in Children(a) /\ Missed(a, x) /\ stat'[x] = stat[x]
      <4>1. x \in Proc \ {c}
        BY <1>8, <3>1 DEF Missed, Waitable, StopWanted, Children
      <4>2. Waitable(a, x)' <=> Waitable(a, x)
        BY <1>3, <1>8, <4>1 DEF Waitable, StopWanted
      <4>3. ToBePosted(a, x) => ToBePosted(a, x)'
        BY <1>2, <1>8, <4>1 DEF ToBePosted, ListFree
      <4>4. x \in Children(a)
        BY <1>13, <4>1
      <4> QED
        BY <1>8, <3>1, <4>1, <4>2, <4>3, <4>4 DEF Missed
    <3> QED
      BY <1>3, <3>1 DEF NoNews
  <2> QED
    BY <2>1, <2>2, <2>3, ScanKept, SeenKept DEF IInv, TreeInv, ScanInv, SeenInv
<1> QED
  BY <1>5, <1>6, <1>7, <1>15, <1>16 DEF IInv, ScanInv, SeenInv

LEMMA HighestInUse ==
  ASSUME IInv, NEW c \in Proc, c # init
  PROVE  /\ Highest(c) \in Proc /\ Highest(c) < c /\ Used(Highest(c))
         /\ \A x \in Proc : Used(x) /\ x < c => x <= Highest(c)
<1> DEFINE S == {init} \cup {x \in Proc : x < c /\ Used(x)}
<1>1. /\ init \in Nat /\ init <= NPROC /\ NPROC \in Nat /\ c \in Nat /\ init < c
      /\ \A x \in Proc : x \in Nat /\ x <= NPROC
  BY ExitAssumption DEF Proc, init
<1>2. Used(init)
  BY InitProc DEF IInv, InitInv, StatInv, Used
<1>3. \A x \in S : x \in Proc /\ x \in 0 .. NPROC /\ x < c /\ Used(x)
  BY <1>1, <1>2, InitProc
<1>4. S # {} /\ \A x \in Proc : Used(x) /\ x < c => x \in S
  OBVIOUS
<1>5. Highest(c) = Max(S)
  BY DEF Highest
<1> HIDE DEF S
<1>6. Max(S) \in S /\ \A x \in S : x <= Max(S)
  BY <1>1, <1>3, <1>4, GreatestIsMax
<1> QED
  BY <1>3, <1>4, <1>5, <1>6

LEMMA UnlinkStep ==
  ASSUME IInv, NEW p \in Proc, Unlink(p)
  PROVE  IInv'
<1>1. /\ child[p] \in Children(p) /\ pc[p] = "unlink" /\ ListFree
      /\ stat[child[p]] = "SZOMB" /\ pc[child[p]] = "dead"
      /\ q[p] # None => q[p] \in Children(p) /\ sptr[q[p]] = child[p]
  BY DEF Unlink, IInv, ScanInv, ScanOK, Scanning
<1>2. PICK c \in Proc : c = child[p]
  BY <1>1 DEF Children
<1>3. /\ Remove(p, c)
      /\ pptr' = [pptr EXCEPT ![c] = None]
      /\ procmax' = IF c + 1 = procmax THEN Highest(c) + 1 ELSE procmax
      /\ stat' = [stat EXCEPT ![c] = "NULL"]
      /\ wted' = wted \ {c}
      /\ pc' = [pc EXCEPT ![p] = "user"]
      /\ child' = [child EXCEPT ![p] = None]
      /\ q' = [q EXCEPT ![p] = None]
      /\ options' = [options EXCEPT ![p] = {}]
      /\ UNCHANGED <<tty, zombie>>
  BY <1>2 DEF Unlink, Return
<1>4. /\ c \in Children(p) /\ stat[c] = "SZOMB" /\ pc[c] = "dead"
      /\ Used(c) /\ c # p /\ c # init /\ c \notin tty
  BY <1>1, <1>2, InitProc DEF IInv, InitInv, StatInv, Used
<1>5. /\ \A x \in Proc : ListedWith(x) = pptr[x]
      /\ \A x \in Proc : FirstOf(x) = cptr[x] /\ ~Giving(x)
  BY <1>1, Listed
<1>6. pptr[c] = p /\ \A a, x : x \in Children(a) <=>
                       x \in Proc /\ Used(x) /\ pptr[x] = a
  BY <1>4, <1>5 DEF Children
<1>7. /\ \A x, y \in Proc : cptr[x] = y =>
           Used(y) /\ pptr[y] = x /\ \A z \in Proc : sptr[z] # y
      /\ \A x, y \in Proc : sptr[x] = y =>
           /\ Used(x) /\ Used(y) /\ pptr[y] = pptr[x]
           /\ \A z \in Proc : sptr[z] = y => z = x
  BY <1>5 DEF IInv, TreeInv, ListInv
<1>8. /\ \A a \in Proc : \A x \in Children(a) : Reaches(sptr, cptr[a], x)
      /\ \A a \in Proc : cptr[a] = None \/ cptr[a] \in Children(a)
      /\ \A a : \A x \in Children(a) : sptr[x] = None \/ sptr[x] \in Children(a)
      /\ \A a : Children(a) \in SUBSET Proc
  <2>1. \A a \in Proc : \A x \in Children(a) : Reaches(sptr, cptr[a], x)
    BY <1>5 DEF IInv, TreeInv, ReachInv
  <2>2. \A a \in Proc : cptr[a] = None \/ cptr[a] \in Children(a)
    BY <1>6, <1>7 DEF IInv, Types
  <2>3. \A a : \A x \in Children(a) : sptr[x] = None \/ sptr[x] \in Children(a)
    BY ListClosed DEF IInv, TreeInv
  <2> QED
    BY <2>1, <2>2, <2>3 DEF Children
<1>9. \/ /\ cptr[p] = c
         /\ cptr' = [cptr EXCEPT ![p] = sptr[c]]
         /\ sptr' = [sptr EXCEPT ![c] = None]
      \/ /\ cptr[p] # c
         /\ \E b \in Proc \ {c} :
              /\ sptr[b] = c
              /\ sptr' = [sptr EXCEPT ![b] = sptr[c], ![c] = None]
         /\ UNCHANGED cptr
  <2>1. CASE cptr[p] = c
    BY <1>3, <2>1 DEF Remove
  <2>2. CASE cptr[p] # c
    <3>1. PICK b \in Proc \ {c} : sptr[b] = c
      <4>1. Reaches(sptr, cptr[p], c) /\ cptr[p] \in Proc \cup {None}
        BY <1>4, <1>8 DEF IInv, Types
      <4> QED
        BY <2>2, <4>1, ReachBehind DEF IInv, Types
    <3>2. Before(p, c) = b
      BY <1>1, <1>2, <1>6, <1>7, <3>1 DEF Before
    <3> QED
      BY <1>3, <2>2, <3>1, <3>2 DEF Remove
  <2> QED
    BY <2>1, <2>2
<1>10. /\ sptr[c] \in Proc \cup {None} /\ sptr[c] # c
       /\ sptr[c] # None => sptr[c] \in Children(p) \ {c}
  BY <1>4, <1>7, <1>8, <1>9 DEF IInv, Types
<1>11. /\ sptr' \in [Proc -> Proc \cup {None}]
       /\ cptr' \in [Proc -> Proc \cup {None}]
       /\ sptr'[c] = None
       /\ \A x \in Proc \ {c} :
            sptr'[x] = IF sptr[x] = c THEN sptr[c] ELSE sptr[x]
       /\ \A x \in Proc :
            cptr'[x] = IF cptr[x] = c THEN sptr[c] ELSE cptr[x]
  <2>1. sptr \in [Proc -> Proc \cup {None}] /\ cptr \in [Proc -> Proc \cup {None}]
    BY DEF IInv, Types
  <2>2. \A x \in Proc : cptr[x] = c => x = p
    BY <1>6, <1>7
  <2>3. CASE cptr[p] = c
    <3>1. \A x \in Proc : sptr[x] # c
      BY <1>7, <2>3
    <3> QED
      BY <1>9, <1>10, <2>1, <2>2, <2>3, <3>1
  <2>4. CASE cptr[p] # c
    <3>1. PICK b \in Proc \ {c} :
            sptr[b] = c /\ sptr' = [sptr EXCEPT ![b] = sptr[c], ![c] = None]
      BY <1>9, <2>4
    <3>2. \A x \in Proc : sptr[x] = c <=> x = b
      BY <1>7, <3>1
    <3> QED
      BY <1>9, <1>10, <2>1, <2>2, <2>4, <3>1, <3>2
  <2> QED
    BY <2>3, <2>4
<1>12. Types'
  <2>1. procmax' \in init + 1 .. NPROC + 1
    <3>1. PICK h \in Proc : h = Highest(c)
      BY <1>4, HighestInUse
    <3>2. h + 1 \in init + 1 .. NPROC + 1
      BY <3>1, ExitAssumption DEF Proc, init
    <3> QED
      BY <1>3, <3>1, <3>2 DEF IInv, Types
  <2> QED
    BY <1>3, <1>11, <2>1 DEF IInv, Types
<1>13. StatInv'
  BY <1>1, <1>3, <1>4 DEF IInv, Types, StatInv
<1>14. InitInv'
  BY <1>3, <1>4, <1>11, InitProc DEF IInv, Types, InitInv, None, Proc
<1>15. /\ ~Used(c)'
       /\ \A x \in Proc \ {c} :
            /\ Used(x)' <=> Used(x)
            /\ stat'[x] = stat[x] /\ pptr'[x] = pptr[x]
            /\ x \in wted' <=> x \in wted
       /\ pc'[p] = "user"
       /\ \A x \in Proc \ {p} :
            /\ pc'[x] = pc[x] /\ child'[x] = child[x] /\ q'[x] = q[x]
            /\ options'[x] = options[x]
  BY <1>3 DEF IInv, Types, Used
<1>16. /\ \A x \in Proc : ListedWith(x)' = pptr'[x]
       /\ \A x \in Proc : FirstOf(x)' = cptr'[x] /\ ~Giving(x)'
  <2>1. \A x \in Proc : pc'[x] \notin {"move", "adopt"}
    BY <1>1, <1>15 DEF ListFree
  <2> QED
    BY <2>1 DEF ListedWith, FirstOf, Giving
<1>17. \A a : Children(a)' = Children(a) \ {c}
  <2>1. \A a, x : x \in Children(a)' <=> x \in Proc /\ Used(x)' /\ pptr'[x] = a
    BY <1>16 DEF Children
  <2> QED
    BY <1>6, <1>15, <2>1
<1>18. TreeInv'
  <2>1. LockInv'
    BY <1>16 DEF LockInv
  <2>2. ParentInv'
    <3>1. \A x \in Proc : pc'[x] \in Gone => pc[x] \in Gone
      BY <1>15 DEF Gone
    <3>2. \A x \in Proc : Used(x)' /\ x # init =>
            pptr'[x] \in Proc /\ pc'[pptr'[x]] \notin Gone
      BY <1>15, <3>1 DEF IInv, TreeInv, ParentInv
    <3>3. \A x \in Proc : pc'[x] # "adopt"
      BY <1>16 DEF Giving
    <3> QED
      BY <1>16, <3>2, <3>3 DEF ParentInv
  <2>3. ListInv'
    <3>1. ASSUME NEW x \in Proc, NEW y \in Proc, cptr'[x] = y
          PROVE  Used(y)' /\ pptr'[y] = x /\ \A z \in Proc : sptr'[z] # y
      <4>1. CASE cptr[x] = c
        <5>1. x = p /\ y = sptr[c] /\ \A z \in Proc : sptr[z] # c
          BY <1>6, <1>7, <1>11, <3>1, <4>1
        <5>2. y # c /\ Used(y) /\ pptr[y] = p /\ \A z \in Proc : sptr[z] = y => z = c
          BY <1>6, <1>7, <1>10, <5>1
        <5>3. \A z \in Proc \ {c} : sptr'[z] = sptr[z]
          BY <1>11, <5>1
        <5>4. \A z \in Proc : sptr'[z] # y
          BY <1>11, <5>2, <5>3 DEF None, Proc
        <5> QED
          BY <1>15, <5>1, <5>2, <5>4
      <4>2. CASE cptr[x] # c
        <5>1. /\ cptr[x] = y /\ y # c /\ Used(y) /\ pptr[y] = x
              /\ \A z \in Proc : sptr[z] # y
          BY <1>7, <1>11, <3>1, <4>2
        <5>2. \A z \in Proc : sptr'[z] # y
          BY <1>11, <5>1 DEF None, Proc
        <5> QED
          BY <1>15, <5>1, <5>2
      <4> QED
        BY <4>1, <4>2
    <3>2. ASSUME NEW x \in Proc, NEW y \in Proc, sptr'[x] = y
          PROVE  /\ Used(x)' /\ Used(y)' /\ pptr'[y] = pptr'[x]
                 /\ \A z \in Proc : sptr'[z] = y => z = x
      <4>1. x # c /\ y # None
        BY <1>11, <3>2 DEF None, Proc
      <4>2. CASE sptr[x] = c
        <5>1. y = sptr[c] /\ y # c
          BY <1>10, <1>11, <3>2, <4>1, <4>2
        <5>2. /\ Used(x) /\ Used(y) /\ pptr[y] = pptr[c] /\ pptr[c] = pptr[x]
              /\ \A z \in Proc : sptr[z] = y => z = c
              /\ \A z \in Proc : sptr[z] = c => z = x
          BY <1>7, <4>2, <5>1
        <5>3. \A z \in Proc : sptr'[z] = y => z = x
          BY <1>11, <4>1, <5>1, <5>2
        <5> QED
          BY <1>15, <4>1, <5>1, <5>2, <5>3
      <4>3. CASE sptr[x] # c
        <5>1. /\ sptr[x] = y /\ Used(x) /\ Used(y) /\ pptr[y] = pptr[x]
              /\ \A z \in Proc : sptr[z] = y => z = x
          BY <1>7, <1>11, <3>2, <4>1, <4>3
        <5>2. y # c /\ sptr[c] # y
          BY <4>1, <4>3, <5>1
        <5>3. \A z \in Proc : sptr'[z] = y => z = x
          BY <1>11, <4>1, <5>1, <5>2
        <5> QED
          BY <1>15, <4>1, <5>1, <5>2, <5>3
      <4> QED
        BY <4>2, <4>3
    <3> QED
      BY <1>16, <3>1, <3>2 DEF ListInv
  <2>4. ReachInv'
    <3> SUFFICES ASSUME NEW a \in Proc, NEW y \in Children(a) \ {c}
                 PROVE  Reaches(sptr', cptr'[a], y)
      BY <1>16, <1>17 DEF ReachInv
    <3>1. Reaches(sptr, cptr[a], y)
      BY <1>8
    <3>2. CASE a # p
      <4>1. \A x \in Children(a) : sptr'[x] = sptr[x]
        BY <1>6, <1>7, <1>11, <3>2
      <4>2. cptr'[a] = cptr[a]
        BY <1>6, <1>7, <1>11, <3>2
      <4> QED
        BY <1>8, <3>1, <4>1, <4>2, ReachKept
    <3>3. CASE a = p /\ cptr[p] = c
      <4>1. Reaches(sptr, sptr[c], y)
        BY <3>1, <3>3, ReachNext
      <4>2. \A x \in Children(p) \ {c} : /\ sptr'[x] = sptr[x]
                                         /\ sptr[x] = None \/ sptr[x] \in Children(p) \ {c}
        BY <1>7, <1>8, <1>11, <3>3
      <4>3. Children(p) \ {c} \in SUBSET Proc
        BY <1>8
      <4>4. sptr[c] = None \/ sptr[c] \in Children(p) \ {c}
        BY <1>10
      <4>5. y \in Children(p) \ {c}
        BY <3>3
      <4>6. Reaches(sptr', sptr[c], y)
        BY <4>1, <4>2, <4>3, <4>4, <4>5, ReachKept
      <4> QED
        BY <1>11, <3>3, <4>6
    <3>4. CASE a = p /\ cptr[p] # c
      <4>1. PICK b \in Proc \ {c} :
              sptr[b] = c /\ sptr' = [sptr EXCEPT ![b] = sptr[c], ![c] = None]
        BY <1>9, <3>4
      <4>2. \A x \in Proc : sptr[x] = c => x = b
        BY <1>7, <4>1
      <4>3. sptr \in [Proc -> Proc \cup {None}]
        BY DEF IInv, Types
      <4>4. Reaches(sptr', cptr[p], y)
        BY <3>1, <3>4, <4>1, <4>2, <4>3, ReachRemove
      <4> QED
        BY <1>11, <3>4, <4>4
    <3> QED
      BY <3>2, <3>3, <3>4
  <2>5. TopInUse'
    <3>1. /\ procmax \in Int /\ procmax - 1 \in Proc /\ c \in Int
          /\ Used(procmax - 1) /\ \A x \in Proc : x >= procmax => ~Used(x)
      BY ExitAssumption DEF IInv, Types, Proc, init, TreeInv, TopInUse
    <3>2. CASE c + 1 = procmax
      <4>1. /\ Highest(c) \in Proc /\ Highest(c) < c /\ Used(Highest(c))
            /\ \A x \in Proc : Used(x) /\ x < c => x <= Highest(c)
        BY <1>4, HighestInUse
      <4>2. PICK h \in Proc : h = Highest(c)
        BY <4>1
      <4>3. h \in Int /\ procmax' = h + 1 /\ h # c
        BY <1>3, <3>1, <3>2, <4>1, <4>2 DEF Proc
      <4>4. procmax' - 1 = h /\ stat'[h] # "NULL"
        BY <1>15, <4>1, <4>2, <4>3 DEF Used
      <4>5. ASSUME NEW x \in Proc, x >= procmax'
            PROVE  ~Used(x)'
        <5>1. x \in Int /\ x > h
          BY <4>3, <4>5 DEF Proc
        <5>2. CASE x = c
          BY <1>15, <5>2
        <5>3. CASE x < c
          BY <1>15, <3>1, <4>1, <4>2, <4>3, <5>1, <5>3
        <5>4. CASE x > c
          <6>1. x >= procmax /\ x # c
            BY <3>1, <3>2, <5>1, <5>4
          <6> QED
            BY <1>15, <3>1, <6>1
        <5> QED
          BY <3>1, <5>1, <5>2, <5>3, <5>4
      <4> QED
        BY <4>4, <4>5 DEF TopInUse, Used
    <3>3. CASE c + 1 # procmax
      <4>1. procmax' = procmax /\ procmax - 1 # c
        BY <1>3, <3>1, <3>3
      <4>2. stat'[procmax - 1] # "NULL"
        BY <1>15, <3>1, <4>1 DEF Used
      <4>3. \A x \in Proc : x >= procmax => ~Used(x)'
        BY <1>15, <3>1
      <4> QED
        BY <4>1, <4>2, <4>3 DEF TopInUse, Used
    <3> QED
      BY <3>2, <3>3
  <2> QED
    BY <2>1, <2>2, <2>3, <2>4, <2>5 DEF TreeInv
<1>19. ASSUME NEW a \in Proc PROVE ScanOK(a)' /\ SeenOK(a)'
  <2>1. CASE a = p
    BY <1>15, <2>1 DEF ScanOK, SeenOK, Scanning
  <2>2. CASE a # p
    <3>1. Same(a)
      <4>1. \A x \in Children(a) : x \in Proc \ {c} /\ x \in Children(a)'
        BY <1>6, <1>17, <2>2
      <4>2. \A x \in Children(a) : sptr'[x] = sptr[x]
        BY <1>6, <1>7, <1>11, <2>2
      <4> QED
        BY <1>1, <1>15, <4>1, <4>2 DEF Same
    <3>2. Steady(a)
      BY <1>15, <2>2 DEF Steady
    <3>3. NoNews(a)
      <4>1. ASSUME NEW x \in Children(a)', Missed(a, x)'
            PROVE  x \in Children(a) /\ Missed(a, x) /\ stat'[x] = stat[x]
        <5>1. x \in Children(a) /\ x \in Proc \ {c}
          BY <1>6, <1>17
        <5>2. Waitable(a, x)' <=> Waitable(a, x)
          BY <1>15, <2>2, <5>1 DEF Waitable, StopWanted
        <5>3. ToBePosted(a, x) => ToBePosted(a, x)'
          BY <1>1, <1>15, <5>1 DEF ToBePosted, ListFree
        <5> QED
          BY <1>15, <4>1, <5>1, <5>2, <5>3 DEF Missed
      <4> QED
        BY <1>3, <4>1 DEF NoNews
    <3> QED
      BY <3>1, <3>2, <3>3, ScanKept, SeenKept
         DEF IInv, TreeInv, ScanInv, SeenInv
  <2> QED
    BY <2>1, <2>2
<1> QED
  BY <1>12, <1>13, <1>14, <1>18, <1>19 DEF IInv, ScanInv, SeenInv

LEMMA MoveStep ==
  ASSUME IInv, NEW p \in Proc, Move(p)
  PROVE  IInv'
<1>1. PICK c \in Proc : c = child[p]
  BY DEF Move, IInv, Types
<1>2. /\ pc[p] = "move" /\ p # init
      /\ child' = [child EXCEPT ![p] = sptr[c]]
      /\ sptr' = [sptr EXCEPT ![c] = cptr[init]]
      /\ cptr' = [cptr EXCEPT ![init] = c]
      /\ q' = [q EXCEPT ![p] = c]
      /\ pc' = [pc EXCEPT ![p] = "adopt"]
      /\ UNCHANGED <<stat, pptr, procmax, wted, tty, zombie, options>>
  BY <1>1 DEF Move, IInv, InitInv
<1>3. /\ \A x \in Proc : Giving(x) <=> x = p
      /\ \A x \in Proc : ListedWith(x) = pptr[x]
      /\ FirstOf(p) = c /\ \A x \in Proc \ {p} : FirstOf(x) = cptr[x]
  <2>1. \A x \in Proc : Giving(x) <=> x = p
    BY <1>2 DEF IInv, TreeInv, LockInv, Giving
  <2>2. \A x \in Proc : pc[x] # "adopt"
    BY <1>2, <2>1 DEF Giving
  <2> QED
    BY <1>1, <2>1, <2>2 DEF ListedWith, FirstOf
<1>4. /\ Used(c) /\ pptr[c] = p /\ c # init
      /\ cptr[p] # None
      /\ \A x \in Proc : sptr[x] # c
  <2>1. Used(c) /\ pptr[c] = p /\ \A x \in Proc : sptr[x] # c
    BY <1>3 DEF IInv, TreeInv, ListInv
  <2>2. p # None /\ c # None
    BY DEF Proc, None
  <2>3. cptr[p] # None
    BY <1>1, <1>3, <2>2 DEF IInv, TreeInv, ParentInv
  <2> QED
    BY <2>1, <2>2, <2>3 DEF IInv, InitInv
<1>5. /\ \A x \in Proc \ {p} : \A y \in Proc : cptr[x] = y =>
           Used(y) /\ pptr[y] = x /\ \A z \in Proc : sptr[z] # y
      /\ \A x, y \in Proc : sptr[x] = y =>
           /\ Used(x) /\ Used(y) /\ pptr[y] = pptr[x]
           /\ \A z \in Proc : sptr[z] = y => z = x
  <2>1. \A x \in Proc \ {p} : \A y \in Proc : cptr[x] = y =>
           Used(y) /\ pptr[y] = x /\ \A z \in Proc : sptr[z] # y
    BY <1>3 DEF IInv, TreeInv, ListInv
  <2>2. \A x, y \in Proc : sptr[x] = y =>
           /\ Used(x) /\ Used(y) /\ pptr[y] = pptr[x]
           /\ \A z \in Proc : sptr[z] = y => z = x
    BY <1>3 DEF IInv, TreeInv, ListInv
  <2> QED
    BY <2>1, <2>2
<1>6. \A a, x : x \in Children(a) <=> x \in Proc /\ Used(x) /\ pptr[x] = a
  BY <1>3 DEF Children
<1>7. /\ \A x \in Children(p) : Reaches(sptr, c, x)
      /\ \A a \in Proc \ {p} : \A x \in Children(a) : Reaches(sptr, cptr[a], x)
      /\ \A a \in Proc \ {p} : cptr[a] = None \/ cptr[a] \in Children(a)
      /\ \A a : \A x \in Children(a) : sptr[x] = None \/ sptr[x] \in Children(a)
      /\ \A a : Children(a) \in SUBSET Proc
  <2>1. \A a \in Proc : \A x \in Children(a) : Reaches(sptr, FirstOf(a), x)
    BY DEF IInv, TreeInv, ReachInv
  <2>2. \A a \in Proc \ {p} : cptr[a] = None \/ cptr[a] \in Children(a)
    BY <1>5, <1>6 DEF IInv, Types
  <2>3. \A a : \A x \in Children(a) : sptr[x] = None \/ sptr[x] \in Children(a)
    BY ListClosed DEF IInv, TreeInv
  <2> QED
    BY <1>3, <2>1, <2>2, <2>3 DEF Children
<1>8. /\ sptr[c] \in Proc \cup {None} /\ sptr[c] # c
      /\ cptr[init] \in Proc \cup {None} /\ cptr[init] # c
  BY <1>2, <1>4, <1>5, InitProc DEF IInv, Types
<1>9. Types'
  BY <1>2, <1>8, InitProc DEF IInv, Types
<1>10. StatInv'
  BY <1>2 DEF IInv, Types, StatInv
<1>11. InitInv'
  BY <1>2, <1>4, InitProc DEF IInv, Types, InitInv
<1>12. /\ sptr'[c] = cptr[init] /\ \A x \in Proc \ {c} : sptr'[x] = sptr[x]
       /\ cptr'[init] = c /\ \A x \in Proc \ {init} : cptr'[x] = cptr[x]
       /\ child'[p] = sptr[c] /\ q'[p] = c /\ pc'[p] = "adopt"
       /\ \A x \in Proc \ {p} :
            pc'[x] = pc[x] /\ child'[x] = child[x] /\ q'[x] = q[x]
       /\ \A x \in Proc : Used(x)' <=> Used(x)
  BY <1>2, InitProc DEF IInv, Types, Used
<1>13. /\ \A x \in Proc : Giving(x)' <=> x = p
       /\ ListedWith(c)' = init
       /\ \A x \in Proc \ {c} : ListedWith(x)' = pptr[x]
       /\ FirstOf(p)' = sptr[c] /\ FirstOf(init)' = c
       /\ \A x \in Proc \ {p, init} : FirstOf(x)' = cptr[x]
  <2>1. \A x \in Proc : Giving(x)' <=> x = p
    BY <1>3, <1>12 DEF Giving
  <2>2. \A x \in Proc : pc'[x] = "adopt" <=> x = p
    BY <1>12, <2>1 DEF Giving
  <2>3. \A x \in Proc :
          (\E y \in Proc : pc'[y] = "adopt" /\ q'[y] = x) <=> x = c
    BY <1>12, <2>2
  <2>4. ListedWith(c)' = init /\ \A x \in Proc \ {c} : ListedWith(x)' = pptr[x]
    BY <1>2, <2>3 DEF ListedWith
  <2> QED
    BY <1>2, <1>12, <2>1, <2>4, InitProc DEF FirstOf
<1>14. /\ Children(p)' = Children(p) \ {c}
       /\ Children(init)' = Children(init) \cup {c}
       /\ \A a : a \notin {p, init} => Children(a)' = Children(a)
       /\ \A a : a # p => c \notin Children(a)
  <2>1. \A a, x : x \in Children(a)' <=>
          x \in Proc /\ Used(x) /\ (IF x = c THEN init ELSE pptr[x]) = a
    BY <1>12, <1>13 DEF Children
  <2>2. \A a, x : x # c => (x \in Children(a)' <=> x \in Children(a))
    BY <1>6, <2>1
  <2>3. \A a : (c \in Children(a)' <=> a = init) /\ (c \in Children(a) <=> a = p)
    BY <1>4, <1>6, <2>1
  <2>4. Children(p)' = Children(p) \ {c}
    BY <1>2, <2>2, <2>3
  <2>5. Children(init)' = Children(init) \cup {c}
    BY <2>2, <2>3
  <2>6. ASSUME NEW a, a \notin {p, init} PROVE Children(a)' = Children(a)
    BY <2>2, <2>3, <2>6
  <2> QED
    BY <2>3, <2>4, <2>5, <2>6
<1>15. TreeInv'
  <2>1. LockInv'
    BY <1>13 DEF LockInv
  <2>2. ParentInv'
    <3>1. \A x \in Proc : pc'[x] \in Gone => pc[x] \in Gone
      BY <1>12 DEF Gone
    <3>2. \A x \in Proc : Used(x)' /\ x # init =>
            pptr'[x] \in Proc /\ pc'[pptr'[x]] \notin Gone
      BY <1>2, <1>12, <3>1 DEF IInv, TreeInv, ParentInv
    <3>3. \A x \in Proc : pc'[x] = "adopt" =>
            x = p /\ q'[x] \in Proc /\ stat'[q'[x]] # "NULL" /\ q'[x] # init
      BY <1>2, <1>4, <1>12, <1>13 DEF Giving, Used
    <3>4. cptr'[p] # None
      BY <1>2, <1>4, <1>12
    <3> QED
      BY <1>13, <3>2, <3>3, <3>4 DEF ParentInv, Used
  <2>3. ListInv'
    <3>1. ASSUME NEW x \in Proc, NEW y \in Proc, FirstOf(x)' = y
          PROVE  Used(y)' /\ ListedWith(y)' = x /\ \A z \in Proc : sptr'[z] # y
      <4>1. CASE x = p
        <5>1. y = sptr[c]
          BY <1>13, <3>1, <4>1
        <5>2. Used(y) /\ pptr[y] = p /\ y # c /\ \A z \in Proc : sptr[z] = y => z = c
          BY <1>4, <1>5, <1>8, <5>1
        <5>3. cptr[init] # y
          BY <1>2, <1>5, <5>2, InitProc
        <5> QED
          BY <1>12, <1>13, <4>1, <5>2, <5>3
      <4>2. CASE x = init
        <5>1. y = c
          BY <1>13, <3>1, <4>2
        <5> QED
          BY <1>4, <1>8, <1>12, <1>13, <4>2, <5>1
      <4>3. CASE x \notin {p, init}
        <5>1. Used(y) /\ pptr[y] = x /\ \A z \in Proc : sptr[z] # y
          BY <1>5, <1>13, <3>1, <4>3
        <5>2. y # c /\ cptr[init] # y
          BY <1>2, <1>4, <1>5, <4>3, <5>1, InitProc
        <5> QED
          BY <1>12, <1>13, <5>1, <5>2
      <4> QED
        BY <4>1, <4>2, <4>3
    <3>2. ASSUME NEW x \in Proc, NEW y \in Proc, sptr'[x] = y
          PROVE  /\ Used(x)' /\ Used(y)' /\ ListedWith(y)' = ListedWith(x)'
                 /\ \A z \in Proc : sptr'[z] = y => z = x
      <4>1. CASE x = c
        <5>1. cptr[init] = y
          BY <1>12, <3>2, <4>1
        <5>2. Used(y) /\ pptr[y] = init /\ y # c /\ \A z \in Proc : sptr[z] # y
          BY <1>2, <1>5, <1>8, <5>1, InitProc
        <5> QED
          BY <1>4, <1>12, <1>13, <4>1, <5>2
      <4>2. CASE x # c
        <5>1. /\ sptr[x] = y /\ Used(x) /\ Used(y) /\ pptr[y] = pptr[x]
              /\ \A z \in Proc : sptr[z] = y => z = x
          BY <1>5, <1>12, <3>2, <4>2
        <5>2. y # c /\ cptr[init] # y
          BY <1>2, <1>4, <1>5, <5>1, InitProc
        <5> QED
          BY <1>12, <1>13, <4>2, <5>1, <5>2
      <4> QED
        BY <4>1, <4>2
    <3> QED
      BY <3>1, <3>2 DEF ListInv
  <2>4. ReachInv'
    <3>1. ASSUME NEW a \in Proc \ {p}, NEW y \in Children(a)
          PROVE  Reaches(sptr', cptr[a], y)
      <4>1. \A x \in Children(a) : sptr'[x] = sptr[x]
        BY <1>6, <1>12, <1>14
      <4>2. Reaches(sptr, cptr[a], y)
        BY <1>7
      <4>3. cptr[a] = None \/ cptr[a] \in Children(a)
        BY <1>7
      <4> QED
        BY <1>7, <4>1, <4>2, <4>3, ReachKept
    <3>2. ASSUME NEW y \in Children(p) \ {c}
          PROVE  Reaches(sptr', sptr[c], y)
      <4>1. Reaches(sptr, sptr[c], y)
        BY <1>7, <3>2, ReachNext
      <4>2. \A x \in Children(p) \ {c} :
              sptr[x] = None \/ sptr[x] \in Children(p) \ {c}
        BY <1>4, <1>6, <1>7
      <4>3. \A x \in Children(p) \ {c} : sptr'[x] = sptr[x]
        BY <1>6, <1>12
      <4>4. sptr[c] = None \/ sptr[c] \in Children(p) \ {c}
        BY <1>4, <1>6, <1>7, <1>8
      <4>5. Children(p) \ {c} \in SUBSET Proc
        BY <1>7
      <4> QED
        BY <4>1, <4>2, <4>3, <4>4, <4>5, ReachKept
    <3>3. ASSUME NEW a \in Proc, NEW y \in Children(a)'
          PROVE  Reaches(sptr', FirstOf(a)', y)
      <4>1. CASE a = p
        BY <1>13, <1>14, <3>2, <3>3, <4>1
      <4>2. CASE a = init /\ y = c
        BY <1>13, <4>2, ReachFirst
      <4>3. CASE a = init /\ y # c
        <5>1. Reaches(sptr', sptr'[c], y)
          BY <1>2, <1>12, <1>14, <3>1, <3>3, <4>3, InitProc
        <5> QED
          BY <1>13, <4>3, <5>1, ReachInsert
      <4>4. CASE a \notin {p, init}
        BY <1>13, <1>14, <3>1, <3>3, <4>4
      <4> QED
        BY <4>1, <4>2, <4>3, <4>4
    <3> QED
      BY <3>3 DEF ReachInv
  <2>5. TopInUse'
    BY <1>2, <1>12, TopKept DEF IInv, TreeInv
  <2> QED
    BY <2>1, <2>2, <2>3, <2>4, <2>5 DEF TreeInv
<1>16. ASSUME NEW a \in Proc PROVE ScanOK(a)' /\ SeenOK(a)'
  <2>1. CASE a = p
    BY <1>12, <2>1 DEF ScanOK, SeenOK, Scanning
  <2>2. CASE a # p
    <3>1. Same(a)
      <4>1. \A x \in Children(a) : x \in Proc \ {c} /\ x \in Children(a)'
        BY <1>6, <1>14, <2>2
      <4>2. \A x \in Children(a) : pc[x] = "dead" => pc'[x] = "dead"
        BY <1>2, <1>12, <4>1
      <4> QED
        BY <1>2, <1>12, <4>1, <4>2 DEF Same
    <3>2. Steady(a)
      BY <1>12, <2>2 DEF Steady
    <3>3. NoNews(a)
      <4>1. ASSUME NEW x \in Children(a)', Missed(a, x)'
            PROVE  x \in Children(a) /\ Missed(a, x) /\ stat'[x] = stat[x]
        <5>1. a # init
          BY <1>2, <1>4, <1>12, <4>1 DEF Missed, ToBePosted
        <5>2. x \in Children(a) /\ x \in Proc
          BY <1>6, <1>14, <2>2, <4>1, <5>1
        <5>3. Waitable(a, x)' <=> Waitable(a, x)
          BY <1>2 DEF Waitable, StopWanted
        <5>4. ToBePosted(a, x) => ToBePosted(a, x)'
          BY <1>2, <1>12, <5>1, <5>2 DEF ToBePosted
        <5> QED
          BY <1>2, <4>1, <5>2, <5>3, <5>4 DEF Missed
      <4> QED
        BY <1>2, <4>1 DEF NoNews
    <3> QED
      BY <3>1, <3>2, <3>3, ScanKept, SeenKept
         DEF IInv, TreeInv, ScanInv, SeenInv
  <2> QED
    BY <2>1, <2>2
<1> QED
  BY <1>9, <1>10, <1>11, <1>15, <1>16 DEF IInv, ScanInv, SeenInv

-----------------------------------------------------------------------------
(* Invariance                                                              *)

LEMMA InitHolds == Init => IInv
<1> SUFFICES ASSUME Init PROVE IInv
  OBVIOUS
<1>1. Types
  BY ExitAssumption DEF Init, Types, Proc, init
<1>2. StatInv
  BY DEF Init, StatInv
<1>3. InitInv
  BY InitProc DEF Init, InitInv
<1>4. ListFree /\ \A x \in Proc : Used(x) <=> x = init
  BY DEF Init, ListFree, Used
<1>5. \A a \in Proc : Children(a) = {}
  <2>1. None \notin Proc
    BY DEF None, Proc
  <2> QED
    BY <1>4, <2>1, Listed DEF Children, Init
<1>6. TreeInv
  <2>1. LockInv
    BY <1>4, Listed DEF LockInv
  <2>2. ParentInv
    BY <1>4 DEF ParentInv, ListFree, Giving
  <2>3. ListInv
    <3>1. None \notin Proc
      BY DEF None, Proc
    <3> QED
      BY <1>4, <3>1, Listed DEF ListInv, Init
  <2>4. ReachInv
    BY <1>5 DEF ReachInv
  <2>5. TopInUse
    BY <1>4, InitProc, ExitAssumption DEF TopInUse, Init, init, Proc
  <2> QED
    BY <2>1, <2>2, <2>3, <2>4, <2>5 DEF TreeInv
<1>7. ScanInv /\ SeenInv
  BY DEF Init, ScanInv, ScanOK, Scanning, SeenInv, SeenOK
<1> QED
  BY <1>1, <1>2, <1>3, <1>6, <1>7 DEF IInv

LEMMA StutterKept == ASSUME IInv, UNCHANGED vars PROVE IInv'
<1>1. PICK p \in Proc : TRUE
  BY InitProc
<1>2. /\ UNCHANGED <<stat, pptr, cptr, sptr, procmax, wted, tty, zombie, pc,
                     child, q, options>>
  BY DEF vars
<1>3. Types' /\ StatInv' /\ InitInv'
  BY <1>2 DEF IInv, Types, StatInv, InitInv
<1>4. Quiet
  BY <1>2 DEF Quiet, family, Used
<1>5. Local(p)
  BY <1>2, <1>4 DEF Local
<1>6. \A a : Children(a)' = Children(a)
  BY <1>4, TreeSame
<1>7. Same(p)
  BY <1>2, <1>6 DEF Same
<1>8. Steady(p)
  BY <1>2 DEF Steady
<1>9. NoNews(p)
  BY <1>2, <1>5, <1>6, MissedKept DEF NoNews, Children
<1>10. ScanOK(p)' /\ SeenOK(p)'
  BY <1>7, <1>8, <1>9, ScanKept, SeenKept DEF IInv, TreeInv, ScanInv, SeenInv
<1> QED
  BY <1>3, <1>5, <1>10, LocalKept

(* The invariant of ExitWait, for any number of processes.                 *)
THEOREM Invariance == Spec => []IInv
<1>1. ASSUME IInv, [Next]_vars
      PROVE  IInv'
  <2>1. CASE UNCHANGED vars
    BY <1>1, <2>1, StutterKept
  <2>2. ASSUME NEW p \in Proc, User(p) PROVE IInv'
    BY <1>1, <2>2, ForkStep, WaitCallStep, StopSignalStep, ExitStep DEF User
  <2>3. ASSUME NEW p \in Proc, Kernel(p) PROVE IInv'
    <3>1. CASE Wait(p)
      BY <1>1, <3>1, FirstStep, ScanStep, NoWaitStep, PEventStep, BuryStep,
         UnlinkStep, ReportStep DEF Wait
    <3>2. CASE Stop(p) \/ StopPost(p)
      BY <1>1, <3>2, StopStep, StopPostStep
    <3>3. CASE Dying(p)
      BY <1>1, <3>3, MoveStep, AdoptStep, GivenStep, ZombieStep, PostStep
         DEF Dying
    <3> QED
      BY <2>3, <3>1, <3>2, <3>3 DEF Kernel
  <2>4. ASSUME NEW p \in Proc, Interrupt(p) \/ Cont(p) PROVE IInv'
    BY <1>1, <2>4, InterruptStep, ContStep
  <2> QED
    BY <1>1, <2>1, <2>2, <2>3, <2>4 DEF Next
<1> QED
  BY <1>1, InitHolds, PTL DEF Spec

(* No process sleeps in wait1() on a child to wait for, unless the post    *)
(* that wakes it is under way.                                             *)
THEOREM NoneMissed == Spec => []ZombieSeen
<1>1. IInv => ZombieSeen
  <2> SUFFICES ASSUME IInv, NEW p \in Proc, pc[p] = "asleep",
                      NEW c \in Children(p), Waitable(p, c)
               PROVE  ToBePosted(p, c)
    BY DEF ZombieSeen
  <2>1. zombie[p] = 0
    BY DEF IInv, StatInv
  <2> QED
    BY <2>1 DEF IInv, SeenInv, SeenOK, Missed
<1> QED
  BY <1>1, Invariance, PTL

(* A child of init is not stopped from the keyboard.                       *)
THEOREM OrphansRun == Spec => []NoStoppedOrphan
<1>1. IInv => NoStoppedOrphan
  BY DEF IInv, StatInv, NoStoppedOrphan
<1> QED
  BY <1>1, Invariance, PTL

(* Whoever posts to its parent has one that is there to be posted to.      *)
LEMMA LivingParents == IInv => PostsToLiving
<1> SUFFICES ASSUME IInv, NEW c \in Proc, pc[c] \in {"post", "stopping"}
             PROVE  pptr[c] # None /\ stat[pptr[c]] \notin {"NULL", "SZOMB"}
  BY DEF PostsToLiving
<1>1. Used(c) /\ c # init
  BY DEF IInv, StatInv, InitInv, Used
<1>2. pptr[c] \in Proc /\ pc[pptr[c]] \notin Gone
  BY <1>1 DEF IInv, TreeInv, ParentInv
<1>3. pptr[c] # None
  BY <1>2 DEF Proc, None
<1> QED
  BY <1>2, <1>3 DEF IInv, StatInv, Gone

(* procmax is one beyond the highest slot in use.                          *)
THEOREM TopCorrect == Spec => []TopInUse
<1>1. IInv => TopInUse
  BY DEF IInv, TreeInv
<1> QED
  BY <1>1, Invariance, PTL

(* Every variable keeps its type.                                          *)
THEOREM TypeCorrect == Spec => []TypeOK
<1>1. IInv => TypeOK
  BY DEF IInv, Types, TypeOK
<1> QED
  BY <1>1, Invariance, PTL

-----------------------------------------------------------------------------
(* The lists end                                                           *)

(* w is the list that begins with h, as far as its n-th pointer.           *)
IsWalk(w, f, h, n) ==
  /\ w \in [0 .. n -> Proc \cup {None}]
  /\ w[0] = h
  /\ \A i \in 1 .. n : w[i] = IF w[i - 1] = None THEN None ELSE f[w[i - 1]]

LEMMA WalkExists ==
  ASSUME NEW f \in [Proc -> Proc \cup {None}], NEW h \in Proc \cup {None},
         NEW n \in Nat
  PROVE  \E w : IsWalk(w, f, h, n)
<1> DEFINE S == {k \in Nat : ~ \E w : IsWalk(w, f, h, k)}
           m == Min(S)
<1> SUFFICES ASSUME S # {} PROVE FALSE
  OBVIOUS
<1>1. m \in S /\ \A k \in S : m <= k
  BY LeastIsIn
<1> HIDE DEF m
<1>3. CASE m = 0
  <2>1. IsWalk([i \in 0 .. 0 |-> h], f, h, 0)
    BY DEF IsWalk
  <2> QED
    BY <1>1, <1>3, <2>1
<1>4. CASE m # 0
  <2>1. m \in Nat /\ m - 1 \in Nat /\ m - 1 < m
    BY <1>1, <1>4
  <2>2. PICK w : IsWalk(w, f, h, m - 1)
    BY <1>1, <2>1
  <2> DEFINE g == [i \in 0 .. m |->
                     IF i < m THEN w[i]
                     ELSE IF w[m - 1] = None THEN None ELSE f[w[m - 1]]]
  <2>3. IsWalk(g, f, h, m)
    <3>1. w \in [0 .. m - 1 -> Proc \cup {None}] /\ w[0] = h
      BY <2>2 DEF IsWalk
    <3>2. g \in [0 .. m -> Proc \cup {None}] /\ g[0] = h
      BY <2>1, <3>1
    <3>3. ASSUME NEW i \in 1 .. m
          PROVE  g[i] = IF g[i - 1] = None THEN None ELSE f[g[i - 1]]
      <4>1. i - 1 \in 0 .. m - 1 /\ g[i - 1] = w[i - 1]
        BY <2>1
      <4>2. CASE i = m
        BY <2>1, <4>1, <4>2
      <4>3. CASE i # m
        <5>1. i \in 1 .. m - 1 /\ g[i] = w[i]
          BY <2>1, <4>3
        <5> QED
          BY <2>2, <4>1, <5>1 DEF IsWalk
      <4> QED
        BY <4>2, <4>3
    <3> QED
      BY <3>2, <3>3 DEF IsWalk
  <2> QED
    BY <1>1, <2>3
<1> QED
  BY <1>3, <1>4

LEMMA ListIsWalk ==
  ASSUME Types, NEW p \in Proc
  PROVE  IsWalk(ListOf(p), sptr, FirstOf(p), NPROC)
<1> DEFINE D == 0 .. NPROC
           Step(w, i) == IF i = 0
                         THEN IF pc[p] \in {"move", "adopt"}
                              THEN child[p] ELSE cptr[p]
                         ELSE IF w[i - 1] = None THEN None ELSE sptr[w[i - 1]]
           IsList(w) == w = [i \in D |-> Step(w, i)]
           l == CHOOSE w : IsList(w)
<1>1. NPROC \in Nat /\ sptr \in [Proc -> Proc \cup {None}]
        /\ FirstOf(p) \in Proc \cup {None}
  BY ExitAssumption DEF Types, FirstOf
<1>2. PICK w : IsWalk(w, sptr, FirstOf(p), NPROC)
  BY <1>1, WalkExists
<1>3. IsList(w)
  <2>1. \A i \in D : w[i] = Step(w, i)
    BY <1>1, <1>2 DEF IsWalk, FirstOf, Giving
  <2>2. w = [i \in D |-> w[i]]
    BY <1>2 DEF IsWalk
  <2> HIDE DEF Step
  <2> QED
    BY <2>1, <2>2
<1>4. IsList(l)
  <2> HIDE DEF IsList
  <2> QED
    BY <1>3
<1>5. ListOf(p) = l
  BY DEF ListOf
<1> HIDE DEF l
<1>6. \A i \in D : l[i] = Step(l, i)
  BY <1>4
<1>7. \A i \in D : w[i] = Step(w, i)
  BY <1>3
<1>8. \A i \in D : l[i] = w[i]
  <2> DEFINE T == {i \in D : l[i] # w[i]}
  <2> SUFFICES ASSUME T # {} PROVE FALSE
    OBVIOUS
  <2>1. T \in SUBSET Nat
    OBVIOUS
  <2>2. PICK m \in T : \A i \in T : m <= i
    BY <2>1, LeastOf
  <2>3. m # 0 => m - 1 \in D /\ l[m - 1] = w[m - 1]
    <3> SUFFICES ASSUME m # 0 PROVE m - 1 \in D /\ m - 1 \notin T
      OBVIOUS
    <3>1. m \in 1 .. NPROC
      BY <1>1
    <3>2. m - 1 \in D /\ ~(m <= m - 1)
      BY <1>1, <3>1
    <3> QED
      BY <2>2, <3>2
  <2>4. Step(l, m) = Step(w, m)
    BY <2>3
  <2> HIDE DEF Step
  <2> QED
    BY <1>6, <1>7, <2>2, <2>4
<1>9. l = [i \in D |-> l[i]] /\ w = [i \in D |-> w[i]]
  <2> HIDE DEF Step
  <2> QED
    BY <1>3, <1>4
<1>10. l = w
  <2>1. [i \in D |-> l[i]] = [i \in D |-> w[i]]
    BY <1>8
  <2> QED
    BY <1>9, <2>1
<1> QED
  BY <1>2, <1>5, <1>10

(* The list of p has its children, each once, and ends.                    *)
LEMMA ListHolds ==
  ASSUME Types, ListInv, ReachInv, NEW p \in Proc
  PROVE  /\ ListOf(p)[NPROC] = None
         /\ Range(ListOf(p)) \ {None} = Children(p)
<1>1. PICK w : w = ListOf(p)
  OBVIOUS
<1>2. NPROC \in Nat /\ NPROC # 0 /\ None \notin Proc
  BY ExitAssumption DEF None, Proc
<1>3. /\ w \in [0 .. NPROC -> Proc \cup {None}]
      /\ w[0] = FirstOf(p)
      /\ \A i \in 1 .. NPROC :
           w[i] = IF w[i - 1] = None THEN None ELSE sptr[w[i - 1]]
  BY <1>1, ListIsWalk DEF IsWalk
<1>4. ASSUME NEW i \in 0 .. NPROC, w[i] # None
      PROVE  w[i] \in Children(p)
  <2> DEFINE T == {k \in 0 .. NPROC : w[k] # None /\ w[k] \notin Children(p)}
  <2> SUFFICES ASSUME T # {} PROVE FALSE
    BY <1>4
  <2>1. T \in SUBSET Nat
    OBVIOUS
  <2>2. PICK m \in T : \A k \in T : m <= k
    BY <2>1, LeastOf
  <2>3. CASE m = 0
    BY <1>3, <2>2, <2>3 DEF ListInv, Children
  <2>4. CASE m # 0
    <3>1. m \in 1 .. NPROC /\ m - 1 \in 0 .. NPROC /\ ~(m <= m - 1)
      BY <1>2, <2>4
    <3>2. w[m - 1] # None /\ w[m] = sptr[w[m - 1]]
      BY <1>3, <2>2, <3>1
    <3>3. w[m - 1] \in Children(p)
      BY <2>2, <3>1, <3>2
    <3> QED
      BY <2>2, <3>2, <3>3, ListClosed
  <2> QED
    BY <2>3, <2>4
<1>5. ASSUME NEW i \in 0 .. NPROC, NEW j \in i + 1 .. NPROC, w[i] = w[j]
      PROVE  w[j] = None
  <2> DEFINE T == {k \in 0 .. NPROC :
                     \E l \in k + 1 .. NPROC : w[k] = w[l] /\ w[l] # None}
  <2> SUFFICES ASSUME T # {} PROVE FALSE
    BY <1>5
  <2>1. T \in SUBSET Nat
    OBVIOUS
  <2>2. PICK m \in T : \A k \in T : m <= k
    BY <2>1, LeastOf
  <2>3. PICK l \in m + 1 .. NPROC : w[m] = w[l] /\ w[l] # None
    BY <2>2
  <2>4. /\ m \in 0 .. NPROC /\ l \in 1 .. NPROC
        /\ l - 1 \in 0 .. NPROC
    BY <1>2, <2>2, <2>3
  <2>5. w[l - 1] \in Proc /\ w[l] = sptr[w[l - 1]] /\ w[l] \in Proc
    BY <1>3, <2>3, <2>4
  <2>6. CASE m = 0
    BY <1>3, <2>3, <2>5, <2>6 DEF ListInv
  <2>7. CASE m # 0
    <3>1. /\ m \in 1 .. NPROC /\ m - 1 \in 0 .. NPROC /\ ~(m <= m - 1)
          /\ l - 1 \in (m - 1) + 1 .. NPROC
      BY <1>2, <2>3, <2>4, <2>7
    <3>2. w[m - 1] \in Proc /\ w[m] = sptr[w[m - 1]]
      BY <1>3, <2>3, <3>1
    <3>3. w[m - 1] = w[l - 1]
      BY <2>3, <2>5, <3>2 DEF ListInv
    <3>4. m - 1 \in T
      BY <1>2, <2>5, <3>1, <3>3
    <3> QED
      BY <2>2, <3>1, <3>4
  <2> QED
    BY <2>6, <2>7
<1>6. w[NPROC] = None
  <2> SUFFICES ASSUME w[NPROC] # None PROVE FALSE
    OBVIOUS
  <2>1. ASSUME NEW i \in 0 .. NPROC PROVE w[i] # None
    <3> DEFINE T == {k \in 0 .. NPROC : w[NPROC - k] = None}
    <3>1. T = {}
      <4> SUFFICES ASSUME T # {} PROVE FALSE
        OBVIOUS
      <4>1. T \in SUBSET Nat
        OBVIOUS
      <4>2. PICK m \in T : \A k \in T : m <= k
        BY <4>1, LeastOf
      <4>3. m # 0
        BY <1>2, <4>2
      <4>4. /\ NPROC - (m - 1) \in 1 .. NPROC
            /\ (NPROC - (m - 1)) - 1 = NPROC - m
            /\ m - 1 \in 0 .. NPROC /\ ~(m <= m - 1)
        BY <1>2, <4>2, <4>3
      <4>5. w[NPROC - (m - 1)] = None
        BY <1>3, <4>2, <4>4
      <4> QED
        BY <4>2, <4>4, <4>5
    <3>2. NPROC - i \in 0 .. NPROC /\ NPROC - (NPROC - i) = i
      BY <1>2
    <3> QED
      BY <3>1, <3>2
  <2>2. w \in [0 .. NPROC -> Proc]
    BY <1>3, <2>1
  <2>3. /\ IsFiniteSet(0 .. NPROC) /\ Cardinality(0 .. NPROC) = NPROC + 1
        /\ IsFiniteSet(Proc) /\ Cardinality(Proc) = NPROC
    BY <1>2, FS_Interval DEF Proc
  <2>4. PICK x, y \in 0 .. NPROC : x # y /\ w[x] = w[y]
    <3> DEFINE D == 0 .. NPROC
    <3>1. Cardinality(Proc) < Cardinality(D)
      BY <1>2, <2>3
    <3>2. w \in [D -> Proc] /\ IsFiniteSet(D) /\ IsFiniteSet(Proc)
      BY <2>2, <2>3
    <3> HIDE DEF D
    <3>3. \E x, y \in D : x # y /\ w[x] = w[y]
      BY <3>1, <3>2, FS_PigeonHole
    <3> QED
      BY <3>3 DEF D
  <2>5. x \in y + 1 .. NPROC \/ y \in x + 1 .. NPROC
    BY <1>2, <2>4
  <2> QED
    BY <1>5, <2>1, <2>4, <2>5
<1>7. Range(w) = {w[i] : i \in 0 .. NPROC}
  BY <1>3 DEF Range
<1>8. ASSUME NEW c \in Children(p) PROVE c \in Range(w) \ {None}
  <2> DEFINE S == Range(w) \ {None}
  <2>1. S \in SUBSET Proc
    BY <1>3, <1>7
  <2>2. FirstOf(p) # None => FirstOf(p) \in S
    BY <1>2, <1>3, <1>7
  <2>3. ASSUME NEW x \in S, sptr[x] # None PROVE sptr[x] \in S
    <3>1. PICK i \in 0 .. NPROC : x = w[i]
      BY <1>7
    <3>2. i # NPROC
      BY <1>6, <3>1
    <3>3. i + 1 \in 1 .. NPROC /\ i + 1 \in 0 .. NPROC /\ (i + 1) - 1 = i
      BY <1>2, <3>2
    <3>4. w[i + 1] = sptr[x]
      BY <1>3, <3>1, <3>3
    <3> QED
      BY <1>7, <2>3, <3>3, <3>4
  <2>4. Reaches(sptr, FirstOf(p), c)
    BY DEF ReachInv
  <2> HIDE DEF S
  <2>5. Closed(S, sptr, FirstOf(p))
    BY <2>2, <2>3 DEF Closed
  <2>6. c \in S
    BY <2>1, <2>4, <2>5 DEF Reaches
  <2> QED
    BY <2>6 DEF S
<1>9. Range(w) \ {None} \subseteq Children(p)
  BY <1>4, <1>7
<1> QED
  BY <1>1, <1>6, <1>8, <1>9

(* The processes are a tree: a list ends and holds the children and nobody *)
(* else, and no process outlives its parent.                               *)
THEOREM FamilyHolds == Spec => []Family
<1>1. IInv => Family
  BY ListHolds, LivingParents DEF IInv, TreeInv, Types, TypeOK, Family
<1> QED
  BY <1>1, Invariance, PTL
=============================================================================
