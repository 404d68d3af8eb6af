------------------------------ MODULE ExitWait ------------------------------
(***************************************************************************)
(* Fork, exit and wait: the tree of processes.  kern_exit.c (exit, wait1), *)
(* newproc() and procalloc() of kern_fork.c, and the parts of kern_sig.c   *)
(* by which a process stops, tells its parent and continues (issig, stop,  *)
(* lpsignal).                                                              *)
(*                                                                         *)
(* A process reads its own list of children without a lock; proc_list      *)
(* guards every change of a list, because exit() gives children away to    *)
(* init, which may be in the middle of its list.  p_state of a child       *)
(* guards what it tells its parent: it is held from before the child reads *)
(* p_pptr to after it has posted p_zombie.  p_zombie is an event: it       *)
(* remembers one post.                                                     *)
(*                                                                         *)
(* Left out: vfork, ptrace, the multi-process debugger, pids and the hash  *)
(* of pids, limits per user, and what exit() releases before it touches    *)
(* the tree.  A process is fork()ed and made runnable in one step: its     *)
(* parent does nothing else in between.                                    *)
(***************************************************************************)
EXTENDS Integers, FiniteSets, FiniteSetsExt

CONSTANTS NPROC,     \* procNPROC: proc[1] to proc[NPROC] are modelled
          Parents,   \* the slots whose processes fork and wait
          Stoppable, \* the slots whose processes are sent stop signals
          Options    \* the options each of Parents calls wait3() with

ASSUME ExitAssumption == /\ NPROC \in Nat \ {0}
                         /\ Options \in
                              [Parents -> SUBSET SUBSET {"WNOHANG", "WUNTRACED"}]

Proc == 1 .. NPROC
init == 1            \* proc[1], which inherits orphans
None == 0            \* a null pointer; proc[0], the swapper, is in no list

VARIABLES
  stat,      \* p_stat: NULL (a free slot), SRUN, SSTOP, SZOMB
  pptr,      \* p_pptr: the parent
  cptr,      \* p_cptr: the first child
  sptr,      \* p_sptr: the next child of the same parent
  procmax,   \* one beyond the highest slot in use
  wted,      \* SWTED: the stop of these processes was reported
  tty,       \* processes whose p_cursig is a stop signal of the keyboard
  zombie,    \* the count of p_zombie
  pc,        \* where a process is
  child, q,  \* locals of wait1() and exit()
  options    \* argument of wait1()

vars == <<stat, pptr, cptr, sptr, procmax, wted, tty, zombie, pc, child, q,
          options>>

family == <<pptr, cptr, sptr, procmax>>
locals == <<child, q, options>>

Used(p) == stat[p] # "NULL"

(* p_state is held over several steps only by a process that is about to   *)
(* tell its parent, proc_list only by one that gives its children away.    *)
StateFree(p) == pc[p] \notin {"stop", "stopping", "post"}
ListFree == \A p \in Proc : pc[p] \notin {"move", "adopt"}

(* v_event(&p->p_zombie): wakes p if it sleeps, else is remembered.        *)
VZombie(p, pcs) ==
  IF pcs[p] = "asleep"
  THEN pc' = [pcs EXCEPT ![p] = "first"] /\ UNCHANGED zombie
  ELSE pc' = pcs /\ zombie' = [zombie EXCEPT ![p] = 1]

Init ==
  /\ stat = [p \in Proc |-> IF p = init THEN "SRUN" ELSE "NULL"]
  /\ pptr = [p \in Proc |-> None]
  /\ cptr = [p \in Proc |-> None]
  /\ sptr = [p \in Proc |-> None]
  /\ procmax = init + 1
  /\ wted = {}
  /\ tty = {}
  /\ zombie = [p \in Proc |-> 0]
  /\ pc = [p \in Proc |-> IF p = init THEN "user" ELSE "dead"]
  /\ child = [p \in Proc |-> None]
  /\ q = [p \in Proc |-> None]
  /\ options = [p \in Proc |-> {}]

-----------------------------------------------------------------------------
(* fork                                                                    *)

FreeSlots == {c \in Proc : c < procmax /\ ~Used(c)}

(* procalloc(): the first free slot, or the one at procmax.                *)
Slot == IF FreeSlots # {} THEN Min(FreeSlots) ELSE procmax

(* newproc(): the child goes to the head of the list.  EAGAIN when the     *)
(* table is full changes nothing.                                          *)
Fork(p) ==
  LET c == Slot IN
  /\ pc[p] = "user"
  /\ p \in Parents
  /\ ListFree
  /\ c \in Proc
  /\ procmax' = IF c = procmax THEN procmax + 1 ELSE procmax
  /\ stat' = [stat EXCEPT ![c] = "SRUN"]
  /\ pptr' = [pptr EXCEPT ![c] = p]
  /\ sptr' = [sptr EXCEPT ![c] = cptr[p]]
  /\ cptr' = [cptr EXCEPT ![p] = c]
  /\ wted' = wted \ {c}
  /\ pc' = [pc EXCEPT ![c] = "user"]
  /\ UNCHANGED <<tty, zombie, locals>>

-----------------------------------------------------------------------------
(* wait1()                                                                 *)

(* clear_event: before the first look at the children, so that the post of *)
(* a child that exits later is not lost.                                   *)
WaitCall(p) ==
  /\ pc[p] = "user"
  /\ p \in Parents
  /\ \E o \in Options[p] : options' = [options EXCEPT ![p] = o]
  /\ zombie' = [zombie EXCEPT ![p] = 0]
  /\ pc' = [pc EXCEPT ![p] = "first"]
  /\ UNCHANGED <<stat, family, wted, tty, child, q>>

(* The head of the loop over the children.                                 *)
First(p) ==
  /\ pc[p] = "first"
  /\ q' = [q EXCEPT ![p] = None]
  /\ child' = [child EXCEPT ![p] = cptr[p]]
  /\ pc' = [pc EXCEPT ![p] = "scan"]
  /\ UNCHANGED <<stat, family, wted, tty, zombie, options>>

(* The locals mean nothing outside of a call.                              *)
Return(p) ==
  /\ pc' = [pc EXCEPT ![p] = "user"]
  /\ child' = [child EXCEPT ![p] = None]
  /\ q' = [q EXCEPT ![p] = None]
  /\ options' = [options EXCEPT ![p] = {}]

StopWanted(p, c) ==
  stat[c] = "SSTOP" /\ c \notin wted /\ "WUNTRACED" \in options[p]

(* One child is looked at, without a lock.                                 *)
Scan(p) ==
  LET c == child[p] IN
  /\ pc[p] = "scan"
  /\ c # None
  /\ \/ /\ stat[c] = "SZOMB"
        /\ pc' = [pc EXCEPT ![p] = "bury"]
        /\ UNCHANGED <<child, q>>
     \/ /\ StopWanted(p, c)
        /\ pc' = [pc EXCEPT ![p] = "report"]
        /\ UNCHANGED <<child, q>>
     \/ /\ stat[c] # "SZOMB" /\ ~StopWanted(p, c)
        /\ q' = [q EXCEPT ![p] = c]
        /\ child' = [child EXCEPT ![p] = sptr[c]]
        /\ UNCHANGED pc
  /\ UNCHANGED <<stat, family, wted, tty, zombie, options>>

(* ECHILD, or nothing to report and WNOHANG.                               *)
NoWait(p) ==
  /\ pc[p] = "scan"
  /\ child[p] = None
  /\ cptr[p] = None \/ "WNOHANG" \in options[p]
  /\ Return(p)
  /\ UNCHANGED <<stat, family, wted, tty, zombie>>

(* Mutant: the event is cleared just before the sleep.                     *)
PEventCleared(p) ==
  /\ pc[p] = "scan"
  /\ child[p] = None
  /\ cptr[p] # None
  /\ "WNOHANG" \notin options[p]
  /\ zombie' = [zombie EXCEPT ![p] = 0]
  /\ pc' = [pc EXCEPT ![p] = "asleep"]
  /\ UNCHANGED <<stat, family, wted, tty, locals>>

(* p_event(&p->p_zombie, PWAIT): takes the post that is there, or sleeps.  *)
PEvent(p) ==
  /\ pc[p] = "scan"
  /\ child[p] = None
  /\ cptr[p] # None
  /\ "WNOHANG" \notin options[p]
  /\ zombie' = [zombie EXCEPT ![p] = 0]
  /\ pc' = [pc EXCEPT ![p] = IF zombie[p] = 0 THEN "asleep" ELSE "first"]
  /\ UNCHANGED <<stat, family, wted, tty, locals>>

(* A signal ends the sleep; the call is left, perhaps to be restarted.     *)
Interrupt(p) ==
  /\ pc[p] = "asleep"
  /\ Return(p)
  /\ UNCHANGED <<stat, family, wted, tty, zombie>>

(* p_state of the zombie: it has posted, and is gone.                      *)
Bury(p) ==
  /\ pc[p] = "bury"
  /\ StateFree(child[p])
  /\ pc' = [pc EXCEPT ![p] = "unlink"]
  /\ UNCHANGED <<stat, family, wted, tty, zombie, locals>>

(* The child in front of c.  When exit() has put children in front of c    *)
(* since q was read, the list is searched for it.                          *)
Before(p, c) ==
  IF q[p] # None THEN q[p] ELSE CHOOSE x \in Proc : sptr[x] = c

(* Mutant: a child found at the head of the list is taken to be there yet. *)
RemoveFirst(p, c) ==
  IF q[p] = None
  THEN /\ cptr' = [cptr EXCEPT ![p] = sptr[c]]
       /\ sptr' = [sptr EXCEPT ![c] = None]
  ELSE /\ sptr' = [sptr EXCEPT ![q[p]] = sptr[c], ![c] = None]
       /\ UNCHANGED cptr

(* Takes c off the list of p.  p_sptr of a free slot is not read; it is    *)
(* None here.                                                              *)
Remove(p, c) ==
  IF c = cptr[p]
  THEN /\ cptr' = [cptr EXCEPT ![p] = sptr[c]]
       /\ sptr' = [sptr EXCEPT ![c] = None]
  ELSE /\ sptr' = [sptr EXCEPT ![Before(p, c)] = sptr[c], ![c] = None]
       /\ UNCHANGED cptr

(* Mutant: the slots below the one that is freed are not looked at.        *)
HighestBelow(c) == c - 1

(* procmax comes down when the highest slot is freed.                      *)
Highest(c) == Max({init} \cup {x \in Proc : x < c /\ Used(x)})

(* The slot is freed under proc_list, and wait1() returns.                 *)
Unlink(p) ==
  LET c == child[p] IN
  /\ pc[p] = "unlink"
  /\ ListFree
  /\ Remove(p, c)
  /\ pptr' = [pptr EXCEPT ![c] = None]
  /\ procmax' = IF c + 1 = procmax THEN Highest(c) + 1 ELSE procmax
  /\ stat' = [stat EXCEPT ![c] = "NULL"]
  /\ wted' = wted \ {c}
  /\ Return(p)
  /\ UNCHANGED <<tty, zombie>>

(* A stopped child, looked at again under its p_state: it may run by now.  *)
Report(p) ==
  LET c == child[p] IN
  /\ pc[p] = "report"
  /\ StateFree(c)
  /\ \/ /\ stat[c] = "SSTOP"
        /\ wted' = wted \cup {c}
        /\ Return(p)
     \/ /\ stat[c] # "SSTOP"
        /\ q' = [q EXCEPT ![p] = c]
        /\ child' = [child EXCEPT ![p] = sptr[c]]
        /\ pc' = [pc EXCEPT ![p] = "scan"]
        /\ UNCHANGED <<wted, options>>
  /\ UNCHANGED <<stat, family, tty, zombie>>

-----------------------------------------------------------------------------
(* Stopping                                                                *)

(* issig() has p_state and takes a stop signal.  Children of init are      *)
(* killed by those of the keyboard, which is an exit like any other.       *)
StopSignal(p) ==
  /\ pc[p] = "user"
  /\ p \in Stoppable \ {init}
  /\ \/ /\ pptr[p] # init
        /\ tty' = tty \cup {p}
     \/ UNCHANGED tty
  /\ pc' = [pc EXCEPT ![p] = "stop"]
  /\ UNCHANGED <<stat, family, wted, zombie, locals>>

(* stop(): the new state comes before the post.                            *)
Stop(p) ==
  /\ pc[p] = "stop"
  /\ stat' = [stat EXCEPT ![p] = "SSTOP"]
  /\ wted' = wted \ {p}
  /\ pc' = [pc EXCEPT ![p] = "stopping"]
  /\ UNCHANGED <<family, tty, zombie, locals>>

(* v_event and psignal to the parent, which takes the parent's p_state;    *)
(* swtch() gives back p_state.                                             *)
StopPost(p) ==
  /\ pc[p] = "stopping"
  /\ StateFree(pptr[p])
  /\ VZombie(pptr[p], [pc EXCEPT ![p] = "stopped"])
  /\ UNCHANGED <<stat, family, wted, tty, locals>>

(* setrun() of a stopped process: SIGCONT or SIGKILL.                      *)
Continue(p) ==
  /\ stat' = [stat EXCEPT ![p] = "SRUN"]
  /\ tty' = tty \ {p}
  /\ pc' = [pc EXCEPT ![p] = "user"]

(* Anyone sends it.                                                        *)
Cont(p) ==
  /\ pc[p] = "stopped"
  /\ Continue(p)
  /\ UNCHANGED <<family, wted, zombie, locals>>

-----------------------------------------------------------------------------
(* exit()                                                                  *)

(* proc_list is taken to give the children away.                           *)
Exit(p) ==
  /\ pc[p] = "user"
  /\ p # init
  /\ ListFree
  /\ child' = [child EXCEPT ![p] = cptr[p]]
  /\ pc' = [pc EXCEPT ![p] = "move"]
  /\ UNCHANGED <<stat, family, wted, tty, zombie, q, options>>

(* A child goes to the head of init's list ...                             *)
Move(p) ==
  LET c == child[p] IN
  /\ pc[p] = "move"
  /\ c # None
  /\ child' = [child EXCEPT ![p] = sptr[c]]
  /\ sptr' = [sptr EXCEPT ![c] = cptr[init]]
  /\ cptr' = [cptr EXCEPT ![init] = c]
  /\ q' = [q EXCEPT ![p] = c]
  /\ pc' = [pc EXCEPT ![p] = "adopt"]
  /\ UNCHANGED <<stat, pptr, procmax, wted, tty, zombie, options>>

(* Mutant: p_pptr is changed without p_state.                              *)
AdoptUnlocked(p) ==
  LET c == q[p] IN
  /\ pc[p] = "adopt"
  /\ pptr' = [pptr EXCEPT ![c] = init]
  /\ IF stat[c] = "SSTOP"
     THEN /\ stat' = [stat EXCEPT ![c] = "SRUN"]
          /\ tty' = tty \ {c}
          /\ pc' = [pc EXCEPT ![p] = "move", ![c] = "user"]
     ELSE pc' = [pc EXCEPT ![p] = "move"] /\ UNCHANGED <<stat, tty>>
  /\ UNCHANGED <<cptr, sptr, procmax, wted, zombie, locals>>

(* ... and, under its p_state, gets init for a parent.  A stopped one is   *)
(* sent SIGHUP and SIGCONT.                                                *)
Adopt(p) ==
  LET c == q[p] IN
  /\ pc[p] = "adopt"
  /\ StateFree(c)
  /\ pptr' = [pptr EXCEPT ![c] = init]
  /\ IF stat[c] = "SSTOP"
     THEN /\ stat' = [stat EXCEPT ![c] = "SRUN"]
          /\ tty' = tty \ {c}
          /\ pc' = [pc EXCEPT ![p] = "move", ![c] = "user"]
     ELSE pc' = [pc EXCEPT ![p] = "move"] /\ UNCHANGED <<stat, tty>>
  /\ UNCHANGED <<cptr, sptr, procmax, wted, zombie, locals>>

(* Mutant: init is not told.                                               *)
GivenQuietly(p) ==
  /\ pc[p] = "move"
  /\ child[p] = None
  /\ pc' = [pc EXCEPT ![p] = "exit"]
  /\ cptr' = [cptr EXCEPT ![p] = None]
  /\ q' = [q EXCEPT ![p] = None]
  /\ UNCHANGED <<stat, pptr, sptr, procmax, wted, tty, zombie, child, options>>

(* init is told; proc_list is released.                                    *)
Given(p) ==
  /\ pc[p] = "move"
  /\ child[p] = None
  /\ IF cptr[p] # None
     THEN VZombie(init, [pc EXCEPT ![p] = "exit"])
     ELSE pc' = [pc EXCEPT ![p] = "exit"] /\ UNCHANGED zombie
  /\ cptr' = [cptr EXCEPT ![p] = None]
  /\ q' = [q EXCEPT ![p] = None]
  /\ UNCHANGED <<stat, pptr, sptr, procmax, wted, tty, child, options>>

(* p_state is taken, and p is a zombie from now on.                        *)
Zombie(p) ==
  /\ pc[p] = "exit"
  /\ stat' = [stat EXCEPT ![p] = "SZOMB"]
  /\ pc' = [pc EXCEPT ![p] = "post"]
  /\ UNCHANGED <<family, wted, tty, zombie, locals>>

(* psignal and v_event to the parent, and the last use of the slot.        *)
Post(p) ==
  /\ pc[p] = "post"
  /\ StateFree(pptr[p])
  /\ VZombie(pptr[p], [pc EXCEPT ![p] = "dead"])
  /\ UNCHANGED <<stat, family, wted, tty, locals>>

-----------------------------------------------------------------------------
User(p) == Fork(p) \/ WaitCall(p) \/ StopSignal(p) \/ Exit(p)

Wait(p) ==
  \/ First(p) \/ Scan(p) \/ NoWait(p) \/ PEvent(p)
  \/ Bury(p) \/ Unlink(p) \/ Report(p)

Dying(p) == Move(p) \/ Adopt(p) \/ Given(p) \/ Zombie(p) \/ Post(p)

(* What a process in the kernel does next, when it has the lock for it.    *)
Kernel(p) == Wait(p) \/ Stop(p) \/ StopPost(p) \/ Dying(p)

Next == \E p \in Proc : User(p) \/ Kernel(p) \/ Interrupt(p) \/ Cont(p)

Spec == Init /\ [][Next]_vars

(* A process in the kernel keeps executing, and gets a lock it spins for,  *)
(* though others have it in between.                                       *)
FairSpec == Spec /\ \A p \in Proc : SF_vars(Kernel(p))

-----------------------------------------------------------------------------
(* Properties                                                              *)

(* The parent a process is listed with: init already, when exit() has put  *)
(* it there and not yet set p_pptr.                                        *)
ListedWith(c) ==
  IF \E x \in Proc : pc[x] = "adopt" /\ q[x] = c THEN init ELSE pptr[c]

Children(p) == {c \in Proc : Used(c) /\ ListedWith(c) = p}

TypeOK ==
  /\ stat \in [Proc -> {"NULL", "SRUN", "SSTOP", "SZOMB"}]
  /\ \A f \in {pptr, cptr, sptr, child, q} : f \in [Proc -> Proc \cup {None}]
  /\ procmax \in init + 1 .. NPROC + 1
  /\ wted \subseteq Proc /\ tty \subseteq Proc
  /\ zombie \in [Proc -> 0 .. 1]
  /\ options \in [Proc -> SUBSET {"WNOHANG", "WUNTRACED"}]
  /\ pc \in [Proc -> {"user", "first", "scan", "asleep", "bury", "unlink",
                      "report", "stop", "stopping", "stopped", "move",
                      "adopt", "exit", "post", "dead"}]

(* The list of children of p: its members in order, then None.  exit() is  *)
(* done with those in front of its next child.                             *)
ListOf(p) ==
  LET nth[i \in 0 .. NPROC] ==
        IF i = 0
        THEN IF pc[p] \in {"move", "adopt"} THEN child[p] ELSE cptr[p]
        ELSE IF nth[i - 1] = None THEN None ELSE sptr[nth[i - 1]]
  IN  nth

(* Whoever is about to post to its parent has one, which is not dead: exit *)
(* and stop read p_pptr while wait1() may be freeing the slot, or exit()   *)
(* of the parent giving its children away.                                 *)
PostsToLiving ==
  \A c \in Proc : pc[c] \in {"post", "stopping"} =>
    pptr[c] # None /\ stat[pptr[c]] \notin {"NULL", "SZOMB"}

(* The processes are a tree: the list of a process ends, and holds its     *)
(* children and nobody else, while wait1() of init unlinks from a list     *)
(* that exit() of others grows; and no process outlives its parent.        *)
Family ==
  /\ TypeOK
  /\ \A p \in Proc : /\ ListOf(p)[NPROC] = None
                     /\ Range(ListOf(p)) \ {None} = Children(p)
  /\ PostsToLiving

(* What wait1() of p would return at once.                                 *)
Waitable(p, c) == stat[c] = "SZOMB" \/ StopWanted(p, c)

(* The post of p_zombie for this child is still to be made: by the child,  *)
(* or by a process that gives its children to init.                        *)
ToBePosted(p, c) ==
  \/ pc[c] \in {"post", "stopping"} /\ pptr[c] = p
  \/ p = init /\ \E x \in Proc : pc[x] \in {"move", "adopt"} /\ cptr[x] # None

(* No process sleeps in wait1() while it has a child to wait for, unless   *)
(* the post that wakes it is under way: children are scanned without a     *)
(* lock, and may exit, stop or arrive behind the scan.                     *)
ZombieSeen ==
  \A p \in Proc : pc[p] = "asleep" =>
    \A c \in Children(p) : Waitable(p, c) => ToBePosted(p, c)

(* A child of init is not stopped from the keyboard: nobody would continue *)
(* it.  issig() looks for such a parent before it stops, and exit() for    *)
(* stopped children; p_state keeps the two from missing each other.        *)
NoStoppedOrphan ==
  \A p \in Proc : stat[p] = "SSTOP" /\ pptr[p] = init => p \notin tty

(* procmax is one beyond the highest slot in use: procalloc() would not    *)
(* find pids above it, and takes the slot at procmax to be free.           *)
TopInUse ==
  Used(procmax - 1) /\ \A p \in Proc : p >= procmax => ~Used(p)

(* wait1() returns when there is a zombie, whatever the other children do. *)
WaitReturns ==
  \A p \in Parents :
    pc[p] \in {"first", "scan", "asleep"}
      /\ (\E c \in Children(p) : stat[c] = "SZOMB")
    ~> pc[p] = "user"
=============================================================================
