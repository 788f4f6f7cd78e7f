------------------------------ MODULE ProcTree ------------------------------
(***************************************************************************)
(* The life of processes (kern/proc/proc.cpp): allocproc, fork and clone,  *)
(* exit, wait, wait4 and freeproc over procTable, and the scheduler's      *)
(* wakeup of init when it passes a zombie.                                 *)
(*                                                                         *)
(* Every process runs on hart 0.  The timer may switch a system call out   *)
(* wherever it holds no lock and interrupts are on (KernelTrap), so a step *)
(* is what lies between two such places.  pop_off is taken to turn them on *)
(* again, as proc.h:45 means it to; as written it does not (SpinLock), and *)
(* fewer steps interleave.  RUNNABLE stands for RUNNING too; running out   *)
(* of memory in allocproc changes nothing here.                            *)
(***************************************************************************)
EXTENDS Integers, FiniteSets

CONSTANTS
    NPROC,      \* the slots of procTable; slot 0 is never given to a process
    Status,     \* the values programs pass to exit
    Shifts,     \* how often xstate, 32 bits, can be shifted by 8 and keep a status
    Workload    \* what happens besides: "overlap": the timer switches a fork
                \* out and another begins, which takes a pop_off that turns
                \* interrupts on after allocproc's first lock; "full": fork with
                \* no slot left; "childless": wait without children

ASSUME ProcTreeAssumption ==
    /\ NPROC \in Nat /\ NPROC > 1 /\ Shifts \in Nat \ {0}
    /\ Status \subseteq Nat \ {0}
    /\ Workload \subseteq {"overlap", "full", "childless"}

Slots == 0..NPROC - 1
initproc == 1
NULL == -1
Zero == <<0, 0>>
Nothing == <<NULL, 0>>
XStates == (Status \cup {0}) \X (0..Shifts)

VARIABLES
    state, parent,  \* p->state, p->parent
    xstate,         \* p->xstate: <<the status, how often it was shifted>>
    pc,             \* where each process is in its system call
    child,          \* fork's `child` and wait4's `pid`
    exited,         \* what each zombie passed to exit
    told,           \* the status the last reaping wait copied out, or Nothing
    stopped         \* "panic", "overrun" (past the end of procTable) or "no"

vars == <<state, parent, xstate, pc, child, exited, told, stopped>>

Init ==
    /\ state = [p \in Slots |-> IF p = initproc THEN "RUNNABLE" ELSE "UNUSED"]
    /\ parent = [p \in Slots |-> NULL]
    /\ xstate = [p \in Slots |-> Zero]
    /\ pc = [p \in Slots |-> "user"]
    /\ child = [p \in Slots |-> 0]
    /\ exited = [p \in Slots |-> 0]
    /\ told = Nothing
    /\ stopped = "no"

Runs(p, label) == stopped = "no" /\ state[p] = "RUNNABLE" /\ pc[p] = label
Goto(p, label) == pc' = [pc EXCEPT ![p] = label]
First(S) == {s \in S : \A t \in S : s <= t}
Children(p) == {c \in Slots : parent[c] = p}
Forking(p) == pc[p] \in {"fork", "forked"}

-----------------------------------------------------------------------------
(* fork, clone and allocproc *)

Unused == {c \in Slots \ {0} : state[c] = "UNUSED"}

\* allocproc: the slot it returns stays UNUSED and its lock is free again
ForkAlloc(p) ==
    /\ Runs(p, "user")
    /\ "overlap" \in Workload \/ \A q \in Slots : ~Forking(q)
    /\ \E c \in First(Unused) : child' = [child EXCEPT ![p] = c]
    /\ Goto(p, "fork")
    /\ UNCHANGED <<state, parent, xstate, exited, told, stopped>>

\* allocproc's loop ends when the array `proc` lies behind procTable, which it
\* never does
ForkOverruns(p) ==
    /\ Runs(p, "user") /\ "full" \in Workload
    /\ Unused = {}
    /\ stopped' = "overrun"
    /\ UNCHANGED <<state, parent, xstate, pc, child, exited, told>>

\* Uvmcopy fails
ForkFails(p) ==
    /\ Runs(p, "fork")
    /\ Goto(p, "user")
    /\ UNCHANGED <<state, parent, xstate, child, exited, told, stopped>>

ForkParent(p) ==
    /\ Runs(p, "fork")
    /\ parent' = [parent EXCEPT ![child[p]] = p]
    /\ Goto(p, "forked")
    /\ UNCHANGED <<state, xstate, child, exited, told, stopped>>

\* the child starts in forkret and goes to user mode
ForkReady(p) ==
    /\ Runs(p, "forked")
    /\ state' = [state EXCEPT ![child[p]] = "RUNNABLE"]
    /\ pc' = [pc EXCEPT ![p] = "user", ![child[p]] = "user"]
    /\ UNCHANGED <<parent, xstate, child, exited, told, stopped>>

-----------------------------------------------------------------------------
(* exit *)

Woken(q) == [p \in Slots |->
    IF p = q /\ state[p] = "SLEEPING" THEN "RUNNABLE" ELSE state[p]]

\* Mutant: only the children that run are handed to init
ExitReparentRunning(p) ==
    /\ Runs(p, "user") /\ p # initproc
    /\ parent' = [c \in Slots |-> IF parent[c] = p /\ state[c] = "RUNNABLE"
                                  THEN initproc ELSE parent[c]]
    /\ Goto(p, "exiting")
    /\ UNCHANGED <<state, xstate, child, exited, told, stopped>>

\* the children are handed to init
ExitReparent(p) ==
    /\ Runs(p, "user") /\ p # initproc
    /\ parent' = [c \in Slots |-> IF parent[c] = p THEN initproc ELSE parent[c]]
    /\ Goto(p, "exiting")
    /\ UNCHANGED <<state, xstate, child, exited, told, stopped>>

\* Mutant: the parent is not woken
ExitZombieSilent(p) ==
    /\ Runs(p, "exiting")
    /\ state' = [state EXCEPT ![p] = "ZOMBIE"]
    /\ \E s \in Status : /\ xstate' = [xstate EXCEPT ![p] = <<s, 0>>]
                         /\ exited' = [exited EXCEPT ![p] = s]
    /\ Goto(p, "user")
    /\ UNCHANGED <<parent, child, told, stopped>>

\* Mutant: the status is not kept
ExitZombieMute(p) ==
    /\ Runs(p, "exiting")
    /\ state' = [Woken(parent[p]) EXCEPT ![p] = "ZOMBIE"]
    /\ \E s \in Status : exited' = [exited EXCEPT ![p] = s]
    /\ Goto(p, "user")
    /\ UNCHANGED <<parent, xstate, child, told, stopped>>

\* ZOMBIE, the status, wakeup(p->parent) and the switch away: KernelTrap does not
\* switch out a process that is not RUNNING
ExitZombie(p) ==
    /\ Runs(p, "exiting")
    /\ state' = [Woken(parent[p]) EXCEPT ![p] = "ZOMBIE"]
    /\ \E s \in Status : /\ xstate' = [xstate EXCEPT ![p] = <<s, 0>>]
                         /\ exited' = [exited EXCEPT ![p] = s]
    /\ Goto(p, "user")
    /\ UNCHANGED <<parent, child, told, stopped>>

\* Mutant: the scheduler passes the zombie's parent, not init
ZombieWakesParent(z) ==
    /\ stopped = "no"
    /\ state[z] = "ZOMBIE" /\ parent[z] # initproc
    /\ state' = Woken(parent[z])
    /\ UNCHANGED <<parent, xstate, pc, child, exited, told, stopped>>

\* scheduler's loop comes to a zombie
ZombieWakesInit(z) ==
    /\ stopped = "no"
    /\ state[z] = "ZOMBIE"
    /\ state' = Woken(initproc)
    /\ UNCHANGED <<parent, xstate, pc, child, exited, told, stopped>>

-----------------------------------------------------------------------------
(* wait and wait4.  `copy` is what becomes of the status: no address was    *)
(* given, or copyout succeeds; where it fails the child is not reaped.      *)

Copies == {"none", "ok"}

Freeproc(c) ==
    /\ state' = [state EXCEPT ![c] = "UNUSED"]
    /\ parent' = [parent EXCEPT ![c] = NULL]
    /\ xstate' = [xstate EXCEPT ![c] = Zero]
    /\ exited' = [exited EXCEPT ![c] = 0]

Tell(copy, value) == told' = IF copy = "ok" THEN value ELSE Nothing

Scans(p) == Runs(p, "user") \/ Runs(p, "wait")

Dead(p) == {c \in Children(p) : state[c] = "ZOMBIE"}

WaitReaps(p, copy) ==
    /\ Scans(p)
    /\ \E c \in First(Dead(p)) : Freeproc(c) /\ Tell(copy, xstate[c])
    /\ Goto(p, "user")
    /\ UNCHANGED <<child, stopped>>

WaitFails(p) ==
    /\ Scans(p) /\ Dead(p) # {}
    /\ Goto(p, "user")
    /\ UNCHANGED <<state, parent, xstate, child, exited, told, stopped>>

WaitSleeps(p) ==
    /\ Scans(p) /\ Dead(p) = {} /\ Children(p) # {}
    /\ state' = [state EXCEPT ![p] = "SLEEPING"]
    /\ Goto(p, "wait")
    /\ UNCHANGED <<parent, xstate, child, exited, told, stopped>>

\* wait returns -1 and keeps p->lock: the next acquire of it, by the yield of the
\* timer at the latest, panics
WaitChildless(p) ==
    /\ Scans(p) /\ Children(p) = {} /\ "childless" \in Workload
    /\ stopped' = "panic"
    /\ UNCHANGED <<state, parent, xstate, pc, child, exited, told>>

\* wait4 looks at the parent of slot c; for another's child it returns -1
Wait4Enter(p, c) ==
    /\ Runs(p, "user") /\ parent[c] = p
    /\ child' = [child EXCEPT ![p] = c]
    /\ Goto(p, "wait4")
    /\ UNCHANGED <<state, parent, xstate, exited, told, stopped>>

\* wait4's loop shifts the status before it knows whether there is one
Shifted(c) ==
    IF xstate[c][1] = 0 THEN xstate[c]
    ELSE IF xstate[c][2] = Shifts THEN <<0, Shifts>>
    ELSE <<xstate[c][1], xstate[c][2] + 1>>

Wait4Reaps(p, copy) ==
    /\ Runs(p, "wait4") /\ state[child[p]] = "ZOMBIE"
    /\ Freeproc(child[p])
    /\ Tell(copy, Shifted(child[p]))
    /\ Goto(p, "user")
    /\ UNCHANGED <<child, stopped>>

Wait4Fails(p) ==
    /\ Runs(p, "wait4") /\ state[child[p]] = "ZOMBIE"
    /\ xstate' = [xstate EXCEPT ![child[p]] = Shifted(child[p])]
    /\ Goto(p, "user")
    /\ UNCHANGED <<state, parent, child, exited, told, stopped>>

Wait4Sleeps(p) ==
    /\ Runs(p, "wait4") /\ state[child[p]] # "ZOMBIE"
    /\ xstate' = [xstate EXCEPT ![child[p]] = Shifted(child[p])]
    /\ state' = [state EXCEPT ![p] = "SLEEPING"]
    /\ UNCHANGED <<parent, pc, child, exited, told, stopped>>

-----------------------------------------------------------------------------
ForkStep(p) == ForkAlloc(p) \/ ForkOverruns(p) \/ ForkFails(p) \/ ForkParent(p) \/ ForkReady(p)
ExitStep(p) == ExitReparent(p) \/ ExitZombie(p)
WaitStep(p) ==
    \/ \E copy \in Copies : WaitReaps(p, copy)
    \/ WaitFails(p) \/ WaitSleeps(p) \/ WaitChildless(p)
Wait4Step(p) ==
    \/ \E c \in Slots : Wait4Enter(p, c)
    \/ \E copy \in Copies : Wait4Reaps(p, copy)
    \/ Wait4Fails(p) \/ Wait4Sleeps(p)

Next ==
    \/ \E p \in Slots : ForkStep(p) \/ ExitStep(p) \/ WaitStep(p) \/ Wait4Step(p)
    \/ \E z \in Slots : ZombieWakesInit(z)

\* The scheduler comes to every zombie and runs every RUNNABLE process (Sched), so
\* a process in a system call goes on with it.
Fairness ==
    /\ \A z \in Slots : WF_vars(ZombieWakesInit(z))
    /\ \A p \in Slots :
        WF_vars(pc[p] # "user" /\ (ForkStep(p) \/ ExitStep(p) \/ WaitStep(p) \/ Wait4Step(p)))

Spec == Init /\ [][Next]_vars
FairSpec == Spec /\ Fairness

-----------------------------------------------------------------------------
TypeOK ==
    /\ state \in [Slots -> {"UNUSED", "SLEEPING", "RUNNABLE", "ZOMBIE"}]
    /\ parent \in [Slots -> Slots \cup {NULL}]
    /\ xstate \in [Slots -> XStates]
    /\ pc \in [Slots -> {"user", "fork", "forked", "exiting", "wait", "wait4"}]
    /\ child \in [Slots -> Slots]
    /\ exited \in [Slots -> Status \cup {0}]
    /\ told \in XStates \cup {Nothing}
    /\ stopped \in {"no", "panic", "overrun"}

Alive(p) == state[p] \in {"SLEEPING", "RUNNABLE"}

\* exit:594-598, fork:351, freeproc: every process but init has a parent that is
\* alive and can wait for it, whatever the order parents and children exit in,
\* and a free slot belongs to nobody but the fork that is filling it.
TreeSound ==
    /\ Alive(initproc) /\ parent[initproc] = NULL
    /\ \A c \in Slots \ {initproc} : state[c] # "UNUSED" =>
        parent[c] # NULL /\ Alive(parent[c])
    /\ \A c \in Slots : state[c] = "UNUSED" /\ parent[c] # NULL =>
        pc[parent[c]] = "forked" /\ child[parent[c]] = c

\* exit:613-615 and the loops of wait and wait4: a process is not asleep while
\* what it waits for has exited; for init, which inherits zombies nobody woke it
\* for, InitWokenForZombies takes this place.
NoWaiterForgotten ==
    \A p \in Slots \ {initproc} : state[p] = "SLEEPING" =>
        IF pc[p] = "wait" THEN Dead(p) = {} ELSE state[child[p]] # "ZOMBIE"

\* wait and wait4 hand out the status of the child they reap, not one that an
\* earlier process left in its slot; the shifts of wait4 may have used it up.
StatusIsTheChilds ==
    [][\A c \in Slots : state[c] = "ZOMBIE" /\ state'[c] = "UNUSED" =>
        told' = Nothing \/ told'[1] = exited[c] \/ told' = <<0, Shifts>>]_vars

\* scheduler:256-258: init, asleep in wait, is woken for a zombie it inherits,
\* although that zombie's exit woke its former parent (unless the kernel stopped).
InitWokenForZombies ==
    Dead(initproc) # {} /\ state[initproc] = "SLEEPING"
        ~> state[initproc] = "RUNNABLE" \/ stopped # "no"

=============================================================================
