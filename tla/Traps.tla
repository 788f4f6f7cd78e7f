------------------------------- MODULE Traps -------------------------------
(***************************************************************************)
(* How hart 0 gets from a process to the kernel and back: uservec and      *)
(* userret (kern/proc/trampoline.S), UserTrap, UserTrapRet, KernelTrap and *)
(* DevIntr (kern/trap/trap.cpp), kernelvec (kern/trap/kernelvec.S), the    *)
(* timer (kern/sync/timer.cpp), syscall (kern/syscall/syscall.cpp), and    *)
(* the switches that happen on the way: yield, sleep, prepareSched,        *)
(* forkret, scheduler (kern/proc/proc.cpp).                                *)
(*                                                                         *)
(* The hart has one set of control registers for every process it runs and *)
(* every trap that interrupts another.  What runs with interrupts off is   *)
(* one step, unless a trap there is what must not happen.                  *)
(***************************************************************************)
EXTENDS Integers, Sequences

CONSTANTS
    Procs,      \* slots of procTable
    First,      \* the ones that are processes to begin with
    Values,     \* what a register may hold; 0 is one of them
    Known       \* whether a system call's number is in the table: {FALSE} as long
                \* as nobody calls syscall_init

Scheduler == "scheduler"    \* its own context, in no slot

ASSUME TrapsAssumption ==
    /\ Scheduler \notin Procs
    /\ First \subseteq Procs /\ 0 \in Values
    /\ Known \subseteq BOOLEAN

Threads == Procs \cup {Scheduler}

\* the program counters of user mode, and `+= 4`
Plus4 == [u0 |-> "u1", u1 |-> "u0"]
Contexts == [a0 : Values, pc : DOMAIN Plus4]
\* what user code leaves in its registers: their values mean nothing to the kernel, so
\* two sets of registers that differ everywhere will do, and a0 stands for all but the pc
Left == {c \in Contexts : c.pc = "u0" <=> c.a0 = 0}

VARIABLES
    cur,        \* curcpu()->proc, or Scheduler
    switched,   \* pswitch has just jumped to cur
    user,       \* the hart is in user mode
    regs,       \* the process's registers, in the hart while in user mode
    sstatus,    \* its bits SIE, SPIE and SPP (TRUE: supervisor)
    sepc, scause,   \* "none" when the code has read them and will not again
    stvec,
    intena,     \* what the outermost push_off has found, while a switch needs it
    state, tf,  \* of each process; tf is its trapframe, epc is its pc
    kpc,        \* where each thread is in the kernel
    kint,       \* prepareSched's intr_enable
    frames,     \* sepc and sstatus in each active KernelTrap
    timer,      \* "set" or "spent": whether another tick will come
    panicked    \* "no", or why

csrs == <<sstatus, sepc, scause, stvec, intena>>
procVars == <<state, tf>>
hart == <<cur, switched, user, regs>>
stacks == <<kpc, kint, frames>>
vars == <<hart, csrs, procVars, stacks, timer, panicked>>

Nothing == [a0 |-> -1, pc |-> "none"]
Zeroed == [a0 |-> 0, pc |-> "u0"]

\* main has called TrapInitHart on this hart
Init ==
    /\ cur = Scheduler /\ switched = FALSE /\ user = FALSE /\ regs = Nothing
    /\ sstatus = [sie |-> TRUE, spie |-> FALSE, spp |-> FALSE]
    /\ sepc = "none" /\ scause = "none" /\ stvec = "kernelvec" /\ intena = FALSE
    /\ state = [p \in Procs |-> IF p \in First THEN "RUNNABLE" ELSE "UNUSED"]
    /\ tf = [p \in Procs |-> Zeroed]
    /\ kpc = [a \in Threads |-> IF a = Scheduler THEN "loop" ELSE "forkret"]
    /\ kint = [p \in Procs |-> FALSE]
    /\ frames = [a \in Threads |-> <<>>]
    /\ timer = "set" /\ panicked = "no"

Goes == panicked = "no" /\ ~user /\ ~switched
Runs(a, label) == Goes /\ cur = a /\ kpc[a] = label
Goto(a, label) == kpc' = [kpc EXCEPT ![a] = label]
SetSie(on) == sstatus' = [sstatus EXCEPT !.sie = on]
Panic(why) ==
    panicked' = why /\ UNCHANGED <<hart, csrs, procVars, stacks, timer>>

-----------------------------------------------------------------------------
(* The hart takes a trap *)

\* Interrupts are taken in user mode or while SIE is set; one that comes earlier waits.
\* The other causes arise in user mode.
Taken(c) ==
    /\ panicked = "no" /\ ~switched
    /\ \/ (c = "device" \/ (c = "timer" /\ timer = "set")) /\ (user \/ sstatus.sie)
       \/ c \in {"ecall", "fault"} /\ user
    /\ scause' = c
    /\ sepc' = IF user THEN regs.pc ELSE kpc[cur]
    /\ sstatus' = [sie |-> FALSE, spie |-> sstatus.sie, spp |-> ~user]
    /\ user' = FALSE /\ regs' = Nothing
    /\ UNCHANGED <<cur, switched, stvec, intena, state, kint, frames, timer, panicked>>

\* uservec: the registers go to the trapframe of the page table in use
Uservec(c) ==
    /\ stvec = "uservec" /\ Taken(c)
    /\ tf' = IF user THEN [tf EXCEPT ![cur].a0 = regs.a0] ELSE tf
    /\ Goto(cur, "UserTrap")

\* kernelvec: they go to the stack
Kernelvec(c) ==
    /\ stvec = "kernelvec" /\ Taken(c)
    /\ Goto(cur, "KernelTrap")
    /\ UNCHANGED tf

\* what a process does between traps
Execute(p) ==
    /\ panicked = "no" /\ user /\ cur = p
    /\ regs' \in Left
    /\ UNCHANGED <<cur, switched, user, csrs, procVars, stacks, timer, panicked>>

-----------------------------------------------------------------------------
(* DevIntr, which leaves the rest of the hart alone *)

\* Mutant: timer_tick without set_next_timeout
TimerTickOnce == timer' = "spent" /\ UNCHANGED state

TimerTick == timer' = "set" /\ UNCHANGED state

\* consoleintr or disk_intr, which wake those who wait for it, unless Plic_Claim finds
\* nothing because the other hart was there first
DeviceIntr ==
    /\ \E W \in SUBSET {p \in Procs : state[p] = "SLEEPING"} :
        state' = [p \in Procs |-> IF p \in W THEN "RUNNABLE" ELSE state[p]]
    /\ UNCHANGED timer

DevIntr == IF scause = "timer" THEN TimerTick ELSE DeviceIntr

-----------------------------------------------------------------------------
(* Switches *)

\* yield or sleep up to pswitch, with the interrupts that the outermost push_off found
SwitchOut(p, st, next) ==
    /\ state' = [state EXCEPT ![p] = st]
    /\ kint' = [kint EXCEPT ![p] = sstatus.sie]
    /\ intena' = sstatus.sie /\ SetSie(FALSE)
    /\ cur' = Scheduler /\ switched' = TRUE
    /\ Goto(p, next)
    /\ UNCHANGED <<user, regs, sepc, scause, stvec, tf, frames, timer, panicked>>

\* a pop_off that may turn interrupts on again, as it should, or not, as it is written
PopOff(on) == \E sie \in {FALSE, on} : SetSie(sie)

SchedulerLoop ==
    /\ Runs(Scheduler, "loop")
    /\ SetSie(TRUE)
    /\ UNCHANGED <<hart, sepc, scause, stvec, intena, procVars, stacks, timer, panicked>>

SchedulerPick(p) ==
    /\ Runs(Scheduler, "loop") /\ state[p] = "RUNNABLE"
    /\ intena' = sstatus.sie /\ SetSie(FALSE)
    /\ state' = [state EXCEPT ![p] = "RUNNING"]
    /\ cur' = p /\ switched' = TRUE
    /\ UNCHANGED <<user, regs, sepc, scause, stvec, tf, stacks, timer, panicked>>

\* pswitch returns in the scheduler, which releases p->lock
SchedulerBack ==
    /\ panicked = "no" /\ switched /\ cur = Scheduler
    /\ switched' = FALSE /\ PopOff(intena) /\ intena' = FALSE
    /\ UNCHANGED <<cur, user, regs, sepc, scause, stvec, procVars, stacks, timer, panicked>>

\* it returns in prepareSched or, for a new process, in forkret
SwitchedIn(p) ==
    /\ panicked = "no" /\ switched /\ cur = p
    /\ switched' = FALSE
    /\ PopOff(IF kpc[p] = "forkret" THEN intena ELSE kint[p]) /\ intena' = FALSE
    /\ kint' = [kint EXCEPT ![p] = FALSE]
    /\ Goto(p, IF kpc[p] = "forkret" THEN "UserTrapRet" ELSE kpc[p])
    /\ UNCHANGED <<cur, user, regs, sepc, scause, stvec, state, tf, frames, timer, panicked>>

-----------------------------------------------------------------------------
(* A trap from user mode *)

UserTrap(p) ==
    /\ Runs(p, "UserTrap")
    /\ IF sstatus.spp THEN Panic("UserTrap: not from user mode")
       ELSE /\ stvec' = "kernelvec"
            /\ tf' = [tf EXCEPT ![p].pc = IF scause = "ecall" THEN Plus4[sepc] ELSE sepc]
            /\ SetSie(scause = "ecall") /\ sepc' = "none" /\ scause' = "none"
            /\ \/ scause = "ecall" /\ Goto(p, "syscall") /\ UNCHANGED <<state, timer>>
               \/ scause = "fault" /\ (Goto(p, "fault") \/ Goto(p, "exit"))
                  /\ UNCHANGED <<state, timer>>
               \/ scause \in {"timer", "device"} /\ DevIntr
                  /\ Goto(p, IF scause = "timer" THEN "yield" ELSE "UserTrapRet")
            /\ UNCHANGED <<hart, intena, kint, frames, panicked>>

UserYield(p) == Runs(p, "yield") /\ SwitchOut(p, "RUNNABLE", "UserTrapRet")

\* the page fault of a mapped area: vfsread may have to wait for the disk
FaultReads(p) == Runs(p, "fault") /\ SwitchOut(p, "SLEEPING", "fault")
FaultDone(p) ==
    /\ Runs(p, "fault") /\ Goto(p, "UserTrapRet")
    /\ UNCHANGED <<hart, csrs, procVars, kint, frames, timer, panicked>>

\* exit: the last pswitch; the parent's wait frees the slot
Exit(p) == Runs(p, "exit") /\ SwitchOut(p, "ZOMBIE", "exit")

\* Mutant: interrupts stay on
IntrStaysOn(p) ==
    /\ Runs(p, "UserTrapRet") /\ Goto(p, "w_stvec")
    /\ UNCHANGED <<hart, csrs, procVars, kint, frames, timer, panicked>>

\* UserTrapRet's statements
IntrOff(p) ==
    /\ Runs(p, "UserTrapRet") /\ Goto(p, "w_stvec")
    /\ SetSie(FALSE)
    /\ UNCHANGED <<hart, sepc, scause, stvec, intena, procVars, kint, frames, timer, panicked>>

SetStvec(p) ==
    /\ Runs(p, "w_stvec") /\ Goto(p, "w_sepc")
    /\ stvec' = "uservec"
    /\ UNCHANGED <<hart, sstatus, sepc, scause, intena, procVars, kint, frames, timer, panicked>>

SetSepc(p) ==
    /\ Runs(p, "w_sepc") /\ Goto(p, "userret")
    /\ sstatus' = [sstatus EXCEPT !.spp = FALSE, !.spie = TRUE]
    /\ sepc' = tf[p].pc
    /\ UNCHANGED <<hart, scause, stvec, intena, procVars, kint, frames, timer, panicked>>

\* userret and sret
Userret(p) ==
    /\ Runs(p, "userret") /\ Goto(p, "user")
    /\ user' = TRUE /\ regs' = [tf[p] EXCEPT !.pc = sepc]
    /\ sstatus' = [sie |-> sstatus.spie, spie |-> TRUE, spp |-> FALSE]
    /\ sepc' = "none"
    /\ UNCHANGED <<cur, switched, scause, stvec, intena, procVars, kint, frames, timer, panicked>>

-----------------------------------------------------------------------------
(* System calls *)

syscall(p) ==
    /\ Runs(p, "syscall")
    /\ \E known \in Known :
        IF ~known THEN Panic("syscall error")
        ELSE /\ Goto(p, "call")
             /\ UNCHANGED <<hart, csrs, procVars, kint, frames, timer, panicked>>

\* a lock is taken and given back; pop_off, as it is written, leaves interrupts off
CallLocks(p) ==
    /\ Runs(p, "call") /\ sstatus.sie
    /\ SetSie(FALSE)
    /\ UNCHANGED <<hart, sepc, scause, stvec, intena, procVars, stacks, timer, panicked>>

\* read, write: sleeps as often as it takes
CallSleeps(p) == Runs(p, "call") /\ SwitchOut(p, "SLEEPING", "call")

sys_sched_yield(p) == Runs(p, "call") /\ SwitchOut(p, "RUNNABLE", "result")

sys_exit(p) ==
    /\ Runs(p, "call") /\ Goto(p, "exit")
    /\ UNCHANGED <<hart, csrs, procVars, kint, frames, timer, panicked>>

\* what fork and allocproc do to the child's trapframe and context
sys_fork(p, q) ==
    /\ Runs(p, "call") /\ state[q] = "UNUSED"
    /\ state' = [state EXCEPT ![q] = "RUNNABLE"]
    /\ tf' = [tf EXCEPT ![q] = [tf[p] EXCEPT !.a0 = 0]]
    /\ kpc' = [kpc EXCEPT ![p] = "result", ![q] = "forkret"]
    /\ UNCHANGED <<hart, csrs, kint, frames, timer, panicked>>

\* wait gives the trapframe back, and allocproc zeroes the next one
sys_wait(p, q) ==
    /\ Runs(p, "call") /\ state[q] = "ZOMBIE"
    /\ state' = [state EXCEPT ![q] = "UNUSED"]
    /\ tf' = [tf EXCEPT ![q] = Zeroed]
    /\ Goto(p, "result")
    /\ UNCHANGED <<hart, csrs, kint, frames, timer, panicked>>

\* any other call, which ends without a switch
CallDone(p) ==
    /\ Runs(p, "call") /\ Goto(p, "result")
    /\ UNCHANGED <<hart, csrs, procVars, kint, frames, timer, panicked>>

\* a0 = syscalls[num]()
Result(p) ==
    /\ Runs(p, "result") /\ Goto(p, "UserTrapRet")
    /\ \E v \in Values : tf' = [tf EXCEPT ![p].a0 = v]
    /\ UNCHANGED <<hart, csrs, state, kint, frames, timer, panicked>>

-----------------------------------------------------------------------------
(* A trap from the kernel, on the stack of what it interrupts *)

KernelTrap(a) ==
    /\ Runs(a, "KernelTrap")
    /\ IF ~sstatus.spp THEN Panic("kerneltrap : not from supervisor mode")
       ELSE IF sstatus.sie THEN Panic("kerneltrap : interrupts enabled")
       \* curproc() is null in the scheduler: reading its state is a page fault
       ELSE IF scause = "timer" /\ a = Scheduler THEN Panic("kerneltrap")
       ELSE /\ frames' = [frames EXCEPT ![a] = Append(@, [sepc |-> sepc, sstatus |-> sstatus])]
            /\ DevIntr
            /\ Goto(a, IF scause = "timer" THEN "kernel yield" ELSE "kernel w_sepc")
            /\ sepc' = "none" /\ scause' = "none"
            /\ UNCHANGED <<hart, sstatus, stvec, intena, tf, kint, panicked>>

KernelYield(p) ==
    Runs(p, "kernel yield") /\ SwitchOut(p, "RUNNABLE", "kernel w_sepc")

Frame(a) == frames[a][Len(frames[a])]

\* Mutant: sepc is not restored
KernelKeepsSepc(a) ==
    /\ Runs(a, "kernel w_sepc") /\ Goto(a, "kernel sret")
    /\ UNCHANGED <<hart, csrs, procVars, kint, frames, timer, panicked>>

KernelSetSepc(a) ==
    /\ Runs(a, "kernel w_sepc") /\ Goto(a, "kernel sret")
    /\ sepc' = Frame(a).sepc
    /\ UNCHANGED <<hart, sstatus, scause, stvec, intena, procVars, kint, frames, timer, panicked>>

\* w_sstatus, the registers from the stack, sret
KernelReturn(a) ==
    /\ Runs(a, "kernel sret") /\ Goto(a, sepc) /\ sepc' = "none"
    /\ sstatus' = [sie |-> Frame(a).sstatus.spie, spie |-> TRUE, spp |-> FALSE]
    /\ frames' = [frames EXCEPT ![a] = SubSeq(@, 1, Len(@) - 1)]
    /\ UNCHANGED <<hart, scause, stvec, intena, procVars, kint, timer, panicked>>

-----------------------------------------------------------------------------
Calls(p) ==
    \/ syscall(p) \/ CallLocks(p) \/ CallSleeps(p) \/ sys_sched_yield(p) \/ sys_exit(p)
    \/ CallDone(p) \/ Result(p)
    \/ \E q \in Procs : sys_fork(p, q) \/ sys_wait(p, q)
Process(p) ==
    \/ SwitchedIn(p) \/ UserTrap(p) \/ UserYield(p) \/ FaultReads(p) \/ FaultDone(p) \/ Exit(p)
    \/ IntrOff(p) \/ SetStvec(p) \/ SetSepc(p) \/ Userret(p) \/ Calls(p) \/ KernelYield(p)
Handler(a) == KernelTrap(a) \/ KernelSetSepc(a) \/ KernelReturn(a)
Vector(c) == Uservec(c) \/ Kernelvec(c)

Next ==
    \/ \E p \in Procs : Process(p) \/ Execute(p) \/ SchedulerPick(p)
    \/ \E a \in Threads : Handler(a)
    \/ \E c \in {"timer", "device", "ecall", "fault"} : Vector(c)
    \/ SchedulerLoop \/ SchedulerBack

\* The kernel's code goes on; the timer that is set interrupts, although what can be
\* interrupted alternates with what cannot; and the scheduler's rounds reach everyone
\* (Sched).
Fairness ==
    /\ \A p \in Procs : WF_vars(Process(p)) /\ SF_vars(SchedulerPick(p))
    /\ \A a \in Threads : WF_vars(Handler(a))
    /\ WF_vars(SchedulerBack) /\ WF_vars(SchedulerLoop)
    /\ SF_vars(Vector("timer"))

Spec == Init /\ [][Next]_vars
FairSpec == Spec /\ Fairness

-----------------------------------------------------------------------------
\* In the kernel, p is in a system call, perhaps below a KernelTrap
InCall == {"syscall", "call", "result"}
\* or on its way to user mode or from there
InTrap == {"forkret", "UserTrap", "yield", "fault", "exit", "UserTrapRet", "w_stvec", "w_sepc",
           "userret", "user"}
Where(p) ==
    IF frames[p] # <<>> THEN frames[p][1].sepc
    ELSE IF cur = p /\ kpc[p] = "KernelTrap" THEN sepc ELSE kpc[p]

\* trap.cpp, trampoline.S, kernelvec.S: whatever traps, nests and switches happen, a
\* process finds its registers as it left them, behind its ecall, with the result of
\* its own call in a0; a forked one finds its parent's.
Registers(p) ==
    IF state[p] \in {"UNUSED", "ZOMBIE"} THEN Zeroed
    ELSE IF user /\ cur = p THEN regs
    ELSE IF kpc[p] = "UserTrap" THEN [tf[p] EXCEPT !.pc = sepc]
    ELSE tf[p]
Phase(p) ==
    IF state[p] \in {"UNUSED", "ZOMBIE"} THEN "none"
    ELSE IF Where(p) \in InCall THEN "call"
    ELSE IF Where(p) \in InTrap THEN "user" ELSE "lost"
Processors == INSTANCE Processor WITH
    child <- 0, ctx <- [p \in Procs |-> Registers(p)], phase <- [p \in Procs |-> Phase(p)]
ActsAsProcessors == Processors!Spec

\* trap.cpp:33, 124, 127: no trap finds the hart in the wrong mode, at the wrong vector
\* or with interrupts on: not while UserTrapRet sets up the return, nor while a
\* KernelTrap that has been switched out goes on.  (What remains: a tick that finds the
\* scheduler, and a system call that is not in the table.)
TrapsNestRight == panicked \in {"no", "kerneltrap", "syscall error"}

\* timer.cpp:17-27, trap.cpp:84, 140: who can run gets the hart back from any process
\* that does not give it up, in user mode or in the kernel with interrupts on.
HartIsShared ==
    \A p \in Procs : state[p] = "RUNNABLE" ~> state[p] # "RUNNABLE" \/ panicked # "no"
=============================================================================
