------------------------------- MODULE Sched -------------------------------
(***************************************************************************)
(* Process switching: scheduler, sleep, wakeup, prepareSched, yield and    *)
(* the return from a switch (kern/proc/proc.cpp), on hart 0, which runs    *)
(* every process, beside hart 1, which runs only interrupt handlers        *)
(* (kern/init/main.cpp).  Processes wait for one event under one condition *)
(* lock, the pattern of sleepTime, consoleread, pipe and virtio; a process *)
(* on hart 0 or a handler on hart 1 raises it and calls wakeup.            *)
(*                                                                         *)
(* A spin lock is its holder; SpinLock is about how it is taken.           *)
(***************************************************************************)
EXTENDS Integers

CONSTANTS
    NProc,        \* the number of slots of procTable
    Asserts,      \* TRUE: pop_off and prepareSched panic as they are written;
                  \* FALSE: only where the comments around them say they should
    RemoteWakes   \* whether hart 1 takes interrupts whose handler calls wakeup

ASSUME SchedAssumption ==
    NProc \in Nat \ {0} /\ Asserts \in BOOLEAN /\ RemoteWakes \in BOOLEAN

Proc == 1..NProc
Scheduler == 0
Hart1 == NProc + 1
Wakers == Proc \cup {Hart1}

VARIABLES
    state,   \* p->state
    onChan,  \* p->chan is the event's address (0 otherwise)
    plock,   \* holder of p->lock
    lk,      \* holder of the condition lock
    event,   \* the condition the sleepers test: "no", or who raised it
    cur,     \* what hart 0 executes: Scheduler or a process
    noff,    \* noff of hart 0
    spc,     \* scheduler's place in its loop body
    si,      \* scheduler's i
    pc,      \* each process's place in its kernel code, and hart 1's
    wi,      \* wakeup's loop variable, for each caller of wakeup
    panicked \* hart 0 is in panic()

vars == <<state, onChan, plock, lk, event, cur, noff, spc, si, pc, wi, panicked>>

\* where a switched-out process stands: after pswitch in sleep's prepareSched,
\* or after the one in yield's; a new process starts in forkret, which like
\* yield releases p->lock
Parked == {"slept", "yielded"}
PCs == {"user", "test", "sleep", "release", "chan", "state", "sched",
        "schedYield", "reacquire", "scan", "write", "leave"} \cup Parked

Init ==
    /\ state = [p \in Proc |-> "RUNNABLE"]
    /\ onChan = [p \in Proc |-> FALSE]
    /\ plock = [p \in Proc |-> "free"]
    /\ lk = "free"
    /\ event = "no"
    /\ cur = Scheduler
    /\ noff = 0
    /\ spc = "acquire"
    /\ si = 1
    /\ pc = [a \in Wakers |-> IF a \in Proc THEN "yielded" ELSE "user"]
    /\ wi = [a \in Wakers |-> 1]
    /\ panicked = FALSE

Runs(p, label) == ~panicked /\ cur = p /\ pc[p] = label
Goto(a, label) == pc' = [pc EXCEPT ![a] = label]
Panic == panicked' = TRUE /\ UNCHANGED <<state, onChan, plock, lk, event, cur,
                                         noff, spc, si, pc, wi>>

\* pop_off panics when it does not close the outermost push_off
PopPanics(depth) == Asserts /\ depth > 1
switch == <<cur, spc, si>>

-----------------------------------------------------------------------------
(* A process that waits: acquire(lk); while (!event) sleep(chan, lk); ...   *)

Enter(p) ==
    /\ Runs(p, "user") /\ lk = "free"
    /\ lk' = "hart0" /\ noff' = noff + 1
    /\ Goto(p, "test")
    /\ UNCHANGED <<state, onChan, plock, event, switch, wi, panicked>>

\* The loop's test; a process that finds the event consumes it
Test(p) ==
    /\ Runs(p, "test")
    /\ event' = "no"
    /\ Goto(p, IF event = "no" THEN "sleep" ELSE "leave")
    /\ UNCHANGED <<state, onChan, plock, lk, switch, noff, wi, panicked>>

Leave(p) ==
    /\ Runs(p, "leave")
    /\ lk' = "free" /\ noff' = noff - 1
    /\ Goto(p, "user")
    /\ UNCHANGED <<state, onChan, plock, event, switch, wi, panicked>>

\* sleep: curproc(), a push_off/pop_off pair under lk, and acquire(&p->lock)
SleepAcquire(p) ==
    /\ Runs(p, "sleep")
    /\ IF PopPanics(noff + 1) THEN Panic
       ELSE /\ plock[p] = "free"
            /\ plock' = [plock EXCEPT ![p] = "hart0"] /\ noff' = noff + 1
            /\ Goto(p, "release")
            /\ UNCHANGED <<state, onChan, lk, event, switch, wi, panicked>>

\* sleep: release(lock)
SleepRelease(p) ==
    /\ Runs(p, "release")
    /\ IF PopPanics(noff) THEN Panic
       ELSE /\ lk' = "free" /\ noff' = noff - 1
            /\ Goto(p, "chan")
            /\ UNCHANGED <<state, onChan, plock, event, switch, wi, panicked>>

SleepChan(p) ==
    /\ Runs(p, "chan")
    /\ onChan' = [onChan EXCEPT ![p] = TRUE]
    /\ Goto(p, "state")
    /\ UNCHANGED <<state, plock, lk, event, switch, noff, wi, panicked>>

SleepState(p) ==
    /\ Runs(p, "state")
    /\ state' = [state EXCEPT ![p] = "SLEEPING"]
    /\ Goto(p, "sched")
    /\ UNCHANGED <<onChan, plock, lk, event, switch, noff, wi, panicked>>

\* yield: curproc(), acquire(&p->lock), p->state = RUNNABLE
Yield(p) ==
    /\ Runs(p, "user") /\ plock[p] = "free"
    /\ plock' = [plock EXCEPT ![p] = "hart0"] /\ noff' = noff + 1
    /\ state' = [state EXCEPT ![p] = "RUNNABLE"]
    /\ Goto(p, "schedYield")
    /\ UNCHANGED <<onChan, lk, event, switch, wi, panicked>>

\* prepareSched's assertions; the first of them is written without its `!`
SchedPanics(p) ==
    \/ Asserts /\ plock[p] = "hart0"
    \/ ~Asserts /\ plock[p] # "hart0"
    \/ noff # 1
    \/ state[p] = "RUNNING"

\* prepareSched up to its pswitch: hart 0 goes on in scheduler, after its pswitch
PrepareSched(p) ==
    /\ pc[p] \in {"sched", "schedYield"} /\ Runs(p, pc[p])
    /\ IF SchedPanics(p) THEN Panic
       ELSE /\ cur' = Scheduler
            /\ Goto(p, IF pc[p] = "sched" THEN "slept" ELSE "yielded")
            /\ UNCHANGED <<state, onChan, plock, lk, event, spc, si, noff, wi, panicked>>

\* back from pswitch in sleep: p->chan = 0; release(&p->lock)
ReturnToSleep(p) ==
    /\ Runs(p, "slept")
    /\ onChan' = [onChan EXCEPT ![p] = FALSE]
    /\ plock' = [plock EXCEPT ![p] = "free"] /\ noff' = noff - 1
    /\ Goto(p, "reacquire")
    /\ UNCHANGED <<state, lk, event, switch, wi, panicked>>

\* sleep: acquire(lock), and the caller's loop tests again
Reacquire(p) ==
    /\ Runs(p, "reacquire") /\ lk = "free"
    /\ lk' = "hart0" /\ noff' = noff + 1
    /\ Goto(p, "test")
    /\ UNCHANGED <<state, onChan, plock, event, switch, wi, panicked>>

\* back from pswitch in yield, or first run in forkret: release(&p->lock)
ReturnToYield(p) ==
    /\ Runs(p, "yielded")
    /\ plock' = [plock EXCEPT ![p] = "free"] /\ noff' = noff - 1
    /\ Goto(p, "user")
    /\ UNCHANGED <<state, onChan, lk, event, switch, wi, panicked>>

-----------------------------------------------------------------------------
(* scheduler() *)

SchedAcquire ==
    /\ ~panicked /\ cur = Scheduler /\ spc = "acquire" /\ plock[si] = "free"
    /\ plock' = [plock EXCEPT ![si] = "hart0"] /\ noff' = noff + 1
    /\ spc' = "look"
    /\ UNCHANGED <<state, onChan, lk, event, cur, si, pc, wi, panicked>>

\* Mutant: p->lock is given up before the switch to the process
SchedLookUnlocked ==
    /\ ~panicked /\ cur = Scheduler /\ spc = "look"
    /\ spc' = "release"
    /\ IF state[si] = "RUNNABLE"
       THEN /\ state' = [state EXCEPT ![si] = "RUNNING"] /\ cur' = si
            /\ plock' = [plock EXCEPT ![si] = "free"]
       ELSE UNCHANGED <<state, cur, plock>>
    /\ UNCHANGED <<onChan, lk, event, si, noff, pc, wi, panicked>>

\* RUNNABLE: becomes RUNNING and hart 0 goes on where the process is parked;
\* when the process switches back the loop body goes on with the release
SchedLook ==
    /\ ~panicked /\ cur = Scheduler /\ spc = "look"
    /\ spc' = "release"
    /\ IF state[si] = "RUNNABLE"
       THEN state' = [state EXCEPT ![si] = "RUNNING"] /\ cur' = si
       ELSE UNCHANGED <<state, cur>>
    /\ UNCHANGED <<onChan, plock, lk, event, si, noff, pc, wi, panicked>>

\* Mutant: the loop stops one slot short
SchedReleaseShort ==
    /\ ~panicked /\ cur = Scheduler /\ spc = "release"
    /\ plock' = [plock EXCEPT ![si] = "free"] /\ noff' = noff - 1
    /\ si' = (si % (NProc - 1)) + 1
    /\ spc' = "acquire"
    /\ UNCHANGED <<state, onChan, lk, event, cur, pc, wi, panicked>>

\* After the last slot, with at most two processes left, the code waits for an interrupt
\* (wfi) before it begins again: that wait, and what it counts for it, are left out.
SchedRelease ==
    /\ ~panicked /\ cur = Scheduler /\ spc = "release"
    /\ plock' = [plock EXCEPT ![si] = "free"] /\ noff' = noff - 1
    /\ si' = (si % NProc) + 1
    /\ spc' = "acquire"
    /\ UNCHANGED <<state, onChan, lk, event, cur, pc, wi, panicked>>

-----------------------------------------------------------------------------
(* Raising the event: acquire(lk); event; wakeup(chan); release(lk), by a   *)
(* process on hart 0 or a handler on hart 1.                                *)

Holder(a) == IF a = Hart1 THEN "hart1" ELSE "hart0"
CanRun(a) == IF a = Hart1 THEN RemoteWakes ELSE ~panicked /\ cur = a
Count(a, d) == noff' = IF a = Hart1 THEN noff ELSE noff + d

Raise(a) ==
    /\ CanRun(a) /\ pc[a] = "user" /\ lk = "free"
    /\ lk' = Holder(a) /\ Count(a, 1)
    /\ event' = Holder(a)
    /\ wi' = [wi EXCEPT ![a] = 1]
    /\ Goto(a, "scan")
    /\ UNCHANGED <<state, onChan, plock, switch, panicked>>

\* Mutant: wakeup's loop stops one slot short
WakeTestShort(a) ==
    /\ CanRun(a) /\ pc[a] = "scan"
    /\ IF wi[a] >= NProc
       THEN Goto(a, "leave") /\ UNCHANGED wi
       ELSE IF state[wi[a]] = "SLEEPING" /\ onChan[wi[a]]
       THEN Goto(a, "write") /\ UNCHANGED wi
       ELSE wi' = [wi EXCEPT ![a] = @ + 1] /\ UNCHANGED pc
    /\ UNCHANGED <<state, onChan, plock, lk, event, switch, noff, panicked>>

\* wakeup's loop: the test of one process ...
WakeTest(a) ==
    /\ CanRun(a) /\ pc[a] = "scan"
    /\ IF wi[a] > NProc
       THEN Goto(a, "leave") /\ UNCHANGED wi
       ELSE IF state[wi[a]] = "SLEEPING" /\ onChan[wi[a]]
       THEN Goto(a, "write") /\ UNCHANGED wi
       ELSE wi' = [wi EXCEPT ![a] = @ + 1] /\ UNCHANGED pc
    /\ UNCHANGED <<state, onChan, plock, lk, event, switch, noff, panicked>>

\* Mutant: wakeup makes the process RUNNING
WakeWriteRunning(a) ==
    /\ CanRun(a) /\ pc[a] = "write"
    /\ state' = [state EXCEPT ![wi[a]] = "RUNNING"]
    /\ wi' = [wi EXCEPT ![a] = @ + 1]
    /\ Goto(a, "scan")
    /\ UNCHANGED <<onChan, plock, lk, event, switch, noff, panicked>>

\* ... and the assignment to its state, without p->lock
WakeWrite(a) ==
    /\ CanRun(a) /\ pc[a] = "write"
    /\ state' = [state EXCEPT ![wi[a]] = "RUNNABLE"]
    /\ wi' = [wi EXCEPT ![a] = @ + 1]
    /\ Goto(a, "scan")
    /\ UNCHANGED <<onChan, plock, lk, event, switch, noff, panicked>>

\* hart 1's handler releases lk (a process does that in Leave)
HandlerReturn ==
    /\ CanRun(Hart1) /\ pc[Hart1] = "leave"
    /\ lk' = "free"
    /\ Goto(Hart1, "user")
    /\ UNCHANGED <<state, onChan, plock, event, switch, noff, wi, panicked>>

ProcStep(p) ==
    \/ Enter(p) \/ Test(p) \/ Leave(p)
    \/ SleepAcquire(p) \/ SleepRelease(p) \/ SleepChan(p) \/ SleepState(p)
    \/ Yield(p) \/ PrepareSched(p) \/ ReturnToSleep(p) \/ Reacquire(p)
    \/ ReturnToYield(p)
    \/ Raise(p) \/ WakeTest(p) \/ WakeWrite(p)

SchedStep == SchedAcquire \/ SchedLook \/ SchedRelease
Hart0Step == SchedStep \/ \E p \in Proc : ProcStep(p)
Hart1Step == Raise(Hart1) \/ WakeTest(Hart1) \/ WakeWrite(Hart1) \/ HandlerReturn

Next == Hart0Step \/ Hart1Step

\* Hart 0 never stops, and a lock that hart 1's handler takes is free between two
\* interrupts for far longer than a turn of acquire's loop; in user mode the timer
\* interrupt cannot be masked, so a process that keeps going there has to yield.
Fairness ==
    /\ SF_vars(Hart0Step)
    /\ WF_vars(Hart1Step /\ pc[Hart1] # "user")
    /\ \A p \in Proc : SF_vars(Yield(p))

Spec == Init /\ [][Next]_vars
FairSpec == Spec /\ Fairness

-----------------------------------------------------------------------------
TypeOK ==
    /\ state \in [Proc -> {"RUNNABLE", "RUNNING", "SLEEPING"}]
    /\ onChan \in [Proc -> BOOLEAN]
    /\ plock \in [Proc -> {"free", "hart0"}]
    /\ lk \in {"free", "hart0", "hart1"}
    /\ event \in {"no", "hart0", "hart1"}
    /\ cur \in Proc \cup {Scheduler}
    /\ noff \in 0..2
    /\ spc \in {"acquire", "look", "release"}
    /\ si \in Proc
    /\ pc \in [Wakers -> PCs]
    /\ wi \in [Wakers -> 1..NProc + 1]
    /\ panicked \in BOOLEAN

\* The lock a switch hands over: a process that comes back from pswitch, and a
\* scheduler that does, finds the p->lock it is about to release held by its
\* hart, and no process but the one being switched has its lock taken.
LockHandoff ==
    /\ \A p \in Proc : cur = p /\ pc[p] \in Parked => plock[p] = "hart0"
    /\ cur = Scheduler /\ spc # "acquire" => plock[si] = "hart0"
    /\ \A p \in Proc : plock[p] = "hart0" => p = si

\* A process hart 0 is not executing is parked at a pswitch, and once its lock
\* is free its state lets it come back: nobody is left RUNNING on no hart.
NobodyStranded ==
    \A p \in Proc : cur # p =>
        /\ pc[p] \in Parked
        /\ plock[p] = "free" => state[p] \in {"RUNNABLE", "SLEEPING"}

Missed(p) ==
    /\ state[p] = "SLEEPING"
    /\ \A a \in Wakers : pc[a] \in {"scan", "write"} => wi[a] > p

\* sleep:274-299 against wakeup, on one hart: a process is not asleep while the
\* event it waits for is there, raised by a process, and nobody who raised it
\* has still to come to it in wakeup - whatever hart 1's handlers do meanwhile.
NoLostWakeup == \A p \in Proc : ~(event = "hart0" /\ Missed(p))

\* Round robin: a process that is RUNNABLE is run.
RunnableRuns == \A p \in Proc : state[p] = "RUNNABLE" ~> cur = p

=============================================================================
