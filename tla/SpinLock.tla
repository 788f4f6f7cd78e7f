------------------------------ MODULE SpinLock ------------------------------
(***************************************************************************)
(* The lock layer of the kernel, as written: push_off, pop_off             *)
(* (kern/trap/intr.cpp), acquire, release, holding                         *)
(* (kern/sync/spinlock.cpp) and curproc (kern/proc/proc.cpp), run by       *)
(* several harts over several locks, one memory access per step.           *)
(*                                                                         *)
(* A hart is in client code (pc = "run") or inside one of the calls; an    *)
(* interrupt may be taken wherever SIE is set and its handler is client    *)
(* code of its own, on top of the interrupted frame.  panic() (printf.c)   *)
(* spins forever, so each panic is an absorbing pc value named after its   *)
(* message.                                                                *)
(***************************************************************************)
EXTENDS Integers, FiniteSets

CONSTANTS
    CPU,    \* the harts
    Lock,   \* the spin locks
    NoCpu,  \* the null lock->cpu
    NoLock  \* the lock argument of a hart that is in no call

ASSUME NullAssumption == NoCpu \notin CPU /\ NoLock \notin Lock

VARIABLES
    locked,  \* lock->locked
    owner,   \* lock->cpu
    sie,     \* sstatus.SIE of the hart (intr_get)
    noff,    \* cpu->noff
    intena,  \* cpu->intena
    old,     \* the local `old` of push_off
    pc,      \* where the hart is
    fn,      \* the call it is in
    arg,     \* the lock that call is about
    inIntr,  \* TRUE while the hart runs an interrupt handler
    saved,   \* the frame that handler interrupted
    held     \* history: the locks the hart's client code may rely on

vars == <<locked, owner, sie, noff, intena, old, pc, fn, arg, inIntr, saved, held>>
locks == <<locked, owner, held>>
frame == <<inIntr, saved>>

Panics == {"panic acquire", "panic release", "panic pop_off",
           "panic pop_off - interruptible"}
PCs == {"run", "off", "locked", "cpu", "spin", "setcpu", "clearcpu", "unlock",
        "pop"} \cup Panics
Fns == {"none", "acquire", "release", "curproc"}
Frames == [pc : {"run", "off"}, fn : Fns, arg : Lock \cup {NoLock}, old : BOOLEAN]
NoFrame == [pc |-> "run", fn |-> "none", arg |-> NoLock, old |-> FALSE]

Init ==
    /\ locked = [l \in Lock |-> FALSE]
    /\ owner = [l \in Lock |-> NoCpu]
    /\ sie = [c \in CPU |-> FALSE]
    /\ noff = [c \in CPU |-> 0]
    /\ intena = [c \in CPU |-> FALSE]
    /\ old = [c \in CPU |-> FALSE]
    /\ pc = [c \in CPU |-> "run"]
    /\ fn = [c \in CPU |-> "none"]
    /\ arg = [c \in CPU |-> NoLock]
    /\ inIntr = [c \in CPU |-> FALSE]
    /\ saved = [c \in CPU |-> NoFrame]
    /\ held = [c \in CPU |-> {}]

Goto(c, label) == pc' = [pc EXCEPT ![c] = label]
At(c, label) == pc[c] = label

\* The hart goes to the frame f: its pc and the locals of the call it is in
Resume(c, f) ==
    /\ pc' = [pc EXCEPT ![c] = f.pc]
    /\ fn' = [fn EXCEPT ![c] = f.fn]
    /\ arg' = [arg EXCEPT ![c] = f.arg]
    /\ old' = [old EXCEPT ![c] = f.old]

Return(c) == Resume(c, NoFrame)

-----------------------------------------------------------------------------
(* Calls made by client code: what follows reads `old` and then goes on    *)
(* step by step.  A client may call acquire or release with any lock.      *)

\* acquire(l) and curproc() start with push_off, whose first access is intr_get
EnterPushOff(c, f, l) ==
    /\ At(c, "run")
    /\ Resume(c, [pc |-> "off", fn |-> f, arg |-> l, old |-> sie[c]])
    /\ UNCHANGED <<locks, sie, noff, intena, frame>>

CallAcquire(c, l) == EnterPushOff(c, "acquire", l)

CallCurproc(c) == EnterPushOff(c, "curproc", NoLock)

\* release(l) starts with holding(l)
CallRelease(c, l) ==
    /\ At(c, "run")
    /\ Resume(c, [pc |-> "locked", fn |-> "release", arg |-> l, old |-> FALSE])
    /\ UNCHANGED <<locks, sie, noff, intena, frame>>

\* Mutant: push_off without intr_off
PushOffInterruptible(c) ==
    /\ At(c, "off")
    /\ intena' = IF noff[c] = 0 THEN [intena EXCEPT ![c] = old[c]] ELSE intena
    /\ noff' = [noff EXCEPT ![c] = @ + 1]
    /\ Goto(c, IF fn[c] = "acquire" THEN "locked" ELSE "pop")
    /\ UNCHANGED <<locks, sie, old, fn, arg, frame>>

\* Mutant: push_off reads SIE after it has cleared it
PushOffLateRead(c) ==
    /\ At(c, "off")
    /\ sie' = [sie EXCEPT ![c] = FALSE]
    /\ intena' = IF noff[c] = 0 THEN [intena EXCEPT ![c] = FALSE] ELSE intena
    /\ noff' = [noff EXCEPT ![c] = @ + 1]
    /\ Goto(c, IF fn[c] = "acquire" THEN "locked" ELSE "pop")
    /\ UNCHANGED <<locks, old, fn, arg, frame>>

\* intr_off, the lines of push_off after it, and the branch back to the caller:
\* with SIE clear and cpus[] private to the hart nothing can come in between
PushOff(c) ==
    /\ At(c, "off")
    /\ sie' = [sie EXCEPT ![c] = FALSE]
    /\ intena' = IF noff[c] = 0 THEN [intena EXCEPT ![c] = old[c]] ELSE intena
    /\ noff' = [noff EXCEPT ![c] = @ + 1]
    /\ Goto(c, IF fn[c] = "acquire" THEN "locked" ELSE "pop")
    /\ UNCHANGED <<locks, old, fn, arg, frame>>

\* Mutant: acquire does not look whether it holds the lock already
AfterHoldingUnchecked(c, r) ==
    IF fn[c] = "acquire" THEN "spin"
                         ELSE IF r THEN "clearcpu" ELSE "panic release"

\* What acquire and release do with the result of holding
AfterHolding(c, r) ==
    IF fn[c] = "acquire" THEN IF r THEN "panic acquire" ELSE "spin"
                         ELSE IF r THEN "clearcpu" ELSE "panic release"

\* holding: the left operand of && ...
ReadLocked(c) ==
    /\ At(c, "locked")
    /\ Goto(c, IF locked[arg[c]] THEN "cpu" ELSE AfterHolding(c, FALSE))
    /\ UNCHANGED <<locks, sie, noff, intena, old, fn, arg, frame>>

\* ... and the right one
ReadCpu(c) ==
    /\ At(c, "cpu")
    /\ Goto(c, AfterHolding(c, owner[arg[c]] = c))
    /\ UNCHANGED <<locks, sie, noff, intena, old, fn, arg, frame>>

\* Mutant: the value the test-and-set returns is ignored
TestAndSetOnce(c) ==
    /\ At(c, "spin")
    /\ locked' = [locked EXCEPT ![arg[c]] = TRUE]
    /\ Goto(c, "setcpu")
    /\ UNCHANGED <<owner, held, sie, noff, intena, old, fn, arg, frame>>

\* __sync_lock_test_and_set: the loop goes on while the old value is 1
TestAndSet(c) ==
    /\ At(c, "spin")
    /\ locked' = [locked EXCEPT ![arg[c]] = TRUE]
    /\ Goto(c, IF locked[arg[c]] THEN "spin" ELSE "setcpu")
    /\ UNCHANGED <<owner, held, sie, noff, intena, old, fn, arg, frame>>

SetCpu(c) ==
    /\ At(c, "setcpu")
    /\ owner' = [owner EXCEPT ![arg[c]] = c]
    /\ held' = [held EXCEPT ![c] = @ \cup {arg[c]}]
    /\ Return(c)
    /\ UNCHANGED <<locked, sie, noff, intena, frame>>

ClearCpu(c) ==
    /\ At(c, "clearcpu")
    /\ owner' = [owner EXCEPT ![arg[c]] = NoCpu]
    /\ held' = [held EXCEPT ![c] = @ \ {arg[c]}]
    /\ Goto(c, "unlock")
    /\ UNCHANGED <<locked, sie, noff, intena, old, fn, arg, frame>>

\* __sync_lock_release
Unlock(c) ==
    /\ At(c, "unlock")
    /\ locked' = [locked EXCEPT ![arg[c]] = FALSE]
    /\ Goto(c, "pop")
    /\ UNCHANGED <<owner, held, sie, noff, intena, old, fn, arg, frame>>

\* pop_off, whole: it runs with SIE clear or panics at once
PopOff(c) ==
    /\ At(c, "pop")
    /\ IF sie[c] \/ noff[c] > 1
       THEN /\ Goto(c, IF sie[c] THEN "panic pop_off - interruptible"
                       ELSE "panic pop_off")
            /\ UNCHANGED <<noff, sie, fn, arg, old>>
       ELSE /\ noff' = [noff EXCEPT ![c] = @ - 1]
            /\ sie' = [sie EXCEPT ![c] = noff[c] - 1 = 1 /\ intena[c]]
            /\ Return(c)
    /\ UNCHANGED <<locks, intena, frame>>

\* intr_on, which the scheduler loop, UserTrap and TrapInitHart call outside
\* any critical section
IntrOn(c) ==
    /\ At(c, "run")
    /\ noff[c] = 0 /\ ~inIntr[c]
    /\ sie' = [sie EXCEPT ![c] = TRUE]
    /\ UNCHANGED <<locks, noff, intena, old, pc, fn, arg, frame>>

-----------------------------------------------------------------------------
(* Interrupts: the hardware clears SIE and kernelvec saves the frame; the  *)
(* handler returns with every lock it took released, and sret restores SIE. *)

Interrupt(c) ==
    /\ sie[c] /\ ~inIntr[c] /\ pc[c] \in {"run", "off"}
    /\ saved' = [saved EXCEPT ![c] = [pc |-> pc[c], fn |-> fn[c],
                                      arg |-> arg[c], old |-> old[c]]]
    /\ inIntr' = [inIntr EXCEPT ![c] = TRUE]
    /\ sie' = [sie EXCEPT ![c] = FALSE]
    /\ Return(c)
    /\ UNCHANGED <<locks, noff, intena>>

IntrReturn(c) ==
    /\ inIntr[c] /\ At(c, "run") /\ held[c] = {}
    /\ Resume(c, saved[c])
    /\ saved' = [saved EXCEPT ![c] = NoFrame]
    /\ inIntr' = [inIntr EXCEPT ![c] = FALSE]
    /\ sie' = [sie EXCEPT ![c] = TRUE]
    /\ UNCHANGED <<locks, noff, intena>>

Step(c) ==
    \/ \E l \in Lock : CallAcquire(c, l) \/ CallRelease(c, l)
    \/ CallCurproc(c) \/ PushOff(c) \/ ReadLocked(c) \/ ReadCpu(c)
    \/ TestAndSet(c) \/ SetCpu(c) \/ ClearCpu(c) \/ Unlock(c) \/ PopOff(c)
    \/ IntrOn(c) \/ Interrupt(c) \/ IntrReturn(c)

Next == \E c \in CPU : Step(c)

Spec == Init /\ [][Next]_vars

-----------------------------------------------------------------------------
TypeOK ==
    /\ locked \in [Lock -> BOOLEAN]
    /\ owner \in [Lock -> CPU \cup {NoCpu}]
    /\ sie \in [CPU -> BOOLEAN]
    /\ noff \in [CPU -> Nat]
    /\ intena \in [CPU -> BOOLEAN]
    /\ old \in [CPU -> BOOLEAN]
    /\ pc \in [CPU -> PCs]
    /\ fn \in [CPU -> Fns]
    /\ arg \in [CPU -> Lock \cup {NoLock}]
    /\ inIntr \in [CPU -> BOOLEAN]
    /\ saved \in [CPU -> Frames]
    /\ held \in [CPU -> SUBSET Lock]

\* Two harts are never between acquire and release of one lock, even though
\* lock->cpu is written after the lock is taken and cleared before it is free.
MutualExclusion ==
    \A c, d \in CPU : c # d => held[c] \cap held[d] = {}

\* holding, whose two reads are not atomic, answers exactly: acquire panics
\* only for a lock this hart holds and release only for one it does not, and
\* acquire never spins on a lock that the spinning hart itself, or the code its
\* handler interrupted, has taken (that hart would spin forever).
HoldingExact ==
    \A c \in CPU :
        /\ At(c, "panic acquire") => arg[c] \in held[c]
        /\ At(c, "panic release") => arg[c] \notin held[c]
        /\ At(c, "spin") => arg[c] \notin held[c]

\* A hart inside a critical section, or spinning for one, takes no interrupt, and pop_off
\* never meets an enabled one: noff is the number of push_offs that the hart has open, one
\* for each lock it holds, whatever interrupts came in the middle of push_off.
InterruptsOff ==
    \A c \in CPU :
        /\ held[c] # {} \/ pc[c] \in {"spin", "setcpu", "unlock"} => ~sie[c]
        /\ ~At(c, "panic pop_off - interruptible")
        /\ At(c, "run") => noff[c] = Cardinality(held[c])

\* proc.h:45, "Were interrupts enabled before push_off()?": what the outermost
\* push_off records is the value of SIE it clears, although it read SIE one
\* access earlier and a handler with push_offs of its own may have run since.
IntenaIsBefore ==
    [][\A c \in CPU : noff[c] = 0 /\ noff'[c] = 1 => intena'[c] = sie[c]]_vars

=============================================================================
