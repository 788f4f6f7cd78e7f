----------------------------- MODULE TrapsProofs -----------------------------
(***************************************************************************)
(* Proofs about Traps, for any processes and values, and about             *)
(* Interrupts, for any harts: the two sides of a trap.                     *)
(*                                                                         *)
(* Traps.  The invariant says for every line of the kernel's trap path     *)
(* what the hart's registers hold there: who has the hart (PlaceInv), the  *)
(* mode, the vector and SIE (ModeInv), that at most one KernelTrap is      *)
(* active in a thread and knows where to go on (FrameInv), and what sepc   *)
(* and sstatus say until they are read (CsrInv).  Where a process's        *)
(* registers are follows from its line alone (ViewIs), so that each step   *)
(* can be compared with the abstract processor's.                          *)
(*                                                                         *)
(* Interrupts.  stval keeps the firmware's mark until DevIntr has cleared  *)
(* SSIP (MarkInv).                                                         *)
(***************************************************************************)
EXTENDS Traps, Interrupts, TLAPS

\* where a process may be while another thread has the hart: behind a pswitch
Parked == {"forkret", "UserTrapRet", "fault", "exit", "call", "result", "kernel w_sepc"}

\* where the kernel runs with interrupts on, or may
Open(a) ==
    IF a = Scheduler THEN {"loop"} ELSE {"UserTrapRet", "syscall", "call", "result", "exit"}

\* below KernelTrap, with a frame on the stack
Nested == {"kernel yield", "kernel w_sepc", "kernel sret"}

\* where stvec is uservec: from the statement that sets it to the one that undoes it
AtUservec == {"w_sepc", "userret", "user", "UserTrap"}

Labels == Parked \cup Nested \cup AtUservec \cup
    {"loop", "syscall", "yield", "w_stvec", "KernelTrap"}
Bits == [sie : BOOLEAN, spie : BOOLEAN, spp : BOOLEAN]
Saved == [sepc : Labels, sstatus : Bits]

TypeInv ==
    /\ cur \in Threads /\ switched \in BOOLEAN /\ user \in BOOLEAN
    /\ sstatus \in Bits /\ intena \in BOOLEAN
    /\ scause \in {"none", "timer", "device", "ecall", "fault"}
    /\ stvec \in {"uservec", "kernelvec"}
    /\ state \in [Procs -> {"UNUSED", "RUNNABLE", "RUNNING", "SLEEPING", "ZOMBIE"}]
    /\ tf \in [Procs -> Contexts] /\ (user => regs \in Contexts)
    /\ kpc \in [Threads -> Labels] /\ kint \in [Procs -> BOOLEAN]
    /\ frames \in [Threads -> Seq(Saved)]

\* Who does not have the hart is where it gave it up, and has it who is RUNNING.
PlaceInv ==
    /\ kpc[Scheduler] \in {"loop", "KernelTrap", "kernel w_sepc", "kernel sret"}
    /\ cur # Scheduler \/ switched => kpc[Scheduler] = "loop"
    /\ \A p \in Procs :
        /\ kpc[p] # "loop"
        /\ p # cur \/ switched => kpc[p] \in Parked
        /\ p = cur /\ ~switched => kpc[p] # "forkret"
        /\ state[p] = "RUNNING" <=> p = cur
        /\ state[p] \in {"UNUSED", "ZOMBIE"} => kpc[p] \in {"forkret", "exit"}

\* User mode, the vector and SIE, by the line the hart is at
ModeInv ==
    /\ user <=> kpc[cur] = "user"
    /\ stvec = "uservec" <=> kpc[cur] \in AtUservec
    /\ sstatus.sie => ~switched /\ kpc[cur] \in Open(cur) \cup {"user"}
    /\ \A p \in Procs :
        kint[p] => (p # cur \/ switched) /\ kpc[p] \in Open(p) \cup {"forkret"}

\* Nobody has more than one frame, which says where to go on.
FrameInv ==
    \A a \in Threads :
        IF kpc[a] \in Nested THEN Len(frames[a]) = 1 /\ frames[a][1].sepc \in Open(a)
        ELSE frames[a] = <<>>

\* What the hart's registers say between the trap and the code that reads them
CsrInv ==
    /\ kpc[cur] = "UserTrap" => ~sstatus.spp /\ sepc \in DOMAIN Plus4 /\ scause # "none"
    /\ kpc[cur] = "KernelTrap" => sstatus.spp /\ sepc \in Open(cur)
    /\ kpc[cur] = "kernel sret" => sepc = frames[cur][1].sepc
    /\ kpc[cur] = "userret" => sepc = tf[cur].pc

IInv == TypeInv /\ PlaceInv /\ ModeInv /\ FrameInv /\ CsrInv

-----------------------------------------------------------------------------
(* The invariant holds at first and after every step *)

LEMMA InitInv == Init => IInv
<1> SUFFICES ASSUME Init PROVE IInv
  OBVIOUS
<1>1. Zeroed \in Contexts
  BY TrapsAssumption DEF Zeroed, Contexts, Plus4
<1>2. frames \in [Threads -> Seq(Saved)]
  BY DEF Init
<1>3. TypeInv
  BY <1>1, <1>2, TrapsAssumption DEF Init, TypeInv, Threads, Bits, Labels, Parked
<1>4. PlaceInv /\ ModeInv
  BY TrapsAssumption DEF Init, PlaceInv, ModeInv, Threads, Parked, AtUservec, Open
<1>5. FrameInv /\ CsrInv
  BY TrapsAssumption DEF Init, FrameInv, CsrInv, Threads, Nested
<1> QED
  BY <1>3, <1>4, <1>5 DEF IInv

\* where a process goes on between UserTrap and userret
Ahead == {"syscall", "call", "result", "yield", "fault", "exit", "UserTrapRet", "w_stvec",
          "w_sepc", "userret"}

\* A step of the process that has the hart, outside of KernelTrap, that keeps the hart
LEMMA GoesOn ==
    ASSUME IInv, NEW p \in Procs, cur = p, ~switched, kpc[p] \notin Nested,
           NEW to \in Ahead,
           kpc' = [kpc EXCEPT ![p] = to],
           UNCHANGED <<cur, switched, kint, frames>>, user' = FALSE,
           sstatus' \in Bits, sstatus'.sie => to \in Open(p), UNCHANGED intena,
           stvec' \in {"uservec", "kernelvec"}, stvec' = "uservec" <=> to \in AtUservec,
           scause' \in {"none", "timer", "device", "ecall", "fault"},
           state' \in [Procs -> {"UNUSED", "RUNNABLE", "RUNNING", "SLEEPING", "ZOMBIE"}],
           \A q \in Procs :
               /\ state'[q] = "RUNNING" <=> state[q] = "RUNNING"
               /\ state'[q] \in {"UNUSED", "ZOMBIE"} => state[q] \in {"UNUSED", "ZOMBIE"},
           tf' \in [Procs -> Contexts], to = "userret" => sepc' = tf'[p].pc
    PROVE  IInv'
<1>0. p # Scheduler /\ p \in Threads
  BY TrapsAssumption DEF Threads
<1> USE DEF Ahead
<1>1. TypeInv'
  <2>1. to \in Labels
    BY DEF Labels, Parked, AtUservec, Nested
  <2> QED
    BY <1>0, <2>1 DEF IInv, TypeInv
<1>2. PlaceInv'
  BY <1>0 DEF IInv, TypeInv, PlaceInv, Threads
<1>3. ModeInv'
  <2>1. (user <=> kpc[cur] = "user")'
    BY <1>0 DEF IInv, TypeInv
  <2>2. (stvec = "uservec" <=> kpc[cur] \in AtUservec)'
    BY <1>0 DEF IInv, TypeInv
  <2>3. (sstatus.sie => ~switched /\ kpc[cur] \in Open(cur) \cup {"user"})'
    BY <1>0 DEF IInv, TypeInv, Open
  <2>4. ASSUME NEW q \in Procs, kint'[q]
        PROVE  (q # cur' \/ switched') /\ kpc'[q] \in Open(q) \cup {"forkret"}
    BY <1>0, <2>4 DEF IInv, TypeInv, ModeInv
  <2> QED
    BY <2>1, <2>2, <2>3, <2>4 DEF ModeInv, Open
<1>4. FrameInv'
  <2>1. to \notin Nested /\ kpc'[p] = to /\ \A a \in Threads \ {p} : kpc'[a] = kpc[a]
    BY <1>0 DEF IInv, TypeInv, Nested
  <2> QED
    BY <1>0, <2>1 DEF IInv, FrameInv, Open
<1>5. CsrInv'
  BY <1>0 DEF IInv, TypeInv, CsrInv, Nested
<1> QED
  BY <1>1, <1>2, <1>3, <1>4, <1>5 DEF IInv

\* What Runs says of p
LEMMA Running ==
    ASSUME IInv, NEW p \in Procs, NEW label, Runs(p, label)
    PROVE  /\ cur = p /\ ~switched /\ ~user /\ kpc[p] = label /\ panicked = "no"
           /\ p \in Threads /\ p # Scheduler
  BY TrapsAssumption DEF Runs, Goes, Threads

LEMMA DevIntrStates ==
    ASSUME IInv, DevIntr
    PROVE  /\ state' \in [Procs -> {"UNUSED", "RUNNABLE", "RUNNING", "SLEEPING", "ZOMBIE"}]
           /\ \A q \in Procs :
               /\ state'[q] = "RUNNING" <=> state[q] = "RUNNING"
               /\ state'[q] \in {"UNUSED", "ZOMBIE"} <=> state[q] \in {"UNUSED", "ZOMBIE"}
               /\ state'[q] # state[q] => state[q] = "SLEEPING"
<1>1. CASE UNCHANGED state
  BY <1>1 DEF IInv, TypeInv
<1>2. CASE DeviceIntr
  <2>1. PICK W \in SUBSET {p \in Procs : state[p] = "SLEEPING"} :
          state' = [p \in Procs |-> IF p \in W THEN "RUNNABLE" ELSE state[p]]
    BY <1>2 DEF DeviceIntr
  <2>2. \A q \in W : state[q] = "SLEEPING"
    OBVIOUS
  <2> QED
    BY <2>1, <2>2 DEF IInv, TypeInv
<1> QED
  BY <1>1, <1>2 DEF DevIntr, TimerTick

LEMMA SetBit ==
    ASSUME sstatus \in Bits, NEW on \in BOOLEAN, SetSie(on)
    PROVE  sstatus' \in Bits /\ sstatus'.sie = on
  BY DEF SetSie, Bits

LEMMA UserTrapInv == ASSUME IInv, NEW p \in Procs, UserTrap(p) PROVE IInv'
<1>1. /\ cur = p /\ ~switched /\ ~user /\ kpc[p] = "UserTrap"
  BY Running DEF UserTrap
<1>2. ~sstatus.spp /\ sepc \in DOMAIN Plus4
  BY <1>1 DEF IInv, CsrInv
<1>3. PICK to \in {"syscall", "fault", "exit", "yield", "UserTrapRet"} :
        /\ Goto(p, to) /\ (scause = "ecall" => to = "syscall")
        /\ state' = state \/ DevIntr
  BY <1>2, <1>1 DEF UserTrap
<1>4. /\ stvec' = "kernelvec" /\ scause' = "none"
      /\ UNCHANGED <<cur, switched, user, kint, frames, intena>>
      /\ SetSie(scause = "ecall")
      /\ tf' = [tf EXCEPT ![p].pc = IF scause = "ecall" THEN Plus4[sepc] ELSE sepc]
  BY <1>2 DEF UserTrap, hart
<1>5. tf' \in [Procs -> Contexts]
  <2>1. (IF scause = "ecall" THEN Plus4[sepc] ELSE sepc) \in DOMAIN Plus4
    BY <1>2 DEF Plus4
  <2> QED
    BY <1>4, <2>1 DEF IInv, TypeInv, Contexts
<1>6. sstatus' \in Bits /\ (sstatus'.sie => to \in Open(p))
  <2>1. sstatus' \in Bits /\ sstatus'.sie = (scause = "ecall")
    BY <1>4, SetBit DEF IInv, TypeInv
  <2> QED
    BY <1>3, <2>1, TrapsAssumption DEF Open
<1>7. /\ state' \in [Procs -> {"UNUSED", "RUNNABLE", "RUNNING", "SLEEPING", "ZOMBIE"}]
      /\ \A q \in Procs :
          /\ state'[q] = "RUNNING" <=> state[q] = "RUNNING"
          /\ state'[q] \in {"UNUSED", "ZOMBIE"} => state[q] \in {"UNUSED", "ZOMBIE"}
  BY <1>3, DevIntrStates DEF IInv, TypeInv
<1>8. /\ kpc' = [kpc EXCEPT ![p] = to] /\ to \in Ahead /\ to # "userret"
      /\ kpc[p] \notin Nested /\ to \notin AtUservec
  BY <1>1, <1>3 DEF Goto, Ahead, Nested, AtUservec
<1>9. /\ user' = FALSE /\ stvec' \in {"uservec", "kernelvec"}
      /\ stvec' = "uservec" <=> to \in AtUservec
      /\ scause' \in {"none", "timer", "device", "ecall", "fault"}
  BY <1>1, <1>4, <1>8
<1> QED
  BY <1>1, <1>4, <1>5, <1>6, <1>7, <1>8, <1>9, GoesOn

\* The same, where no other process is concerned
LEMMA GoesOnAlone ==
    ASSUME IInv, NEW p \in Procs, NEW from \in Ahead, NEW to \in Ahead,
           Runs(p, from), Goto(p, to), UNCHANGED <<hart, intena, kint, frames, scause, state>>,
           tf' \in [Procs -> Contexts],
           sstatus' \in Bits, sstatus'.sie => to \in Open(p),
           stvec' = IF to \in AtUservec THEN "uservec" ELSE "kernelvec",
           to = "userret" => sepc' = tf'[p].pc
    PROVE  IInv'
<1>1. cur = p /\ ~switched /\ ~user /\ kpc[p] = from
  BY Running
<1>2. UNCHANGED <<cur, switched, kint, frames, intena>> /\ user' = FALSE
  BY <1>1 DEF hart
<1>3. kpc[p] \notin Nested /\ kpc' = [kpc EXCEPT ![p] = to]
  BY <1>1 DEF Goto, Ahead, Nested
<1>4. stvec' \in {"uservec", "kernelvec"} /\ (stvec' = "uservec" <=> to \in AtUservec)
  OBVIOUS
<1>5. /\ scause' \in {"none", "timer", "device", "ecall", "fault"}
      /\ state' \in [Procs -> {"UNUSED", "RUNNABLE", "RUNNING", "SLEEPING", "ZOMBIE"}]
  BY DEF IInv, TypeInv
<1> QED
  BY <1>1, <1>2, <1>3, <1>4, <1>5, GoesOn

\* SIE and the vector at a line that runs
LEMMA ModeAt ==
    ASSUME IInv, NEW p \in Procs, NEW from \in Ahead, Runs(p, from)
    PROVE  /\ sstatus \in Bits /\ (sstatus.sie => from \in Open(p))
           /\ stvec = IF from \in AtUservec THEN "uservec" ELSE "kernelvec"
           /\ tf \in [Procs -> Contexts]
<1>1. cur = p /\ kpc[p] = from /\ from # "user"
  BY Running DEF Ahead
<1> QED
  BY <1>1 DEF IInv, TypeInv, ModeInv

\* The lines of UserTrapRet
LEMMA LinesInv ==
    ASSUME IInv, NEW p \in Procs,
           FaultDone(p) \/ IntrOff(p) \/ SetStvec(p) \/ SetSepc(p)
    PROVE  IInv'
<1> USE DEF Ahead, AtUservec
<1>1. CASE FaultDone(p)
  <2>1. /\ Runs(p, "fault") /\ Goto(p, "UserTrapRet")
        /\ UNCHANGED <<hart, sstatus, sepc, scause, stvec, intena, state, tf, kint, frames>>
    BY <1>1 DEF FaultDone, csrs, procVars
  <2>2. stvec = "kernelvec" /\ ~sstatus.sie /\ sstatus \in Bits /\ tf \in [Procs -> Contexts]
    BY <2>1, ModeAt, TrapsAssumption DEF Open
  <2> QED
    BY <2>1, <2>2, GoesOnAlone
<1>2. CASE IntrOff(p)
  <2>1. /\ Runs(p, "UserTrapRet") /\ Goto(p, "w_stvec") /\ SetSie(FALSE)
        /\ UNCHANGED <<hart, sepc, scause, stvec, intena, state, tf, kint, frames>>
    BY <1>2 DEF IntrOff, procVars
  <2>2. stvec = "kernelvec" /\ sstatus \in Bits /\ tf \in [Procs -> Contexts]
    BY <2>1, ModeAt
  <2>3. sstatus' \in Bits /\ ~sstatus'.sie
    BY <2>1, <2>2, SetBit
  <2> QED
    BY <2>1, <2>2, <2>3, GoesOnAlone
<1>3. CASE SetStvec(p)
  <2>1. /\ Runs(p, "w_stvec") /\ Goto(p, "w_sepc") /\ stvec' = "uservec"
        /\ UNCHANGED <<hart, sstatus, sepc, scause, intena, state, tf, kint, frames>>
    BY <1>3 DEF SetStvec, procVars
  <2>2. ~sstatus.sie /\ sstatus \in Bits /\ tf \in [Procs -> Contexts]
    BY <2>1, ModeAt, TrapsAssumption DEF Open
  <2> QED
    BY <2>1, <2>2, GoesOnAlone
<1>4. CASE SetSepc(p)
  <2>1. /\ Runs(p, "w_sepc") /\ Goto(p, "userret") /\ sepc' = tf[p].pc
        /\ sstatus' = [sstatus EXCEPT !.spp = FALSE, !.spie = TRUE]
        /\ UNCHANGED <<hart, scause, stvec, intena, state, tf, kint, frames>>
    BY <1>4 DEF SetSepc, procVars
  <2>2. /\ stvec = "uservec" /\ ~sstatus.sie /\ sstatus \in Bits /\ tf \in [Procs -> Contexts]
    BY <2>1, ModeAt, TrapsAssumption DEF Open
  <2>3. sstatus' \in Bits /\ ~sstatus'.sie
    BY <2>1, <2>2 DEF Bits
  <2> QED
    BY <2>1, <2>2, <2>3, GoesOnAlone
<1> QED
  BY <1>1, <1>2, <1>3, <1>4

\* What a system call does without a switch and without another process
LEMMA CallsInv ==
    ASSUME IInv, NEW p \in Procs,
           (syscall(p) /\ panicked' = "no") \/ CallLocks(p) \/ sys_exit(p) \/ CallDone(p)
           \/ Result(p)
    PROVE  IInv'
<1> USE DEF Ahead, AtUservec
<1>1. ASSUME NEW from \in {"syscall", "call", "result"},
             NEW to \in {"call", "result", "exit", "UserTrapRet"},
             Runs(p, from), Goto(p, to),
             UNCHANGED <<hart, intena, kint, frames, scause, state>>,
             tf' \in [Procs -> Contexts], sstatus' \in Bits, UNCHANGED stvec
      PROVE  IInv'
  <2>1. stvec = "kernelvec" /\ to \in Open(p)
    BY <1>1, ModeAt, TrapsAssumption DEF Open
  <2> QED
    BY <1>1, <2>1, GoesOnAlone
<1>2. ASSUME NEW from \in {"syscall", "call", "result"}, Runs(p, from)
      PROVE  sstatus \in Bits /\ tf \in [Procs -> Contexts] /\ kpc[p] = from /\ p \in Threads
  BY <1>2, ModeAt, Running
<1>3. CASE syscall(p) /\ panicked' = "no"
  <2>1. /\ Runs(p, "syscall") /\ Goto(p, "call")
        /\ UNCHANGED <<hart, csrs, procVars, kint, frames>>
    BY <1>3 DEF syscall, Panic
  <2> QED
    BY <1>1, <1>2, <2>1 DEF csrs, procVars
<1>4. CASE CallLocks(p)
  <2>1. /\ Runs(p, "call") /\ SetSie(FALSE)
        /\ UNCHANGED <<hart, sepc, scause, stvec, intena, state, tf, kpc, kint, frames>>
    BY <1>4 DEF CallLocks, procVars, stacks
  <2>2. sstatus' \in Bits
    BY <1>2, <2>1, SetBit
  <2>3. Goto(p, "call")
    BY <1>2, <2>1 DEF Goto, IInv, TypeInv
  <2> QED
    BY <1>1, <1>2, <2>1, <2>2, <2>3
<1>5. CASE sys_exit(p)
  <2>1. Runs(p, "call") /\ Goto(p, "exit") /\ UNCHANGED <<hart, csrs, procVars, kint, frames>>
    BY <1>5 DEF sys_exit
  <2> QED
    BY <1>1, <1>2, <2>1 DEF csrs, procVars
<1>6. CASE CallDone(p)
  <2>1. /\ Runs(p, "call") /\ Goto(p, "result")
        /\ UNCHANGED <<hart, csrs, procVars, kint, frames>>
    BY <1>6 DEF CallDone
  <2> QED
    BY <1>1, <1>2, <2>1 DEF csrs, procVars
<1>7. CASE Result(p)
  <2>1. /\ Runs(p, "result") /\ Goto(p, "UserTrapRet")
        /\ UNCHANGED <<hart, csrs, state, kint, frames>>
    BY <1>7 DEF Result
  <2>2. tf' \in [Procs -> Contexts]
    BY <1>7 DEF Result, IInv, TypeInv, Contexts
  <2> QED
    BY <1>1, <1>2, <2>1, <2>2 DEF csrs
<1> QED
  BY <1>3, <1>4, <1>5, <1>6, <1>7

\* yield, sleep and exit: the hart goes to the scheduler.
LEMMA SwitchOutInv ==
    ASSUME IInv, NEW p \in Procs, cur = p, ~switched, ~user, kpc[p] \notin AtUservec,
           NEW st \in {"RUNNABLE", "SLEEPING", "ZOMBIE"}, NEW next \in Parked,
           SwitchOut(p, st, next), next # "forkret", st = "ZOMBIE" => next = "exit",
           kpc[p] \in Nested <=> next \in Nested, sstatus.sie => next \in Open(p)
    PROVE  IInv'
<1>0. p # Scheduler /\ p \in Threads /\ Scheduler \in Threads
  BY TrapsAssumption DEF Threads
<1>1. /\ state' = [state EXCEPT ![p] = st] /\ kint' = [kint EXCEPT ![p] = sstatus.sie]
      /\ intena' = sstatus.sie /\ SetSie(FALSE) /\ cur' = Scheduler /\ switched' = TRUE
      /\ kpc' = [kpc EXCEPT ![p] = next]
      /\ UNCHANGED <<user, regs, sepc, scause, stvec, tf, frames>>
  BY DEF SwitchOut, Goto
<1>2. sstatus \in Bits /\ sstatus.sie \in BOOLEAN /\ sstatus' \in Bits /\ ~sstatus'.sie
  BY <1>1, SetBit DEF IInv, TypeInv, Bits
<1>3. kpc[Scheduler] = "loop" /\ kpc' [Scheduler] = "loop" /\ kpc'[p] = next
      /\ \A a \in Threads \ {p} : kpc'[a] = kpc[a]
  BY <1>0, <1>1 DEF IInv, TypeInv, PlaceInv
<1>4. TypeInv'
  <2>1. next \in Labels
    BY DEF Labels
  <2> QED
    BY <1>0, <1>1, <1>2, <2>1 DEF IInv, TypeInv
<1>5. PlaceInv'
  <2>1. state'[p] = st /\ \A q \in Procs \ {p} : state'[q] = state[q]
    BY <1>1 DEF IInv, TypeInv
  <2>2. \A q \in Procs : q \in Threads /\ q # Scheduler
    BY TrapsAssumption DEF Threads
  <2> QED
    BY <1>0, <1>1, <1>3, <2>1, <2>2 DEF IInv, PlaceInv, Parked
<1>6. ModeInv'
  <2>1. \A q \in Procs : q \in Threads /\ q # Scheduler
    BY TrapsAssumption DEF Threads
  <2>2. kint'[p] = sstatus.sie /\ \A q \in Procs \ {p} : kint'[q] = kint[q]
    BY <1>1 DEF IInv, TypeInv
  <2>3. stvec = "kernelvec"
    BY DEF IInv, TypeInv, ModeInv
  <2> QED
    BY <1>0, <1>1, <1>2, <1>3, <2>1, <2>2, <2>3 DEF IInv, ModeInv, AtUservec, Open
<1>7. FrameInv'
  BY <1>0, <1>1, <1>3 DEF IInv, FrameInv, Nested, Open
<1>8. CsrInv'
  BY <1>1, <1>3 DEF CsrInv
<1> QED
  BY <1>4, <1>5, <1>6, <1>7, <1>8 DEF IInv

\* Interrupts are off, but for the lines of Open.
LEMMA SieAt ==
    ASSUME IInv, NEW p \in Procs, NEW label, Runs(p, label), label \notin Open(p)
    PROVE  ~sstatus.sie
  BY Running DEF IInv, ModeInv

LEMMA SwitchesInv ==
    ASSUME IInv, NEW p \in Procs,
           UserYield(p) \/ FaultReads(p) \/ Exit(p) \/ CallSleeps(p) \/ sys_sched_yield(p)
           \/ KernelYield(p)
    PROVE  IInv'
<1>0. p # Scheduler
  BY TrapsAssumption
<1>1. ASSUME NEW st \in {"RUNNABLE", "SLEEPING", "ZOMBIE"}, NEW next \in Parked,
             NEW label \in {"yield", "fault", "exit", "call", "kernel yield"},
             Runs(p, label), SwitchOut(p, st, next), next # "forkret",
             st = "ZOMBIE" => next = "exit", label = "kernel yield" <=> next = "kernel w_sepc",
             label \in Open(p) => next \in Open(p)
      PROVE  IInv'
  <2>1. cur = p /\ ~switched /\ ~user /\ kpc[p] = label
    BY <1>1, Running
  <2>2. sstatus.sie => next \in Open(p)
    BY <1>1, SieAt
  <2>3. kpc[p] \notin AtUservec /\ (kpc[p] \in Nested <=> next \in Nested)
    BY <1>1, <2>1 DEF AtUservec, Nested, Parked
  <2> QED
    BY <1>1, <2>1, <2>2, <2>3, SwitchOutInv
<1>2. CASE UserYield(p)
  BY <1>0, <1>1, <1>2 DEF UserYield, Parked, Open
<1>3. CASE FaultReads(p)
  BY <1>0, <1>1, <1>3 DEF FaultReads, Parked, Open
<1>4. CASE Exit(p)
  BY <1>0, <1>1, <1>4 DEF Exit, Parked, Open
<1>5. CASE CallSleeps(p)
  BY <1>0, <1>1, <1>5 DEF CallSleeps, Parked, Open
<1>6. CASE sys_sched_yield(p)
  BY <1>0, <1>1, <1>6 DEF sys_sched_yield, Parked, Open
<1>7. CASE KernelYield(p)
  BY <1>0, <1>1, <1>7 DEF KernelYield, Parked, Open
<1> QED
  BY <1>2, <1>3, <1>4, <1>5, <1>6, <1>7

\* fork and wait, which touch a process that does not run
LEMMA OthersInv ==
    ASSUME IInv, NEW p \in Procs, NEW q \in Procs, sys_fork(p, q) \/ sys_wait(p, q)
    PROVE  IInv'
<1>0. /\ p # Scheduler /\ q # Scheduler /\ p \in Threads /\ q \in Threads
      /\ \A r \in Procs : r \in Threads /\ r # Scheduler
  BY TrapsAssumption DEF Threads
<1>1. /\ Runs(p, "call") /\ state[q] \in {"UNUSED", "ZOMBIE"}
      /\ UNCHANGED <<hart, csrs, kint, frames>>
  BY DEF sys_fork, sys_wait
<1>2. /\ cur = p /\ ~switched /\ ~user /\ kpc[p] = "call" /\ state[p] = "RUNNING" /\ q # p
  BY <1>1, Running DEF IInv, PlaceInv
<1>3. /\ kpc[q] \in {"forkret", "exit"} /\ frames[q] = <<>>
  <2>1. kpc[q] \in {"forkret", "exit"}
    BY <1>1 DEF IInv, PlaceInv
  <2> QED
    BY <1>0, <2>1 DEF IInv, FrameInv, Nested
<1>4. /\ kpc'[p] = "result" /\ kpc'[q] \in {kpc[q], "forkret"}
      /\ \A a \in Threads \ {p, q} : kpc'[a] = kpc[a]
      /\ kpc' \in [Threads -> Labels]
  <2>1. CASE sys_fork(p, q)
    BY <1>0, <1>2, <2>1 DEF sys_fork, IInv, TypeInv, Labels, Parked
  <2>2. CASE sys_wait(p, q)
    BY <1>0, <1>2, <2>2 DEF sys_wait, Goto, IInv, TypeInv, Labels, Parked
  <2> QED
    BY <2>1, <2>2
<1>5. /\ state' \in [Procs -> {"UNUSED", "RUNNABLE", "RUNNING", "SLEEPING", "ZOMBIE"}]
      /\ \A r \in Procs \ {q} : state'[r] = state[r]
      /\ state'[q] \in {"UNUSED", "RUNNABLE"}
  BY DEF sys_fork, sys_wait, IInv, TypeInv
<1>6. tf' \in [Procs -> Contexts]
  <2>1. CASE sys_fork(p, q)
    <3>1. [tf[p] EXCEPT !.a0 = 0] \in Contexts
      BY TrapsAssumption DEF IInv, TypeInv, Contexts
    <3> QED
      BY <2>1, <3>1 DEF sys_fork, IInv, TypeInv
  <2>2. CASE sys_wait(p, q)
    <3>1. Zeroed \in Contexts
      BY TrapsAssumption DEF Zeroed, Contexts, Plus4
    <3> QED
      BY <2>2, <3>1 DEF sys_wait, IInv, TypeInv
  <2> QED
    BY <2>1, <2>2
<1>7. TypeInv'
  BY <1>1, <1>2, <1>4, <1>5, <1>6 DEF IInv, TypeInv, hart, csrs
<1>8. PlaceInv'
  <2>1. kpc'[Scheduler] = kpc[Scheduler]
    BY <1>0, <1>4 DEF Threads
  <2>2. kpc'[q] \in {"forkret", "exit"}
    BY <1>3, <1>4
  <2>3. \A r \in Procs \ {p, q} : kpc'[r] = kpc[r]
    BY <1>0, <1>4
  <2> QED
    BY <1>0, <1>1, <1>2, <1>4, <1>5, <2>1, <2>2, <2>3 DEF IInv, PlaceInv, hart, Parked
<1>9. ModeInv'
  <2>1. stvec = "kernelvec"
    BY <1>2 DEF IInv, TypeInv, ModeInv, AtUservec
  <2>2. \A r \in Procs :
          kint'[r] => (r # cur' \/ switched') /\ kpc'[r] \in Open(r) \cup {"forkret"}
    <3> SUFFICES ASSUME NEW r \in Procs, kint[r]
                 PROVE  r # p /\ kpc'[r] \in Open(r) \cup {"forkret"}
      BY <1>1, <1>2 DEF hart
    <3>1. r # p /\ kpc[r] \in Open(r) \cup {"forkret"}
      BY <1>2 DEF IInv, ModeInv
    <3> QED
      BY <1>0, <1>4, <3>1
  <2>3. sstatus'.sie => ~switched' /\ kpc'[cur'] \in Open(cur') \cup {"user"}
    BY <1>0, <1>1, <1>2, <1>4 DEF hart, Open
  <2>4. ~user' /\ kpc'[cur'] = "result" /\ stvec' = "kernelvec"
    BY <1>1, <1>2, <1>4, <2>1 DEF hart, csrs
  <2> QED
    BY <2>2, <2>3, <2>4 DEF ModeInv, AtUservec
<1>10. FrameInv'
  BY <1>0, <1>1, <1>2, <1>3, <1>4 DEF IInv, FrameInv, Nested
<1>11. CsrInv'
  BY <1>1, <1>2, <1>4 DEF CsrInv, hart
<1> QED
  BY <1>7, <1>8, <1>9, <1>10, <1>11 DEF IInv

\* Where the hart may take a trap: in user mode, or at a line of Open on kernelvec
LEMMA WhereTaken ==
    ASSUME IInv, NEW c, Taken(c)
    PROVE  /\ ~switched /\ cur \in Threads
           /\ \/ user /\ cur \in Procs /\ kpc[cur] = "user" /\ stvec = "uservec"
              \/ ~user /\ kpc[cur] \in Open(cur) /\ stvec = "kernelvec"
<1>1. CASE user
  BY <1>1 DEF Taken, IInv, TypeInv, PlaceInv, ModeInv, Threads, AtUservec
<1>2. CASE ~user
  <2>1. sstatus.sie
    BY <1>2 DEF Taken
  <2> QED
    BY <1>2, <2>1 DEF Taken, IInv, TypeInv, ModeInv, AtUservec, Open
<1> QED
  BY <1>1, <1>2

LEMMA VectorInv ==
    ASSUME IInv, NEW c \in {"timer", "device", "ecall", "fault"}, Vector(c) PROVE IInv'
<1>0. \A r \in Procs : r \in Threads /\ r # Scheduler
  BY TrapsAssumption DEF Threads
<1>1. /\ Taken(c) /\ ~switched /\ cur \in Threads
      /\ \/ user /\ cur \in Procs /\ kpc[cur] = "user" /\ stvec = "uservec"
         \/ ~user /\ kpc[cur] \in Open(cur) /\ stvec = "kernelvec"
  BY WhereTaken DEF Vector, Uservec, Kernelvec
<1>2. /\ scause' = c /\ sepc' = IF user THEN regs.pc ELSE kpc[cur]
      /\ sstatus' = [sie |-> FALSE, spie |-> sstatus.sie, spp |-> ~user]
      /\ user' = FALSE
      /\ UNCHANGED <<cur, switched, stvec, intena, state, kint, frames>>
  BY <1>1 DEF Taken
<1>3. sstatus' \in Bits /\ ~sstatus'.sie /\ (sstatus'.spp <=> ~user)
  <2>1. PICK spie \in BOOLEAN, spp \in BOOLEAN :
          (spp <=> ~user) /\ sstatus' = [sie |-> FALSE, spie |-> spie, spp |-> spp]
    <3>1. sstatus.sie \in BOOLEAN /\ (~user) \in BOOLEAN
      BY DEF IInv, TypeInv, Bits
    <3> QED
      BY <1>2, <3>1
  <2> QED
    BY <2>1 DEF Bits
<1>4. CASE user
  <2>1. /\ kpc' = [kpc EXCEPT ![cur] = "UserTrap"] /\ tf' = [tf EXCEPT ![cur].a0 = regs.a0]
        /\ cur \in Procs /\ kpc[cur] = "user" /\ stvec = "uservec"
    BY <1>1, <1>4 DEF Vector, Uservec, Kernelvec, Goto
  <2>2. regs \in Contexts /\ tf' \in [Procs -> Contexts]
    BY <1>4, <2>1 DEF IInv, TypeInv, Contexts
  <2>3. /\ kpc' \in [Threads -> Labels] /\ kpc'[cur] = "UserTrap"
        /\ \A a \in Threads \ {cur} : kpc'[a] = kpc[a]
    BY <1>1, <2>1 DEF IInv, TypeInv, Labels, AtUservec
  <2>4. TypeInv'
    BY <1>2, <1>3, <2>2, <2>3 DEF IInv, TypeInv
  <2>5. PlaceInv'
    BY <1>0, <1>1, <1>2, <2>1, <2>3 DEF IInv, PlaceInv, Threads, Parked
  <2>6. ModeInv'
    BY <1>0, <1>1, <1>2, <1>3, <2>1, <2>3 DEF IInv, ModeInv, AtUservec
  <2>7. FrameInv'
    BY <1>2, <2>1, <2>3 DEF IInv, FrameInv, Nested
  <2>8. CsrInv'
    BY <1>2, <1>3, <1>4, <2>2, <2>3 DEF CsrInv, Contexts
  <2> QED
    BY <2>4, <2>5, <2>6, <2>7, <2>8 DEF IInv
<1>5. CASE ~user
  <2>1. /\ kpc' = [kpc EXCEPT ![cur] = "KernelTrap"] /\ tf' = tf
        /\ kpc[cur] \in Open(cur) /\ stvec = "kernelvec"
    BY <1>1, <1>5 DEF Vector, Uservec, Kernelvec, Goto
  <2>2. /\ kpc' \in [Threads -> Labels] /\ kpc'[cur] = "KernelTrap"
        /\ \A a \in Threads \ {cur} : kpc'[a] = kpc[a]
    BY <1>1, <2>1 DEF IInv, TypeInv, Labels
  <2>3. TypeInv'
    BY <1>2, <1>3, <2>1, <2>2 DEF IInv, TypeInv
  <2>4. PlaceInv'
    <3>1. state[cur] \notin {"UNUSED", "ZOMBIE"} \/ cur = Scheduler
      BY <1>1 DEF IInv, PlaceInv, Threads
    <3> QED
      BY <1>0, <1>1, <1>2, <2>1, <2>2, <3>1 DEF IInv, PlaceInv, Threads, Parked
  <2>5. ModeInv'
    BY <1>0, <1>1, <1>2, <1>3, <2>1, <2>2 DEF IInv, ModeInv, AtUservec
  <2>6. FrameInv'
    BY <1>2, <2>1, <2>2 DEF IInv, FrameInv, Nested, Open
  <2>7. CsrInv'
    BY <1>2, <1>3, <1>5, <2>1, <2>2 DEF CsrInv
  <2> QED
    BY <2>3, <2>4, <2>5, <2>6, <2>7 DEF IInv
<1> QED
  BY <1>4, <1>5

\* In user mode, and the way there
LEMMA UserInv == ASSUME IInv, NEW p \in Procs, Execute(p) \/ Userret(p) PROVE IInv'
<1>0. p \in Threads /\ \A r \in Procs : r \in Threads /\ r # Scheduler
  BY TrapsAssumption DEF Threads
<1>1. CASE Execute(p)
  <2>1. regs' \in Contexts
    BY <1>1 DEF Execute, Left
  <2>2. UNCHANGED <<cur, switched, user, sstatus, sepc, scause, stvec, intena, state, tf,
                    kpc, kint, frames>>
    BY <1>1 DEF Execute, csrs, procVars, stacks
  <2>3. TypeInv' /\ PlaceInv'
    BY <2>1, <2>2 DEF IInv, TypeInv, PlaceInv
  <2>4. ModeInv' /\ FrameInv' /\ CsrInv'
    BY <2>2 DEF IInv, ModeInv, FrameInv, CsrInv
  <2> QED
    BY <2>3, <2>4 DEF IInv
<1>2. CASE Userret(p)
  <2>1. /\ cur = p /\ ~switched /\ ~user /\ kpc[p] = "userret"
        /\ kpc' = [kpc EXCEPT ![p] = "user"] /\ user' = TRUE
        /\ regs' = [tf[p] EXCEPT !.pc = sepc]
        /\ sstatus' = [sie |-> sstatus.spie, spie |-> TRUE, spp |-> FALSE]
        /\ UNCHANGED <<cur, switched, scause, stvec, intena, state, tf, kint, frames>>
    BY <1>2, Running DEF Userret, Goto, procVars
  <2>2. sepc = tf[p].pc /\ regs' \in Contexts
    BY <2>1 DEF IInv, TypeInv, CsrInv, Contexts
  <2>3. /\ kpc' \in [Threads -> Labels] /\ kpc'[p] = "user"
        /\ \A a \in Threads \ {p} : kpc'[a] = kpc[a]
    BY <1>0, <2>1 DEF IInv, TypeInv, Labels, AtUservec
  <2>4. sstatus' \in Bits
    BY <2>1 DEF IInv, TypeInv, Bits
  <2>5. TypeInv'
    BY <2>1, <2>2, <2>3, <2>4 DEF IInv, TypeInv
  <2>6. PlaceInv'
    BY <1>0, <2>1, <2>3 DEF IInv, PlaceInv, Threads, Parked
  <2>7. ModeInv'
    BY <1>0, <2>1, <2>3 DEF IInv, ModeInv, AtUservec
  <2>8. FrameInv'
    BY <2>1, <2>3 DEF IInv, FrameInv, Nested
  <2>9. CsrInv'
    BY <2>1, <2>3 DEF CsrInv
  <2> QED
    BY <2>5, <2>6, <2>7, <2>8, <2>9 DEF IInv
<1> QED
  BY <1>1, <1>2

\* The scheduler's loop and its switches
LEMMA SchedulerInv ==
    ASSUME IInv, SchedulerLoop \/ SchedulerBack \/ \E p \in Procs : SchedulerPick(p)
    PROVE  IInv'
<1>0. /\ Scheduler \in Threads /\ Scheduler \notin Procs
      /\ \A r \in Procs : r \in Threads /\ r # Scheduler
  BY TrapsAssumption DEF Threads
<1>1. sstatus \in Bits
  BY DEF IInv, TypeInv
<1>2. CASE SchedulerLoop
  <2>1. /\ cur = Scheduler /\ ~switched /\ ~user /\ kpc[Scheduler] = "loop"
        /\ SetSie(TRUE)
        /\ UNCHANGED <<cur, switched, user, regs, sepc, scause, stvec, intena, state, tf,
                       kpc, kint, frames>>
    BY <1>2 DEF SchedulerLoop, Runs, Goes, hart, procVars, stacks
  <2>2. sstatus' \in Bits
    BY <1>1, <2>1, SetBit
  <2>3. TypeInv' /\ PlaceInv' /\ FrameInv'
    BY <2>1, <2>2 DEF IInv, TypeInv, PlaceInv, FrameInv
  <2>4. ModeInv' /\ CsrInv'
    BY <1>0, <2>1 DEF IInv, ModeInv, CsrInv, Open
  <2> QED
    BY <2>3, <2>4 DEF IInv
<1>3. CASE SchedulerBack
  <2>1. /\ cur = Scheduler /\ switched /\ switched' = FALSE /\ intena' = FALSE
        /\ PopOff(intena)
        /\ UNCHANGED <<cur, user, regs, sepc, scause, stvec, state, tf, kpc, kint, frames>>
    BY <1>3 DEF SchedulerBack, procVars, stacks
  <2>2. sstatus' \in Bits
    <3>1. PICK sie \in {FALSE, intena} : SetSie(sie)
      BY <2>1 DEF PopOff
    <3> QED
      BY <1>1, <3>1, SetBit DEF IInv, TypeInv
  <2>3. kpc[Scheduler] = "loop"
    BY <2>1 DEF IInv, PlaceInv
  <2>4. TypeInv' /\ FrameInv'
    BY <2>1, <2>2 DEF IInv, TypeInv, FrameInv
  <2>5. PlaceInv'
    BY <1>0, <2>1 DEF IInv, PlaceInv
  <2>6. ModeInv' /\ CsrInv'
    BY <1>0, <2>1, <2>3 DEF IInv, ModeInv, CsrInv, Open
  <2> QED
    BY <2>4, <2>5, <2>6 DEF IInv
<1>4. ASSUME NEW p \in Procs, SchedulerPick(p) PROVE IInv'
  <2>1. /\ cur = Scheduler /\ ~switched /\ ~user /\ kpc[Scheduler] = "loop"
        /\ state[p] = "RUNNABLE" /\ intena' = sstatus.sie /\ SetSie(FALSE)
        /\ state' = [state EXCEPT ![p] = "RUNNING"] /\ cur' = p /\ switched' = TRUE
        /\ UNCHANGED <<user, regs, sepc, scause, stvec, tf, kpc, kint, frames>>
    BY <1>4 DEF SchedulerPick, Runs, Goes, stacks
  <2>2. sstatus' \in Bits /\ ~sstatus'.sie /\ intena' \in BOOLEAN
    BY <1>1, <2>1, SetBit DEF Bits
  <2>3. kpc[p] \in Parked /\ p \in Threads
    BY <1>0, <2>1 DEF IInv, PlaceInv
  <2>4. TypeInv'
    BY <2>1, <2>2, <2>3 DEF IInv, TypeInv
  <2>5. PlaceInv'
    <3>1. state'[p] = "RUNNING" /\ \A q \in Procs \ {p} : state'[q] = state[q]
      BY <2>1 DEF IInv, TypeInv
    <3>2. \A q \in Procs : kpc[q] \in Parked /\ state[q] # "RUNNING"
      BY <1>0, <2>1 DEF IInv, PlaceInv
    <3> QED
      BY <1>0, <2>1, <3>1, <3>2 DEF IInv, PlaceInv
  <2>6. ModeInv'
    <3>1. /\ stvec = "kernelvec"
          /\ \A q \in Procs : kint[q] => kpc[q] \in Open(q) \cup {"forkret"}
      BY <1>0, <2>1 DEF IInv, TypeInv, ModeInv, AtUservec
    <3>2. kpc[p] \notin AtUservec /\ kpc[p] # "user"
      BY <2>3 DEF Parked, AtUservec
    <3> QED
      BY <2>1, <2>2, <3>1, <3>2 DEF ModeInv
  <2>7. FrameInv'
    BY <2>1 DEF IInv, FrameInv
  <2>8. CsrInv'
    BY <2>1, <2>3 DEF CsrInv, Parked
  <2> QED
    BY <2>4, <2>5, <2>6, <2>7, <2>8 DEF IInv
<1> QED
  BY <1>2, <1>3, <1>4

\* prepareSched and forkret go on, with the interrupts that this process had.
LEMMA SwitchedInInv == ASSUME IInv, NEW p \in Procs, SwitchedIn(p) PROVE IInv'
<1>0. p \in Threads /\ \A r \in Procs : r \in Threads /\ r # Scheduler
  BY TrapsAssumption DEF Threads
<1>1. PICK to : to = IF kpc[p] = "forkret" THEN "UserTrapRet" ELSE kpc[p]
  OBVIOUS
<1>2. /\ cur = p /\ switched /\ switched' = FALSE /\ intena' = FALSE
      /\ PopOff(IF kpc[p] = "forkret" THEN intena ELSE kint[p])
      /\ kint' = [kint EXCEPT ![p] = FALSE] /\ kpc' = [kpc EXCEPT ![p] = to]
      /\ UNCHANGED <<cur, user, regs, sepc, scause, stvec, state, tf, frames>>
  BY <1>1 DEF SwitchedIn, Goto
<1>3. kpc[p] \in Parked /\ to \in Parked \ {"forkret"} /\ (to \in Nested <=> kpc[p] \in Nested)
  BY <1>0, <1>1, <1>2 DEF IInv, PlaceInv, Parked, Nested
<1>4. sstatus' \in Bits /\ (sstatus'.sie => to \in Open(p))
  <2>1. PICK on \in BOOLEAN :
          /\ PopOff(on)
          /\ on = IF kpc[p] = "forkret" THEN intena ELSE kint[p]
    BY <1>2 DEF IInv, TypeInv
  <2>2. sstatus' \in Bits /\ (sstatus'.sie => on)
    BY <2>1, SetBit DEF PopOff, IInv, TypeInv
  <2>3. on => to \in Open(p)
    BY <1>0, <1>1, <2>1 DEF IInv, ModeInv, Open
  <2> QED
    BY <2>2, <2>3
<1>5. /\ kpc' \in [Threads -> Labels] /\ kpc'[p] = to
      /\ \A a \in Threads \ {p} : kpc'[a] = kpc[a]
  BY <1>0, <1>2, <1>3 DEF IInv, TypeInv, Labels
<1>6. TypeInv'
  BY <1>2, <1>4, <1>5 DEF IInv, TypeInv
<1>7. PlaceInv'
  <2>1. state[p] = "RUNNING"
    BY <1>2 DEF IInv, PlaceInv
  <2> QED
    BY <1>0, <1>2, <1>3, <1>5, <2>1 DEF IInv, PlaceInv, Threads, Parked
<1>8. ModeInv'
  <2>1. ~user /\ stvec = "kernelvec" /\ to \notin AtUservec
    BY <1>2, <1>3 DEF IInv, TypeInv, ModeInv, Parked, AtUservec
  <2>2. ~kint'[p] /\ \A q \in Procs \ {p} : kint'[q] = kint[q]
    BY <1>2 DEF IInv, TypeInv
  <2> QED
    BY <1>0, <1>2, <1>4, <1>5, <2>1, <2>2 DEF IInv, ModeInv, AtUservec
<1>9. FrameInv'
  BY <1>2, <1>3, <1>5 DEF IInv, FrameInv
<1>10. CsrInv'
  BY <1>2, <1>3, <1>5 DEF CsrInv, Parked
<1> QED
  BY <1>6, <1>7, <1>8, <1>9, <1>10 DEF IInv

LEMMA OneFrame ==
    ASSUME NEW S, NEW f \in S
    PROVE  <<f>> \in Seq(S) /\ Append(<<>>, f) = <<f>> /\ Len(<<f>>) = 1 /\ <<f>>[1] = f
  OBVIOUS

\* KernelTrap's frame is the only one, and it is given back.
LEMMA KernelTrapInv ==
    ASSUME IInv, NEW a \in Threads, KernelTrap(a), panicked' = panicked PROVE IInv'
<1>0. \A r \in Procs : r \in Threads /\ r # Scheduler
  BY TrapsAssumption DEF Threads
<1>1. /\ cur = a /\ ~switched /\ ~user /\ kpc[a] = "KernelTrap" /\ panicked = "no"
  BY DEF KernelTrap, Runs, Goes
<1>2. sstatus \in Bits /\ sstatus.spp /\ ~sstatus.sie /\ sepc \in Open(a) /\ frames[a] = <<>>
      /\ stvec = "kernelvec"
  <2>1. ~sstatus.sie /\ stvec = "kernelvec"
    BY <1>1 DEF IInv, TypeInv, ModeInv, Open, AtUservec
  <2>2. frames[a] = <<>>
    BY <1>1 DEF IInv, FrameInv, Nested
  <2> QED
    BY <1>1, <2>1, <2>2 DEF IInv, TypeInv, CsrInv
<1>3. /\ ~(scause = "timer" /\ a = Scheduler)
      /\ frames' = [frames EXCEPT ![a] = Append(@, [sepc |-> sepc, sstatus |-> sstatus])]
      /\ DevIntr /\ sepc' = "none" /\ scause' = "none"
      /\ Goto(a, IF scause = "timer" THEN "kernel yield" ELSE "kernel w_sepc")
      /\ UNCHANGED <<cur, switched, user, regs, sstatus, stvec, intena, tf, kint>>
  BY <1>1, <1>2 DEF KernelTrap, Panic, hart
<1>4. PICK to \in {"kernel yield", "kernel w_sepc"} :
        kpc' = [kpc EXCEPT ![a] = to] /\ (a = Scheduler => to = "kernel w_sepc")
  BY <1>3 DEF Goto
<1>5. /\ kpc' \in [Threads -> Labels] /\ kpc'[a] = to
      /\ \A b \in Threads \ {a} : kpc'[b] = kpc[b]
  BY <1>4 DEF IInv, TypeInv, Labels, Nested
<1>6. /\ state' \in [Procs -> {"UNUSED", "RUNNABLE", "RUNNING", "SLEEPING", "ZOMBIE"}]
      /\ \A q \in Procs :
          /\ state'[q] = "RUNNING" <=> state[q] = "RUNNING"
          /\ state'[q] \in {"UNUSED", "ZOMBIE"} <=> state[q] \in {"UNUSED", "ZOMBIE"}
  BY <1>3, DevIntrStates
<1>7. PICK f \in Saved : f = [sepc |-> sepc, sstatus |-> sstatus]
  <2>1. sepc \in Labels
    BY <1>2 DEF Open, Labels, Parked
  <2> QED
    BY <1>2, <2>1 DEF Saved
<1>71. f.sepc = sepc
  BY <1>7
<1>72. /\ frames'[a] = <<f>> /\ \A b \in Threads \ {a} : frames'[b] = frames[b]
       /\ frames' \in [Threads -> Seq(Saved)]
  <2>1. Append(frames[a], f) = <<f>>
    BY <1>2, OneFrame
  <2>2. frames' = [frames EXCEPT ![a] = <<f>>]
    BY <1>3, <1>7, <2>1
  <2>3. <<f>> \in Seq(Saved)
    BY OneFrame
  <2> QED
    BY <2>2, <2>3 DEF IInv, TypeInv
<1>8. TypeInv'
  BY <1>3, <1>5, <1>6, <1>72 DEF IInv, TypeInv
<1>9. PlaceInv'
  <2>1. a = Scheduler \/ state[a] = "RUNNING"
    BY <1>1 DEF IInv, PlaceInv, Threads
  <2> QED
    BY <1>0, <1>1, <1>3, <1>4, <1>5, <1>6, <2>1 DEF IInv, PlaceInv, Threads, Parked
<1>10. ModeInv'
  BY <1>0, <1>1, <1>2, <1>3, <1>5 DEF IInv, ModeInv, AtUservec
<1>11. FrameInv'
  <2>1. \A b \in Threads \ {a} : IF kpc'[b] \in Nested
                                 THEN Len(frames'[b]) = 1 /\ frames'[b][1].sepc \in Open(b)
                                 ELSE frames'[b] = <<>>
    BY <1>5, <1>72 DEF IInv, FrameInv
  <2>2. kpc'[a] \in Nested /\ Len(frames'[a]) = 1 /\ frames'[a][1].sepc \in Open(a)
    BY <1>2, <1>5, <1>71, <1>72, OneFrame DEF Nested
  <2> QED
    BY <2>1, <2>2 DEF FrameInv
<1>12. CsrInv'
  BY <1>1, <1>3, <1>5 DEF CsrInv
<1> QED
  BY <1>8, <1>9, <1>10, <1>11, <1>12 DEF IInv

LEMMA KernelSetSepcInv == ASSUME IInv, NEW a \in Threads, KernelSetSepc(a) PROVE IInv'
<1>0. \A r \in Procs : r \in Threads /\ r # Scheduler
  BY TrapsAssumption DEF Threads
<1>1. /\ cur = a /\ ~switched /\ ~user /\ kpc[a] = "kernel w_sepc"
      /\ kpc' = [kpc EXCEPT ![a] = "kernel sret"] /\ sepc' = frames[a][Len(frames[a])].sepc
      /\ UNCHANGED <<cur, switched, user, regs, sstatus, scause, stvec, intena, state, tf,
                     kint, frames>>
  BY DEF KernelSetSepc, Runs, Goes, Goto, Frame, hart, procVars
<1>2. Len(frames[a]) = 1 /\ ~sstatus.sie /\ stvec = "kernelvec"
  <2>1. kpc[a] \in Nested /\ kpc[a] \notin AtUservec
    BY <1>1 DEF Nested, AtUservec
  <2> QED
    BY <1>1, <2>1 DEF IInv, TypeInv, ModeInv, FrameInv, Open
<1>3. /\ kpc' \in [Threads -> Labels] /\ kpc'[a] = "kernel sret"
      /\ \A b \in Threads \ {a} : kpc'[b] = kpc[b]
  BY <1>1 DEF IInv, TypeInv, Labels, Nested
<1>4. TypeInv'
  BY <1>1, <1>3 DEF IInv, TypeInv
<1>5. PlaceInv'
  <2>1. a = Scheduler \/ state[a] = "RUNNING"
    BY <1>1 DEF IInv, PlaceInv, Threads
  <2> QED
    BY <1>0, <1>1, <1>3, <2>1 DEF IInv, PlaceInv, Threads, Parked
<1>6. ModeInv'
  BY <1>0, <1>1, <1>2, <1>3 DEF IInv, ModeInv, AtUservec
<1>7. FrameInv'
  BY <1>1, <1>3 DEF IInv, FrameInv, Nested
<1>8. CsrInv'
  BY <1>1, <1>2, <1>3 DEF CsrInv
<1> QED
  BY <1>4, <1>5, <1>6, <1>7, <1>8 DEF IInv

LEMMA KernelReturnInv == ASSUME IInv, NEW a \in Threads, KernelReturn(a) PROVE IInv'
<1>0. \A r \in Procs : r \in Threads /\ r # Scheduler
  BY TrapsAssumption DEF Threads
<1>1. /\ cur = a /\ ~switched /\ ~user /\ kpc[a] = "kernel sret"
      /\ kpc' = [kpc EXCEPT ![a] = sepc] /\ sepc' = "none"
      /\ sstatus' = [sie |-> Frame(a).sstatus.spie, spie |-> TRUE, spp |-> FALSE]
      /\ frames' = [frames EXCEPT ![a] = SubSeq(@, 1, Len(@) - 1)]
      /\ UNCHANGED <<cur, switched, user, regs, scause, stvec, intena, state, tf, kint>>
  BY DEF KernelReturn, Runs, Goes, Goto, hart, procVars
<1>2. /\ frames[a] \in Seq(Saved) /\ Len(frames[a]) = 1
      /\ sepc = frames[a][1].sepc /\ sepc \in Open(a)
  BY <1>1 DEF IInv, TypeInv, FrameInv, CsrInv, Nested
<1>3. sstatus' \in Bits
  <2>1. frames[a][1] \in Saved
    BY <1>2
  <2> QED
    BY <1>1, <1>2, <2>1 DEF Frame, Saved, Bits
<1>4. /\ frames'[a] = <<>> /\ \A b \in Threads \ {a} : frames'[b] = frames[b]
      /\ frames' \in [Threads -> Seq(Saved)]
  <2>1. SubSeq(frames[a], 1, Len(frames[a]) - 1) = <<>>
    BY <1>2
  <2>2. <<>> \in Seq(Saved)
    OBVIOUS
  <2> QED
    BY <1>1, <2>1, <2>2 DEF IInv, TypeInv
<1>5. /\ kpc' \in [Threads -> Labels] /\ kpc'[a] = sepc
      /\ \A b \in Threads \ {a} : kpc'[b] = kpc[b]
  BY <1>1, <1>2 DEF IInv, TypeInv, Labels, Parked, Open
<1>6. TypeInv'
  BY <1>1, <1>3, <1>4, <1>5 DEF IInv, TypeInv
<1>7. PlaceInv'
  <2>1. a = Scheduler \/ state[a] = "RUNNING"
    BY <1>1 DEF IInv, PlaceInv, Threads
  <2> QED
    BY <1>0, <1>1, <1>2, <1>5, <2>1 DEF IInv, PlaceInv, Threads, Parked, Open
<1>8. ModeInv'
  <2>1. stvec = "kernelvec" /\ sepc \notin AtUservec /\ sepc # "user"
    BY <1>1, <1>2 DEF IInv, TypeInv, ModeInv, AtUservec, Open
  <2> QED
    BY <1>0, <1>1, <1>2, <1>5, <2>1 DEF IInv, ModeInv
<1>9. FrameInv'
  <2>1. sepc \notin Nested
    BY <1>2 DEF Nested, Open
  <2> QED
    BY <1>4, <1>5, <2>1 DEF IInv, FrameInv
<1>10. CsrInv'
  BY <1>1, <1>2, <1>5 DEF CsrInv, Open
<1> QED
  BY <1>6, <1>7, <1>8, <1>9, <1>10 DEF IInv

\* A step that changes no more than timer and panicked
LEMMA IdleInv ==
    ASSUME IInv, UNCHANGED <<hart, csrs, procVars, stacks>> PROVE IInv'
<1>1. UNCHANGED <<cur, switched, user, regs, sstatus, sepc, scause, stvec, intena, state, tf,
                  kpc, kint, frames>>
  BY DEF hart, csrs, procVars, stacks
<1>2. TypeInv'
  BY <1>1 DEF IInv, TypeInv
<1>3. PlaceInv'
  BY <1>1 DEF IInv, PlaceInv
<1>4. ModeInv'
  BY <1>1 DEF IInv, ModeInv
<1>5. FrameInv'
  BY <1>1 DEF IInv, FrameInv
<1>6. CsrInv'
  BY <1>1 DEF IInv, CsrInv
<1> QED
  BY <1>2, <1>3, <1>4, <1>5, <1>6 DEF IInv

\* The only panics: a tick that finds the scheduler, and an unknown system call
LEMMA Panics ==
    ASSUME IInv, Next
    PROVE  \/ panicked' = panicked
           \/ Panic("kerneltrap") \/ Panic("syscall error")
<1>1. ASSUME NEW p \in Procs, UserTrap(p) PROVE panicked' = panicked
  <2>1. ~sstatus.spp
    BY <1>1, Running DEF UserTrap, IInv, CsrInv
  <2> QED
    BY <1>1, <2>1 DEF UserTrap
<1>2. ASSUME NEW a \in Threads, KernelTrap(a) PROVE panicked' = panicked \/ Panic("kerneltrap")
  <2>1. sstatus.spp /\ ~sstatus.sie
    BY <1>2 DEF KernelTrap, Runs, Goes, IInv, ModeInv, CsrInv, Open
  <2> QED
    BY <1>2, <2>1 DEF KernelTrap
<1>3. ASSUME NEW p \in Procs, syscall(p) PROVE panicked' = panicked \/ Panic("syscall error")
  BY <1>3 DEF syscall
<1>4. ASSUME NEW p \in Procs, UserYield(p) \/ FaultReads(p) \/ Exit(p) \/ CallSleeps(p)
               \/ sys_sched_yield(p) \/ KernelYield(p)
      PROVE  panicked' = panicked
  BY <1>4 DEF UserYield, FaultReads, Exit, CallSleeps, sys_sched_yield, KernelYield, SwitchOut
<1>5. ASSUME NEW p \in Procs, CallLocks(p) \/ sys_exit(p) \/ CallDone(p) \/ Result(p)
               \/ \E q \in Procs : sys_fork(p, q) \/ sys_wait(p, q)
      PROVE  panicked' = panicked
  BY <1>5 DEF CallLocks, sys_exit, CallDone, Result, sys_fork, sys_wait
<1>6. ASSUME NEW p \in Procs, SwitchedIn(p) \/ FaultDone(p) \/ IntrOff(p) \/ SetStvec(p)
               \/ SetSepc(p) \/ Userret(p) \/ Execute(p) \/ SchedulerPick(p)
      PROVE  panicked' = panicked
  BY <1>6 DEF SwitchedIn, FaultDone, IntrOff, SetStvec, SetSepc, Userret, Execute,
     SchedulerPick
<1>7. ASSUME NEW a \in Threads, KernelSetSepc(a) \/ KernelReturn(a) PROVE panicked' = panicked
  BY <1>7 DEF KernelSetSepc, KernelReturn
<1>8. ASSUME NEW c, Vector(c) PROVE panicked' = panicked
  BY <1>8 DEF Vector, Uservec, Kernelvec, Taken
<1>9. ASSUME SchedulerLoop \/ SchedulerBack PROVE panicked' = panicked
  BY <1>9 DEF SchedulerLoop, SchedulerBack
<1> QED
  BY <1>1, <1>2, <1>3, <1>4, <1>5, <1>6, <1>7, <1>8, <1>9 DEF Next, Process, Calls, Handler

LEMMA NextInv == ASSUME IInv, [Next]_vars PROVE IInv'
<1>1. CASE UNCHANGED vars
  BY <1>1, IdleInv DEF vars
<1>2. CASE Panic("kerneltrap") \/ Panic("syscall error")
  BY <1>2, IdleInv DEF Panic
<1>3. CASE Next /\ panicked' = panicked
  <2>1. ASSUME NEW p \in Procs, Calls(p) PROVE IInv'
    <3>1. panicked = "no" \/ ~syscall(p)
      BY DEF syscall, Runs, Goes
    <3> QED
      BY <1>3, <2>1, <3>1, CallsInv, SwitchesInv, OthersInv DEF Calls
  <2>2. ASSUME NEW p \in Procs, Process(p) PROVE IInv'
    BY <2>1, <2>2, SwitchedInInv, UserTrapInv, SwitchesInv, LinesInv, UserInv DEF Process
  <2>3. ASSUME NEW a \in Threads, Handler(a) PROVE IInv'
    BY <1>3, <2>3, KernelTrapInv, KernelSetSepcInv, KernelReturnInv DEF Handler
  <2> QED
    BY <1>3, <2>2, <2>3, UserInv, SchedulerInv, VectorInv DEF Next
<1> QED
  BY <1>1, <1>2, <1>3, Panics

LEMMA Invariance == Spec => []IInv
  BY InitInv, NextInv, PTL DEF Spec

-----------------------------------------------------------------------------
\* For any processes: UserTrap's and KernelTrap's checks of SPP and SIE (trap.cpp:33, 124,
\* 127) never fail, whatever is interrupted on the way in and out.  What the kernel panics of
\* here is a tick in the scheduler or a system call that is not in the table.
THEOREM TrapsAreNested == Spec => []TrapsNestRight
<1>1. Init => TrapsNestRight
  BY DEF Init, TrapsNestRight
<1>2. TrapsNestRight /\ IInv /\ [Next]_vars => TrapsNestRight'
  <2> SUFFICES ASSUME TrapsNestRight, IInv, [Next]_vars PROVE TrapsNestRight'
    OBVIOUS
  <2>1. CASE UNCHANGED vars
    BY <2>1 DEF vars, TrapsNestRight
  <2>2. CASE Next
    BY <2>2, Panics DEF TrapsNestRight, Panic
  <2> QED
    BY <2>1, <2>2
<1> QED
  BY <1>1, <1>2, Invariance, PTL DEF Spec

-----------------------------------------------------------------------------
(* The refinement of Processor *)

Ctx == [p \in Procs |-> Registers(p)]
Phs == [p \in Procs |-> Phase(p)]
Gone == {"UNUSED", "ZOMBIE"}

\* What a process sees, by the line it is at
ViewFacts(q) ==
    /\ Where(q) = IF kpc[q] \in Nested THEN frames[q][1].sepc
                  ELSE IF kpc[q] = "KernelTrap" THEN sepc ELSE kpc[q]
    /\ Phase(q) = IF state[q] \in Gone THEN "none"
                  ELSE IF Where(q) \in InCall THEN "call" ELSE "user"
    /\ Registers(q) = IF state[q] \in Gone THEN Zeroed
                      ELSE IF kpc[q] = "user" THEN regs
                      ELSE IF kpc[q] = "UserTrap" THEN [tf[q] EXCEPT !.pc = sepc]
                      ELSE tf[q]

LEMMA ViewIs == IInv => \A q \in Procs : ViewFacts(q)
<1> SUFFICES ASSUME IInv, NEW q \in Procs PROVE ViewFacts(q)
  OBVIOUS
<1>0. q \in Threads /\ q # Scheduler
  BY TrapsAssumption DEF Threads
<1>1. /\ kpc[q] \in {"user", "UserTrap", "KernelTrap"} => q = cur
      /\ kpc[q] = "user" <=> user /\ cur = q
  BY DEF IInv, PlaceInv, ModeInv, Parked
<1>2. Where(q) = IF kpc[q] \in Nested THEN frames[q][1].sepc
                 ELSE IF kpc[q] = "KernelTrap" THEN sepc ELSE kpc[q]
  <2>1. CASE kpc[q] \in Nested
    <3>1. frames[q] # <<>>
      BY <1>0, <2>1 DEF IInv, FrameInv
    <3> QED
      BY <2>1, <3>1 DEF Where
  <2>2. CASE kpc[q] \notin Nested
    <3>1. frames[q] = <<>>
      BY <1>0, <2>2 DEF IInv, FrameInv
    <3> QED
      BY <1>1, <2>2, <3>1 DEF Where
  <2> QED
    BY <2>1, <2>2
<1>3. Where(q) \in InCall \cup InTrap
  <2>1. kpc[q] \in Nested => frames[q][1].sepc \in Open(q)
    BY <1>0 DEF IInv, FrameInv
  <2>2. kpc[q] = "KernelTrap" => sepc \in Open(q)
    BY <1>1 DEF IInv, CsrInv
  <2>3. kpc[q] \in Labels /\ kpc[q] # "loop"
    BY <1>0 DEF IInv, TypeInv, PlaceInv
  <2> QED
    BY <1>0, <1>2, <2>1, <2>2, <2>3
       DEF Open, InCall, InTrap, Labels, Parked, Nested, AtUservec
<1> QED
  BY <1>1, <1>2, <1>3 DEF ViewFacts, Phase, Registers, Gone

LEMMA ViewIsNext == IInv' => \A q \in Procs : ViewFacts(q)'
<1>1. (IInv => \A q \in Procs : ViewFacts(q))'
  BY ViewIs, PTL
<1> QED
  BY <1>1

\* A step does not show to a process that it leaves alone.
LEMMA OthersSame ==
    ASSUME IInv, IInv', NEW q \in Procs, q # cur, kpc'[q] = kpc[q], tf'[q] = tf[q],
           frames'[q] = frames[q], state'[q] \in Gone <=> state[q] \in Gone
    PROVE  Registers(q)' = Registers(q) /\ Phase(q)' = Phase(q)
<1>1. kpc[q] \in Parked
  BY DEF IInv, PlaceInv
<1>2. kpc[q] \notin {"user", "UserTrap", "KernelTrap"}
  BY <1>1 DEF Parked
<1>3. ViewFacts(q) /\ ViewFacts(q)'
  BY ViewIs, ViewIsNext
<1> QED
  BY <1>2, <1>3 DEF ViewFacts

LEMMA AllSame ==
    ASSUME \A q \in Procs : Registers(q)' = Registers(q) /\ Phase(q)' = Phase(q)
    PROVE  UNCHANGED <<Ctx, Phs>>
  BY DEF Ctx, Phs

LEMMA OneView ==
    ASSUME NEW p \in Procs,
           \A q \in Procs \ {p} : Registers(q)' = Registers(q) /\ Phase(q)' = Phase(q)
    PROVE  /\ Ctx' = [Ctx EXCEPT ![p] = Registers(p)'] /\ Ctx[p] = Registers(p)
           /\ Phs' = [Phs EXCEPT ![p] = Phase(p)'] /\ Phs[p] = Phase(p)
  BY DEF Ctx, Phs

\* A step of p alone, whose registers are still in its trapframe, or not yet
LEMMA Unseen ==
    ASSUME IInv, IInv', NEW p \in Procs, cur \in {p, Scheduler}, UNCHANGED frames,
           \A q \in Procs \ {p} : kpc'[q] = kpc[q],
           \A q \in Procs : state'[q] \in Gone <=> state[q] \in Gone, UNCHANGED tf,
           kpc[p] \notin {"user", "UserTrap", "KernelTrap"},
           kpc'[p] \notin {"user", "UserTrap", "KernelTrap"},
           kpc[p] \in Nested <=> kpc'[p] \in Nested,
           kpc[p] \in InCall <=> kpc'[p] \in InCall
    PROVE  UNCHANGED <<Ctx, Phs>>
<1>1. \A q \in Procs \ {p} : q # cur
  BY TrapsAssumption
<1>2. \A q \in Procs \ {p} : Registers(q)' = Registers(q) /\ Phase(q)' = Phase(q)
  BY <1>1, OthersSame
<1>3. ViewFacts(p) /\ ViewFacts(p)'
  BY ViewIs, ViewIsNext
<1>4. Where(p)' \in InCall <=> Where(p) \in InCall
  BY <1>3 DEF ViewFacts
<1>5. Registers(p)' = Registers(p) /\ Phase(p)' = Phase(p)
  BY <1>3, <1>4 DEF ViewFacts
<1> QED
  BY <1>2, <1>5, AllSame

\* A step that leaves what the processes see where it is
LEMMA NothingSeen ==
    ASSUME UNCHANGED <<hart, sepc, procVars, kpc, frames>> \/
           UNCHANGED <<cur, user, regs, sepc, procVars, kpc, frames>>
    PROVE  UNCHANGED <<Ctx, Phs>>
<1>1. UNCHANGED <<cur, user, regs, sepc, state, tf, kpc, frames>>
  BY DEF hart, procVars
<1>2. \A q \in Procs : Registers(q)' = Registers(q) /\ Phase(q)' = Phase(q)
  BY <1>1 DEF Registers, Phase, Where
<1> QED
  BY <1>2, AllSame

\* What p has in the kernel does not show: the lines between UserTrap and userret, those
\* of a system call, and the switches
LEMMA LinesUnseen ==
    ASSUME IInv, IInv', NEW p \in Procs,
           \/ FaultDone(p) \/ IntrOff(p) \/ SetStvec(p) \/ SetSepc(p)
           \/ CallLocks(p) \/ CallDone(p) \/ (syscall(p) /\ panicked' = "no")
    PROVE  UNCHANGED <<Ctx, Phs>>
<1>0. p \in Threads /\ kpc \in [Threads -> Labels]
  BY TrapsAssumption DEF Threads, IInv, TypeInv
<1>1. UNCHANGED <<tf, state, frames>> /\ cur = p
  BY Running DEF FaultDone, IntrOff, SetStvec, SetSepc, CallLocks, CallDone, syscall, Panic,
     procVars, stacks, Runs
<1>2. PICK from \in {"fault", "UserTrapRet", "w_stvec", "w_sepc", "call", "syscall"},
           to \in {"UserTrapRet", "w_stvec", "w_sepc", "userret", "call", "result"} :
        /\ kpc[p] = from /\ kpc' = [kpc EXCEPT ![p] = to]
        /\ from \in {"call", "syscall"} <=> to \in {"call", "result"}
  <2>1. CASE CallLocks(p)
    BY <1>0, <2>1 DEF CallLocks, Runs, stacks
  <2>2. CASE FaultDone(p) \/ IntrOff(p) \/ SetStvec(p) \/ SetSepc(p)
    BY <2>2 DEF FaultDone, IntrOff, SetStvec, SetSepc, Runs, Goto
  <2>3. CASE CallDone(p) \/ (syscall(p) /\ panicked' = "no")
    BY <2>3 DEF CallDone, syscall, Runs, Goto, Panic
  <2> QED
    BY <2>1, <2>2, <2>3
<1>3. kpc'[p] = to /\ \A q \in Procs \ {p} : kpc'[q] = kpc[q]
  BY <1>0, <1>2 DEF Threads
<1> QED
  BY <1>1, <1>2, <1>3, Unseen DEF Nested, InCall

LEMMA SwitchesUnseen ==
    ASSUME IInv, IInv', NEW p \in Procs,
           \/ UserYield(p) \/ FaultReads(p) \/ CallSleeps(p) \/ sys_sched_yield(p)
           \/ KernelYield(p) \/ SwitchedIn(p) \/ SchedulerPick(p)
    PROVE  UNCHANGED <<Ctx, Phs>>
<1>0. p \in Threads /\ kpc \in [Threads -> Labels] /\ p # Scheduler
  BY TrapsAssumption DEF Threads, IInv, TypeInv
<1>1. ASSUME NEW label \in {"yield", "fault", "call", "kernel yield"},
             NEW st \in {"RUNNABLE", "SLEEPING"}, NEW next \in Parked,
             Runs(p, label), SwitchOut(p, st, next),
             label \in Nested <=> next \in Nested, label \in InCall <=> next \in InCall
      PROVE  UNCHANGED <<Ctx, Phs>>
  <2>1. cur = p /\ kpc[p] = label /\ state[p] = "RUNNING"
    BY <1>1, Running DEF IInv, PlaceInv
  <2>2. /\ state' = [state EXCEPT ![p] = st] /\ kpc' = [kpc EXCEPT ![p] = next]
        /\ UNCHANGED <<tf, frames>>
    BY <1>1 DEF SwitchOut, Goto
  <2>3. \A q \in Procs : state'[q] \in Gone <=> state[q] \in Gone
    BY <2>1, <2>2 DEF IInv, TypeInv, Gone
  <2>4. kpc'[p] = next /\ \A q \in Procs \ {p} : kpc'[q] = kpc[q]
    BY <1>0, <2>2 DEF Threads
  <2>5. /\ label \notin {"user", "UserTrap", "KernelTrap"}
        /\ next \notin {"user", "UserTrap", "KernelTrap"}
    BY DEF Parked
  <2> QED
    BY <1>1, <2>1, <2>2, <2>3, <2>4, <2>5, Unseen
<1>2. CASE UserYield(p)
  BY <1>1, <1>2 DEF UserYield, Parked, Nested, InCall
<1>3. CASE FaultReads(p)
  BY <1>1, <1>3 DEF FaultReads, Parked, Nested, InCall
<1>4. CASE CallSleeps(p)
  BY <1>1, <1>4 DEF CallSleeps, Parked, Nested, InCall
<1>5. CASE sys_sched_yield(p)
  BY <1>1, <1>5 DEF sys_sched_yield, Parked, Nested, InCall
<1>6. CASE KernelYield(p)
  BY <1>1, <1>6 DEF KernelYield, Parked, Nested, InCall
<1>7. CASE SwitchedIn(p)
  <2>1. PICK to : to = IF kpc[p] = "forkret" THEN "UserTrapRet" ELSE kpc[p]
    OBVIOUS
  <2>2. cur = p /\ switched /\ kpc' = [kpc EXCEPT ![p] = to] /\ UNCHANGED <<state, tf, frames>>
    BY <1>7, <2>1 DEF SwitchedIn, Goto
  <2>3. kpc[p] \in Parked
    BY <2>2 DEF IInv, PlaceInv
  <2>4. kpc'[p] = to /\ \A q \in Procs \ {p} : kpc'[q] = kpc[q]
    BY <1>0, <2>2 DEF Threads
  <2>5. /\ kpc[p] \notin {"user", "UserTrap", "KernelTrap"}
        /\ to \notin {"user", "UserTrap", "KernelTrap"}
        /\ kpc[p] \in Nested <=> to \in Nested
        /\ kpc[p] \in InCall <=> to \in InCall
    BY <2>1, <2>3 DEF Parked, Nested, InCall
  <2> QED
    BY <2>2, <2>4, <2>5, Unseen
<1>8. CASE SchedulerPick(p)
  <2>1. /\ cur = Scheduler /\ ~switched /\ state[p] = "RUNNABLE"
        /\ state' = [state EXCEPT ![p] = "RUNNING"] /\ UNCHANGED <<tf, kpc, frames>>
    BY <1>8 DEF SchedulerPick, Runs, Goes, stacks
  <2>2. kpc[p] \in Parked
    BY <1>0, <2>1 DEF IInv, PlaceInv
  <2>3. \A q \in Procs : state'[q] \in Gone <=> state[q] \in Gone
    BY <2>1 DEF IInv, TypeInv, Gone
  <2> QED
    BY <2>1, <2>2, <2>3, Unseen DEF Parked
<1> QED
  BY <1>2, <1>3, <1>4, <1>5, <1>6, <1>7, <1>8

\* A trap from the kernel, as long as the interrupted line is kept somewhere
LEMMA NestUnseen ==
    ASSUME IInv, IInv', NEW a \in Threads, cur = a, UNCHANGED tf,
           \A b \in Threads \ {a} : kpc'[b] = kpc[b] /\ frames'[b] = frames[b],
           \A q \in Procs : state'[q] \in Gone <=> state[q] \in Gone,
           kpc[a] \notin {"user", "UserTrap"}, kpc'[a] \notin {"user", "UserTrap"},
           a \in Procs => Where(a)' = Where(a)
    PROVE  UNCHANGED <<Ctx, Phs>>
<1>1. \A q \in Procs \ {a} : Registers(q)' = Registers(q) /\ Phase(q)' = Phase(q)
  BY OthersSame DEF Threads
<1>2. a \in Procs => Registers(a)' = Registers(a) /\ Phase(a)' = Phase(a)
  BY ViewIs, ViewIsNext DEF ViewFacts
<1> QED
  BY <1>1, <1>2, AllSame

LEMMA NestingUnseen ==
    ASSUME IInv, IInv', NEW a \in Threads,
           (KernelTrap(a) /\ panicked' = panicked) \/ KernelSetSepc(a) \/ KernelReturn(a)
    PROVE  UNCHANGED <<Ctx, Phs>>
<1>1. cur = a /\ panicked = "no"
  BY DEF KernelTrap, KernelSetSepc, KernelReturn, Runs, Goes
<1>2. a \in Procs => ViewFacts(a) /\ ViewFacts(a)'
  BY ViewIs, ViewIsNext
<1>3. CASE KernelTrap(a) /\ panicked' = panicked
  <2>1. /\ kpc[a] = "KernelTrap"
        /\ frames' = [frames EXCEPT ![a] = Append(@, [sepc |-> sepc, sstatus |-> sstatus])]
        /\ DevIntr /\ UNCHANGED tf
        /\ Goto(a, IF scause = "timer" THEN "kernel yield" ELSE "kernel w_sepc")
    BY <1>1, <1>3 DEF KernelTrap, Runs, Panic
  <2>2. PICK to \in {"kernel yield", "kernel w_sepc"} : kpc' = [kpc EXCEPT ![a] = to]
    BY <2>1 DEF Goto
  <2>3. kpc'[a] = to /\ \A b \in Threads \ {a} : kpc'[b] = kpc[b]
    BY <2>2 DEF IInv, TypeInv
  <2>4. frames'[a][1].sepc = sepc /\ \A b \in Threads \ {a} : frames'[b] = frames[b]
    <3>1. frames[a] = <<>>
      BY <2>1 DEF IInv, FrameInv, Nested
    <3>2. frames'[a] = Append(<<>>, [sepc |-> sepc, sstatus |-> sstatus])
      BY <2>1, <3>1 DEF IInv, TypeInv
    <3>3. PICK f : f = [sepc |-> sepc, sstatus |-> sstatus]
      OBVIOUS
    <3>4. frames'[a] = <<f>> /\ f.sepc = sepc
      BY <3>2, <3>3, OneFrame
    <3> QED
      BY <2>1, <3>4, OneFrame DEF IInv, TypeInv
  <2>5. a \in Procs => Where(a)' = Where(a)
    BY <1>2, <2>1, <2>3, <2>4 DEF ViewFacts, Nested
  <2> QED
    BY <1>1, <2>1, <2>3, <2>4, <2>5, DevIntrStates, NestUnseen DEF Gone
<1>4. CASE KernelSetSepc(a)
  <2>1. /\ kpc[a] = "kernel w_sepc" /\ kpc' = [kpc EXCEPT ![a] = "kernel sret"]
        /\ UNCHANGED <<state, tf, frames>>
    BY <1>4 DEF KernelSetSepc, Runs, Goto, procVars
  <2>2. kpc'[a] = "kernel sret" /\ \A b \in Threads \ {a} : kpc'[b] = kpc[b]
    BY <2>1 DEF IInv, TypeInv
  <2>3. a \in Procs => Where(a)' = Where(a)
    BY <1>2, <2>1, <2>2 DEF ViewFacts, Nested
  <2> QED
    BY <1>1, <2>1, <2>2, <2>3, NestUnseen
<1>5. CASE KernelReturn(a)
  <2>1. /\ kpc[a] = "kernel sret" /\ kpc' = [kpc EXCEPT ![a] = sepc]
        /\ frames' = [frames EXCEPT ![a] = SubSeq(@, 1, Len(@) - 1)] /\ UNCHANGED <<state, tf>>
    BY <1>5 DEF KernelReturn, Runs, Goto, procVars
  <2>2. sepc = frames[a][1].sepc /\ sepc \in Open(a)
    BY <1>1, <2>1 DEF IInv, CsrInv, FrameInv, Nested
  <2>3. /\ kpc'[a] = sepc
        /\ \A b \in Threads \ {a} : kpc'[b] = kpc[b] /\ frames'[b] = frames[b]
        /\ sepc \notin Nested \cup {"user", "UserTrap", "KernelTrap"}
    BY <2>1, <2>2 DEF IInv, TypeInv, Open, Nested
  <2>4. a \in Procs => Where(a)' = Where(a)
    BY <1>2, <2>1, <2>2, <2>3 DEF ViewFacts, Nested
  <2> QED
    BY <1>1, <2>1, <2>3, <2>4, NestUnseen
<1> QED
  BY <1>3, <1>4, <1>5

\* The trap itself: the registers go from the hart to the trapframe, the pc to sepc.
LEMMA VectorUnseen ==
    ASSUME IInv, IInv', NEW c, Vector(c)
    PROVE  UNCHANGED <<Ctx, Phs>>
<1>1. /\ Taken(c) /\ cur \in Threads
      /\ \/ user /\ cur \in Procs /\ kpc[cur] = "user" /\ stvec = "uservec"
         \/ ~user /\ kpc[cur] \in Open(cur) /\ stvec = "kernelvec"
  BY WhereTaken DEF Vector, Uservec, Kernelvec
<1>2. /\ sepc' = IF user THEN regs.pc ELSE kpc[cur]
      /\ UNCHANGED <<cur, state, frames>>
  BY <1>1 DEF Taken
<1>3. CASE user
  <2>1. /\ kpc' = [kpc EXCEPT ![cur] = "UserTrap"] /\ tf' = [tf EXCEPT ![cur].a0 = regs.a0]
        /\ cur \in Procs /\ kpc[cur] = "user" /\ sepc' = regs.pc
    BY <1>1, <1>2, <1>3 DEF Vector, Uservec, Kernelvec, Goto
  <2>2. kpc'[cur] = "UserTrap" /\ \A b \in Procs \ {cur} : kpc'[b] = kpc[b] /\ tf'[b] = tf[b]
    BY <1>1, <2>1 DEF IInv, TypeInv, Threads
  <2>3. [tf'[cur] EXCEPT !.pc = sepc'] = regs
    <3>1. PICK r, t \in Contexts : r = regs /\ t = tf[cur]
      BY <1>3, <2>1 DEF IInv, TypeInv
    <3>2. tf'[cur] = [a0 |-> r.a0, pc |-> t.pc]
      BY <2>1, <3>1 DEF IInv, TypeInv, Contexts
    <3>3. [a0 |-> r.a0, pc |-> r.pc] = r
      BY <3>1 DEF Contexts
    <3> QED
      BY <2>1, <3>1, <3>2, <3>3
  <2>4. \A q \in Procs \ {cur} : Registers(q)' = Registers(q) /\ Phase(q)' = Phase(q)
    BY <1>2, <2>2, OthersSame
  <2>5. ViewFacts(cur) /\ \A q \in Procs : ViewFacts(q)'
    BY <2>1, ViewIs, ViewIsNext
  <2>6. PICK p \in Procs : p = cur
    BY <2>1
  <2>7. Registers(p)' = Registers(p) /\ Phase(p)' = Phase(p)
    <3>1. ViewFacts(p) /\ ViewFacts(p)'
      BY <2>5, <2>6
    <3> QED
      BY <1>2, <2>1, <2>2, <2>3, <2>6, <3>1 DEF ViewFacts, Nested, InCall
  <2> QED
    BY <2>4, <2>6, <2>7, AllSame
<1>4. CASE ~user
  <2>1. /\ kpc' = [kpc EXCEPT ![cur] = "KernelTrap"] /\ tf' = tf
        /\ kpc[cur] \in Open(cur) /\ sepc' = kpc[cur]
    BY <1>1, <1>2, <1>4 DEF Vector, Uservec, Kernelvec, Goto
  <2>2. kpc'[cur] = "KernelTrap" /\ \A b \in Threads \ {cur} : kpc'[b] = kpc[b]
    BY <1>1, <2>1 DEF IInv, TypeInv
  <2>3. kpc[cur] \notin Nested \cup {"user", "UserTrap", "KernelTrap"}
    BY <2>1 DEF Open, Nested
  <2>4. PICK a \in Threads : a = cur
    BY <1>1
  <2>5. a \in Procs => Where(a)' = Where(a)
    <3>1. a \in Procs => ViewFacts(a) /\ ViewFacts(a)'
      BY ViewIs, ViewIsNext
    <3> QED
      BY <2>1, <2>2, <2>3, <2>4, <3>1 DEF ViewFacts, Nested
  <2> QED
    BY <1>2, <2>1, <2>2, <2>3, <2>4, <2>5, NestUnseen
<1> QED
  BY <1>3, <1>4

\* A step of p that keeps the hart for p and shows, if at all, to p alone
LEMMA MyStep ==
    ASSUME IInv, IInv', NEW p \in Procs, cur = p, UNCHANGED frames,
           \A q \in Procs \ {p} : kpc'[q] = kpc[q] /\ tf'[q] = tf[q],
           \A q \in Procs \ {p} : state'[q] \in Gone <=> state[q] \in Gone
    PROVE  /\ Ctx' = [Ctx EXCEPT ![p] = Registers(p)'] /\ Ctx[p] = Registers(p)
           /\ Phs' = [Phs EXCEPT ![p] = Phase(p)'] /\ Phs[p] = Phase(p)
           /\ ViewFacts(p) /\ ViewFacts(p)'
<1>1. \A q \in Procs \ {p} : Registers(q)' = Registers(q) /\ Phase(q)' = Phase(q)
  BY OthersSame
<1> QED
  BY <1>1, OneView, ViewIs, ViewIsNext

\* What a process sees to happen: its own instructions, calls and their results, its end
LEMMA ExecuteSeen ==
    ASSUME IInv, IInv', NEW p \in Procs, Execute(p) PROVE Processors!Execute(p)
<1>1. /\ user /\ cur = p /\ kpc[p] = "user" /\ state[p] = "RUNNING"
      /\ UNCHANGED <<cur, user, state, tf, kpc, frames>> /\ regs' \in Contexts
  BY DEF Execute, Left, procVars, stacks, IInv, PlaceInv, ModeInv
<1>2. /\ Ctx' = [Ctx EXCEPT ![p] = Registers(p)'] /\ Phs' = [Phs EXCEPT ![p] = Phase(p)']
      /\ Phs[p] = Phase(p) /\ ViewFacts(p) /\ ViewFacts(p)'
  BY <1>1, MyStep
<1>3. Registers(p)' = regs' /\ Phase(p) = "user" /\ Phase(p)' = "user"
  BY <1>1, <1>2 DEF ViewFacts, Gone, Nested, InCall
<1>4. Phs' = Phs
  BY <1>2, <1>3 DEF Phs
<1> QED
  BY <1>1, <1>2, <1>3, <1>4 DEF Processors!Execute, Ctx, Phs

LEMMA UserTrapSeen ==
    ASSUME IInv, IInv', NEW p \in Procs, UserTrap(p)
    PROVE  Processors!Call(p) \/ UNCHANGED <<Ctx, Phs>>
<1>0. kpc \in [Threads -> Labels] /\ tf \in [Procs -> Contexts] /\ p \in Threads
  BY TrapsAssumption DEF IInv, TypeInv, Threads
<1>1. /\ cur = p /\ kpc[p] = "UserTrap" /\ state[p] = "RUNNING" /\ ~sstatus.spp
      /\ sepc \in DOMAIN Plus4
  <2>1. cur = p /\ kpc[p] = "UserTrap"
    BY Running DEF UserTrap
  <2> QED
    BY <2>1 DEF IInv, PlaceInv, CsrInv
<1>2. PICK to \in {"syscall", "fault", "exit", "yield", "UserTrapRet"}, next \in DOMAIN Plus4 :
        /\ kpc' = [kpc EXCEPT ![p] = to] /\ (scause = "ecall" <=> to = "syscall")
        /\ next = IF scause = "ecall" THEN Plus4[sepc] ELSE sepc
        /\ tf' = [tf EXCEPT ![p].pc = next]
        /\ state' = state \/ DevIntr
  <2>1. (IF scause = "ecall" THEN Plus4[sepc] ELSE sepc) \in DOMAIN Plus4
    BY <1>1 DEF Plus4
  <2>2. tf' = [tf EXCEPT ![p].pc = IF scause = "ecall" THEN Plus4[sepc] ELSE sepc]
    BY <1>1 DEF UserTrap
  <2>3. PICK to \in {"syscall", "fault", "exit", "yield", "UserTrapRet"} :
          /\ Goto(p, to) /\ (scause = "ecall" <=> to = "syscall")
          /\ state' = state \/ DevIntr
    BY <1>1 DEF UserTrap
  <2> QED
    BY <2>1, <2>2, <2>3 DEF Goto
<1>3. /\ UNCHANGED <<cur, frames>> /\ kpc'[p] = to /\ tf'[p] = [tf[p] EXCEPT !.pc = next]
      /\ \A q \in Procs \ {p} : kpc'[q] = kpc[q] /\ tf'[q] = tf[q]
      /\ \A q \in Procs : state'[q] \in Gone <=> state[q] \in Gone
  <2>1. UNCHANGED <<cur, frames>>
    BY <1>1 DEF UserTrap, hart
  <2>2. \A q \in Procs : state'[q] \in Gone <=> state[q] \in Gone
    BY <1>2, DevIntrStates DEF Gone
  <2> QED
    BY <1>0, <1>2, <2>1, <2>2 DEF Threads
<1>4. /\ Ctx' = [Ctx EXCEPT ![p] = Registers(p)'] /\ Ctx[p] = Registers(p)
      /\ Phs' = [Phs EXCEPT ![p] = Phase(p)'] /\ Phs[p] = Phase(p)
      /\ ViewFacts(p) /\ ViewFacts(p)'
  BY <1>1, <1>3, MyStep
<1>5. /\ Registers(p) = [tf[p] EXCEPT !.pc = sepc]
      /\ Registers(p)' = [tf[p] EXCEPT !.pc = next]
      /\ Phase(p) = "user" /\ Phase(p)' = IF to = "syscall" THEN "call" ELSE "user"
  BY <1>1, <1>3, <1>4 DEF ViewFacts, Gone, Nested, InCall
<1>6. CASE to = "syscall"
  <2>1. Registers(p)' = [Registers(p) EXCEPT !.pc = Plus4[@]]
    <3>1. PICK t \in Contexts : t = tf[p]
      BY <1>0
    <3>2. /\ Registers(p) = [a0 |-> t.a0, pc |-> sepc]
          /\ Registers(p)' = [a0 |-> t.a0, pc |-> Plus4[sepc]]
      BY <1>2, <1>5, <1>6, <3>1 DEF Contexts
    <3> QED
      BY <3>2
  <2>2. Ctx' = [Ctx EXCEPT ![p].pc = Plus4[@]]
    BY <1>4, <2>1 DEF Ctx
  <2> QED
    BY <1>4, <1>5, <1>6, <2>2 DEF Processors!Call, Ctx, Phs
<1>7. CASE to # "syscall"
  BY <1>2, <1>4, <1>5, <1>7 DEF Ctx, Phs
<1> QED
  BY <1>6, <1>7

LEMMA ResultSeen ==
    ASSUME IInv, IInv', NEW p \in Procs, Result(p) \/ sys_exit(p)
    PROVE  Processors!Return(p)
<1>0. kpc \in [Threads -> Labels] /\ tf \in [Procs -> Contexts] /\ p \in Threads
  BY TrapsAssumption DEF IInv, TypeInv, Threads
<1>1. PICK from \in {"call", "result"}, to \in {"UserTrapRet", "exit"} :
        /\ cur = p /\ kpc[p] = from /\ kpc' = [kpc EXCEPT ![p] = to]
        /\ UNCHANGED <<cur, state, frames>>
  BY DEF Result, sys_exit, Runs, Goto, hart, procVars
<1>2. state[p] = "RUNNING"
  BY <1>1 DEF IInv, PlaceInv
<1>3. PICK v \in Values : tf' = [tf EXCEPT ![p].a0 = v]
  <2>1. CASE Result(p)
    BY <2>1 DEF Result
  <2>2. CASE sys_exit(p)
    <3>1. tf' = tf /\ tf[p].a0 \in Values /\ tf = [tf EXCEPT ![p].a0 = tf[p].a0]
      BY <1>0, <2>2 DEF sys_exit, procVars, Contexts
    <3> QED
      BY <3>1
  <2> QED
    BY <2>1, <2>2
<1>4. /\ kpc'[p] = to /\ tf'[p] = [tf[p] EXCEPT !.a0 = v]
      /\ \A q \in Procs \ {p} : kpc'[q] = kpc[q] /\ tf'[q] = tf[q]
  BY <1>0, <1>1, <1>3 DEF Threads
<1>5. /\ Ctx' = [Ctx EXCEPT ![p] = Registers(p)'] /\ Ctx[p] = Registers(p)
      /\ Phs' = [Phs EXCEPT ![p] = Phase(p)'] /\ Phs[p] = Phase(p)
      /\ ViewFacts(p) /\ ViewFacts(p)'
  BY <1>1, <1>4, MyStep
<1>6. /\ Registers(p) = tf[p] /\ Registers(p)' = tf'[p]
      /\ Phase(p) = "call" /\ Phase(p)' = "user"
  BY <1>1, <1>2, <1>4, <1>5 DEF ViewFacts, Gone, Nested, InCall
<1>7. Ctx' = [Ctx EXCEPT ![p].a0 = v]
  BY <1>4, <1>5, <1>6 DEF Ctx
<1> QED
  BY <1>5, <1>6, <1>7 DEF Processors!Return, Ctx, Phs

LEMMA ExitSeen ==
    ASSUME IInv, IInv', NEW p \in Procs, Exit(p) PROVE Processors!End(p)
<1>0. /\ kpc \in [Threads -> Labels] /\ p \in Threads /\ p # Scheduler
      /\ state \in [Procs -> {"UNUSED", "RUNNABLE", "RUNNING", "SLEEPING", "ZOMBIE"}]
  BY TrapsAssumption DEF IInv, TypeInv, Threads
<1>1. /\ cur = p /\ kpc[p] = "exit" /\ state' = [state EXCEPT ![p] = "ZOMBIE"]
      /\ kpc' = [kpc EXCEPT ![p] = "exit"] /\ UNCHANGED <<tf, frames>>
  BY DEF Exit, SwitchOut, Runs, Goto
<1>2. /\ state[p] = "RUNNING" /\ state'[p] = "ZOMBIE" /\ kpc' = kpc
      /\ \A q \in Procs \ {p} : state'[q] = state[q]
  BY <1>0, <1>1 DEF IInv, PlaceInv
<1>3. /\ Ctx' = [Ctx EXCEPT ![p] = Registers(p)']
      /\ Phs' = [Phs EXCEPT ![p] = Phase(p)'] /\ Phs[p] = Phase(p)
      /\ ViewFacts(p) /\ ViewFacts(p)'
  BY <1>1, <1>2, MyStep
<1>4. /\ Registers(p)' = Zeroed /\ Phase(p) = "user" /\ Phase(p)' = "none"
  BY <1>1, <1>2, <1>3 DEF ViewFacts, Gone, Nested, InCall
<1>5. Zeroed \in Contexts
  BY TrapsAssumption DEF Zeroed, Contexts, Plus4
<1> QED
  BY <1>3, <1>4, <1>5 DEF Processors!End, Ctx, Phs

\* fork's child has its parent's registers, but for a0; wait's slot was gone before.
LEMMA ForkSeen ==
    ASSUME IInv, IInv', NEW p \in Procs, NEW q \in Procs, sys_fork(p, q)
    PROVE  Processors!Fork(p, q)
<1>0. /\ kpc \in [Threads -> Labels] /\ p \in Threads /\ q \in Threads
      /\ state \in [Procs -> {"UNUSED", "RUNNABLE", "RUNNING", "SLEEPING", "ZOMBIE"}]
      /\ tf \in [Procs -> Contexts]
  BY TrapsAssumption DEF IInv, TypeInv, Threads
<1>1. /\ cur = p /\ kpc[p] = "call" /\ state[q] = "UNUSED"
      /\ state' = [state EXCEPT ![q] = "RUNNABLE"]
      /\ tf' = [tf EXCEPT ![q] = [tf[p] EXCEPT !.a0 = 0]]
      /\ kpc' = [kpc EXCEPT ![p] = "result", ![q] = "forkret"]
      /\ UNCHANGED <<cur, frames>>
  BY DEF sys_fork, Runs, hart
<1>2. state[p] = "RUNNING" /\ q # p
  BY <1>1 DEF IInv, PlaceInv
<1>3. /\ kpc'[p] = "result" /\ kpc'[q] = "forkret" /\ state'[q] = "RUNNABLE"
      /\ tf'[q] = [tf[p] EXCEPT !.a0 = 0] /\ tf'[p] = tf[p] /\ state'[p] = "RUNNING"
      /\ \A r \in Procs \ {p, q} : kpc'[r] = kpc[r] /\ tf'[r] = tf[r] /\ state'[r] = state[r]
  BY <1>0, <1>1, <1>2 DEF Threads
<1>4. \A r \in Procs \ {p, q} : Registers(r)' = Registers(r) /\ Phase(r)' = Phase(r)
  BY <1>1, <1>3, OthersSame
<1>5. ViewFacts(p) /\ ViewFacts(p)' /\ ViewFacts(q) /\ ViewFacts(q)'
  BY ViewIs, ViewIsNext
<1>6. /\ Registers(p)' = Registers(p) /\ Phase(p)' = Phase(p) /\ Phase(p) = "call"
      /\ Registers(p) = tf[p]
  <2>1. Registers(p) = tf[p] /\ Phase(p) = "call"
    BY <1>1, <1>2, <1>5 DEF ViewFacts, Gone, Nested, InCall
  <2>2. Registers(p)' = tf'[p] /\ Phase(p)' = "call"
    BY <1>3, <1>5 DEF ViewFacts, Gone, Nested, InCall
  <2> QED
    BY <1>3, <2>1, <2>2
<1>7. Registers(q)' = [tf[p] EXCEPT !.a0 = 0] /\ Phase(q) = "none" /\ Phase(q)' = "user"
  BY <1>1, <1>3, <1>5 DEF ViewFacts, Gone, Nested, InCall
<1>8. \A r \in Procs \ {q} : Registers(r)' = Registers(r) /\ Phase(r)' = Phase(r)
  BY <1>4, <1>6
<1>9. /\ Ctx' = [Ctx EXCEPT ![q] = Registers(q)'] /\ Ctx[p] = Registers(p)
      /\ Phs' = [Phs EXCEPT ![q] = Phase(q)'] /\ Phs[q] = Phase(q) /\ Phs[p] = Phase(p)
  BY <1>8, OneView DEF Ctx, Phs
<1> QED
  BY <1>6, <1>7, <1>9 DEF Processors!Fork, Ctx, Phs

LEMMA WaitUnseen ==
    ASSUME IInv, IInv', NEW p \in Procs, NEW q \in Procs, sys_wait(p, q)
    PROVE  UNCHANGED <<Ctx, Phs>>
<1>0. /\ kpc \in [Threads -> Labels] /\ p \in Threads
      /\ state \in [Procs -> {"UNUSED", "RUNNABLE", "RUNNING", "SLEEPING", "ZOMBIE"}]
      /\ tf \in [Procs -> Contexts]
  BY TrapsAssumption DEF IInv, TypeInv, Threads
<1>1. /\ cur = p /\ kpc[p] = "call" /\ state[q] = "ZOMBIE"
      /\ state' = [state EXCEPT ![q] = "UNUSED"] /\ tf' = [tf EXCEPT ![q] = Zeroed]
      /\ kpc' = [kpc EXCEPT ![p] = "result"] /\ UNCHANGED <<cur, frames>>
  BY DEF sys_wait, Runs, Goto, hart
<1>2. state[p] = "RUNNING" /\ q # p
  BY <1>1 DEF IInv, PlaceInv
<1>3. /\ kpc'[p] = "result" /\ state'[q] = "UNUSED" /\ tf'[p] = tf[p] /\ state'[p] = "RUNNING"
      /\ \A r \in Procs \ {p, q} : kpc'[r] = kpc[r] /\ tf'[r] = tf[r] /\ state'[r] = state[r]
  BY <1>0, <1>1, <1>2 DEF Threads
<1>4. \A r \in Procs \ {p, q} : Registers(r)' = Registers(r) /\ Phase(r)' = Phase(r)
  BY <1>1, <1>3, OthersSame
<1>5. ViewFacts(p) /\ ViewFacts(p)' /\ ViewFacts(q) /\ ViewFacts(q)'
  BY ViewIs, ViewIsNext
<1>6. Registers(p)' = Registers(p) /\ Phase(p)' = Phase(p)
  <2>1. Registers(p) = tf[p] /\ Phase(p) = "call"
    BY <1>1, <1>2, <1>5 DEF ViewFacts, Gone, Nested, InCall
  <2>2. Registers(p)' = tf'[p] /\ Phase(p)' = "call"
    BY <1>3, <1>5 DEF ViewFacts, Gone, Nested, InCall
  <2> QED
    BY <1>3, <2>1, <2>2
<1>7. Registers(q)' = Registers(q) /\ Phase(q)' = Phase(q)
  BY <1>1, <1>3, <1>5 DEF ViewFacts, Gone
<1> QED
  BY <1>4, <1>6, <1>7, AllSame

LEMMA UserretUnseen ==
    ASSUME IInv, IInv', NEW p \in Procs, Userret(p) PROVE UNCHANGED <<Ctx, Phs>>
<1>0. kpc \in [Threads -> Labels] /\ tf \in [Procs -> Contexts] /\ p \in Threads
  BY TrapsAssumption DEF IInv, TypeInv, Threads
<1>1. /\ cur = p /\ kpc[p] = "userret" /\ kpc' = [kpc EXCEPT ![p] = "user"]
      /\ regs' = [tf[p] EXCEPT !.pc = sepc] /\ UNCHANGED <<cur, state, tf, frames>>
  BY DEF Userret, Runs, Goto, procVars
<1>2. regs' = tf[p]
  <2>1. sepc = tf[p].pc
    BY <1>1 DEF IInv, CsrInv
  <2>2. PICK t \in Contexts : t = tf[p]
    BY <1>0
  <2> QED
    BY <1>1, <2>1, <2>2 DEF Contexts
<1>3. kpc'[p] = "user" /\ \A q \in Procs \ {p} : kpc'[q] = kpc[q] /\ tf'[q] = tf[q]
  BY <1>0, <1>1 DEF Threads
<1>4. /\ Ctx' = [Ctx EXCEPT ![p] = Registers(p)'] /\ Ctx[p] = Registers(p)
      /\ Phs' = [Phs EXCEPT ![p] = Phase(p)'] /\ Phs[p] = Phase(p)
      /\ ViewFacts(p) /\ ViewFacts(p)'
  BY <1>1, <1>3, MyStep
<1>5. Registers(p)' = Registers(p) /\ Phase(p)' = Phase(p)
  BY <1>1, <1>2, <1>3, <1>4 DEF ViewFacts, Nested, InCall
<1> QED
  BY <1>4, <1>5 DEF Ctx, Phs

LEMMA NextRefines ==
    ASSUME IInv, IInv', [Next]_vars PROVE [Processors!Next]_<<Ctx, Phs>>
<1>1. CASE UNCHANGED vars
  BY <1>1, NothingSeen DEF vars, csrs, stacks
<1>2. CASE Panic("kerneltrap") \/ Panic("syscall error")
  BY <1>2, NothingSeen DEF Panic, csrs, stacks
<1>3. CASE Next /\ panicked' = panicked
  <2>1. ASSUME NEW p \in Procs, Calls(p) PROVE [Processors!Next]_<<Ctx, Phs>>
    <3>1. panicked = "no" \/ ~syscall(p)
      BY DEF syscall, Runs, Goes
    <3>2. ASSUME NEW q \in Procs, sys_fork(p, q) \/ sys_wait(p, q)
          PROVE  [Processors!Next]_<<Ctx, Phs>>
      BY <3>2, ForkSeen, WaitUnseen DEF Processors!Next
    <3>3. ASSUME Result(p) \/ sys_exit(p) PROVE [Processors!Next]_<<Ctx, Phs>>
      BY <3>3, ResultSeen DEF Processors!Next
    <3>4. ASSUME syscall(p) \/ CallLocks(p) \/ CallDone(p) PROVE UNCHANGED <<Ctx, Phs>>
      BY <1>3, <3>1, <3>4, LinesUnseen
    <3>5. ASSUME CallSleeps(p) \/ sys_sched_yield(p) PROVE UNCHANGED <<Ctx, Phs>>
      BY <3>5, SwitchesUnseen
    <3> QED
      BY <2>1, <3>2, <3>3, <3>4, <3>5 DEF Calls
  <2>2. ASSUME NEW p \in Procs, Process(p) PROVE [Processors!Next]_<<Ctx, Phs>>
    <3>1. ASSUME UserTrap(p) PROVE [Processors!Next]_<<Ctx, Phs>>
      BY <3>1, UserTrapSeen DEF Processors!Next
    <3>2. ASSUME Exit(p) PROVE [Processors!Next]_<<Ctx, Phs>>
      BY <3>2, ExitSeen DEF Processors!Next
    <3>3. ASSUME UserYield(p) \/ FaultReads(p) \/ KernelYield(p) \/ SwitchedIn(p)
          PROVE  UNCHANGED <<Ctx, Phs>>
      BY <3>3, SwitchesUnseen
    <3>4. ASSUME FaultDone(p) \/ IntrOff(p) \/ SetStvec(p) \/ SetSepc(p) \/ Userret(p)
          PROVE  UNCHANGED <<Ctx, Phs>>
      BY <3>4, LinesUnseen, UserretUnseen
    <3>5. \/ SwitchedIn(p) \/ UserTrap(p) \/ UserYield(p) \/ FaultReads(p) \/ FaultDone(p)
          \/ Exit(p) \/ IntrOff(p) \/ SetStvec(p) \/ SetSepc(p) \/ Userret(p) \/ Calls(p)
          \/ KernelYield(p)
      BY <2>2 DEF Process
    <3>6. ASSUME Calls(p) PROVE [Processors!Next]_<<Ctx, Phs>>
      BY <2>1, <3>6
    <3> QED
      BY <3>1, <3>2, <3>3, <3>4, <3>5, <3>6
  <2>3. ASSUME NEW p \in Procs, Execute(p) PROVE [Processors!Next]_<<Ctx, Phs>>
    BY <2>3, ExecuteSeen DEF Processors!Next
  <2>4. ASSUME SchedulerLoop \/ SchedulerBack PROVE UNCHANGED <<Ctx, Phs>>
    BY <2>4, NothingSeen DEF SchedulerLoop, SchedulerBack, hart, procVars, stacks
  <2> QED
    BY <1>3, <2>2, <2>3, <2>4, SwitchesUnseen, NestingUnseen, VectorUnseen DEF Next, Handler
<1> QED
  BY <1>1, <1>2, <1>3, Panics

LEMMA InitRefines == Init => Processors!Init
<1> SUFFICES ASSUME Init PROVE Processors!Init
  OBVIOUS
<1>1. IInv
  BY InitInv
<1>2. \A q \in Procs : ViewFacts(q)
  BY <1>1, ViewIs
<1>3. \A q \in Procs : kpc[q] = "forkret" /\ tf[q] \in Contexts
  BY <1>1, TrapsAssumption DEF Init, IInv, TypeInv, Threads
<1>4. Zeroed \in Contexts
  BY TrapsAssumption DEF Zeroed, Contexts, Plus4
<1>5. \A q \in Procs : Registers(q) \in Contexts /\ Phase(q) \in {"user", "none"}
  BY <1>2, <1>3, <1>4 DEF ViewFacts, Nested, InCall
<1> QED
  BY <1>5 DEF Processors!Init

\* For any processes and values of registers: uservec, userret, kernelvec, the switches and
\* fork give each process its registers as it left them, as if it had a processor of its own.
THEOREM HartsAreProcessors == Spec => ActsAsProcessors
<1>1. Init => Processors!Init
  BY InitRefines
<1>2. IInv /\ IInv' /\ [Next]_vars => [Processors!Next]_<<Ctx, Phs>>
  BY NextRefines
<1>3. IInv /\ IInv' /\ [Next]_vars
      => [Processors!Next]_<<[p \in Procs |-> Registers(p)], [p \in Procs |-> Phase(p)]>>
  BY <1>2 DEF Ctx, Phs
<1> QED
  BY <1>1, <1>3, Invariance, PTL DEF Spec, ActsAsProcessors, Processors!Spec

-----------------------------------------------------------------------------
(* Interrupts: what the firmware forwards and what it masks *)

\* the variables the two properties are about are functions of the harts
FwdTypes ==
    /\ {mei, mti, mtip, ssip, stip} \subseteq [Harts -> BOOLEAN]
    /\ stval \in [Harts -> {"external", "address"}]
    /\ pc \in [Harts -> {"code", "DevIntr", "device", "complete", "w_sip", "sbi_set_mie"}]
    /\ cause \in [Harts -> {"none", "software", "timer"}]

\* stval keeps its mark from the firmware's store until DevIntr has cleared SSIP
MarkInv ==
    \A h \in Harts :
        /\ ssip[h] => stval[h] = "external"
        /\ pc[h] = "DevIntr" /\ cause[h] = "software" => ssip[h]

FwdInv == FwdTypes /\ MarkInv /\ MaskedForAReason

LEMMA FwdInit == InterruptsInit => FwdInv
  BY DEF InterruptsInit, FwdInv, FwdTypes, MarkInv, MaskedForAReason

\* Devices and clocks do not touch what the firmware and the kernel agree on.
LEMMA DevicesKeep ==
    ASSUME FwdInv, Withdraw \/ (\E i \in Irqs : Raise(i)) \/ \E h \in Harts : Expire(h)
    PROVE  FwdInv'
<1>1. /\ mei' = mei /\ mti' = mti /\ ssip' = ssip /\ stip' = stip /\ stval' = stval
      /\ pc' = pc /\ cause' = cause
  BY DEF Withdraw, Raise, Expire, masks, forwarded, kernel
<1>2. mtip' \in [Harts -> BOOLEAN]
  BY DEF FwdInv, FwdTypes, Withdraw, Raise, Expire, Set
<1> QED
  BY <1>1, <1>2 DEF FwdInv, FwdTypes, MarkInv, MaskedForAReason

\* The firmware masks when it forwards, and marks what comes from a device.
LEMMA FirmwareKeeps ==
    ASSUME FwdInv, NEW h \in Harts, Firmware(h) PROVE FwdInv'
<1>1. CASE MachineExternal(h)
  BY <1>1 DEF MachineExternal, ForwardExternal, Mask, Set, kernel, FwdInv, FwdTypes, MarkInv,
       MaskedForAReason
<1>2. CASE MachineTimer(h)
  BY <1>2 DEF MachineTimer, Mask, Set, kernel, FwdInv, FwdTypes, MarkInv, MaskedForAReason
<1> QED
  BY <1>1, <1>2 DEF Firmware

\* What the kernel does between taking an interrupt and its return.
LEMMA HandlerKeeps ==
    ASSUME FwdInv, NEW h \in Harts, DevIntrHandler(h) PROVE FwdInv'
<1> USE DEF At, Proceed, Set, Return, masks, forwarded, FwdInv, FwdTypes, MarkInv,
        MaskedForAReason
<1>1. ASSUME NEW i \in Irqs \cup {Nobody}, Claim(h, i) PROVE FwdInv'
  BY <1>1 DEF Claim
<1>2. CASE Device(h)
  BY <1>2 DEF Device
<1>3. CASE Complete(h)
  BY <1>3 DEF Complete
<1>4. CASE Acknowledge(h)
  BY <1>4 DEF Acknowledge
<1>5. CASE Unmask(h)
  BY <1>5 DEF Unmask, SbiSetMie
<1>6. CASE set_next_timeout(h)
  BY <1>6 DEF set_next_timeout, SbiSetTimer
<1> QED
  BY <1>1, <1>2, <1>3, <1>4, <1>5, <1>6 DEF DevIntrHandler

\* An interrupt is taken, or a process faults while none has been forwarded.
LEMMA CodeKeeps ==
    ASSUME FwdInv, NEW h \in Harts,
           Fault(h) \/ \E c \in {"software", "timer"} : Take(h, c)
    PROVE  FwdInv'
<1> USE DEF At, Proceed, Set, masks, forwarded, kernel, FwdInv, FwdTypes, MarkInv,
        MaskedForAReason
<1>1. CASE Fault(h)
  BY <1>1 DEF Fault
<1>2. ASSUME NEW c \in {"software", "timer"}, Take(h, c) PROVE FwdInv'
  BY <1>2 DEF Take
<1> QED
  BY <1>1, <1>2

LEMMA FwdStep == ASSUME FwdInv, [InterruptsNext]_interruptVars PROVE FwdInv'
<1>1. CASE InterruptsNext
  BY <1>1, DevicesKeep, FirmwareKeeps, HandlerKeeps, CodeKeeps DEF InterruptsNext
<1>2. CASE UNCHANGED interruptVars
  BY <1>2 DEF interruptVars, masks, forwarded, kernel, FwdInv, FwdTypes, MarkInv,
       MaskedForAReason
<1> QED
  BY <1>1, <1>2

LEMMA FwdAlways == InterruptsSpec => []FwdInv
<1>1. InterruptsInit => FwdInv
  BY FwdInit
<1>2. FwdInv /\ [InterruptsNext]_interruptVars => FwdInv'
  BY FwdStep
<1> QED
  BY <1>1, <1>2, PTL DEF InterruptsSpec

-----------------------------------------------------------------------------
\* A software interrupt that DevIntr looks at has the firmware's 9 in stval: no fault and
\* no second interrupt comes between the firmware's store and DevIntr's read.
THEOREM DevicesAreRecognised == InterruptsSpec => []RecognisesDevices
<1>1. FwdInv => RecognisesDevices
  BY DEF FwdInv, MarkInv, RecognisesDevices, At
<1> QED
  BY <1>1, FwdAlways, PTL

\* On every hart, a machine interrupt that is masked is one that a forwarded interrupt or
\* the handler that runs will have enabled again.
THEOREM NothingStaysMasked == InterruptsSpec => []MaskedForAReason
<1>1. FwdInv => MaskedForAReason
  BY DEF FwdInv
<1> QED
  BY <1>1, FwdAlways, PTL
==============================================================================
