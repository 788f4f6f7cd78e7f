---------------------------- MODULE SchedProofs ----------------------------
(***************************************************************************)
(* Proofs about Sched for any number of processes, whether or not the      *)
(* assertions panic and hart 1's handlers wake.                            *)
(*                                                                         *)
(* None of Sched's properties is inductive.  IInv adds to the types        *)
(*   - where control is: hart 0 runs slot si or its scheduler, everybody   *)
(*     else is at a pswitch, and wakeup writes to a slot of procTable;     *)
(*   - which locks hart 0 holds there, and that noff counts them;          *)
(*   - what a state says of its process: RUNNING only while hart 0 is in   *)
(*     it, SLEEPING only with its chan set and on its way out or away;     *)
(*   - who can have raised the event while a process decides to sleep or   *)
(*     hart 1 is in wakeup.                                                *)
(***************************************************************************)
EXTENDS Sched, TLAPS

\* The places of a process that holds the condition lock, and its p->lock
WithLk == {"test", "sleep", "release", "scan", "write", "leave"}
WithOwn == {"release", "chan", "state", "sched", "schedYield"} \cup Parked

\* Hart 0 holds a p->lock
HoldsOwn == IF cur = Scheduler THEN spc # "acquire" ELSE pc[cur] \in WithOwn

PlaceInv ==
    /\ cur # Scheduler => cur = si /\ spc = "release"
    /\ \A p \in Proc : cur # p => pc[p] \in Parked
    /\ pc[Hart1] \in {"user", "scan", "write", "leave"}
    /\ \A a \in Wakers : pc[a] = "write" => wi[a] \in Proc

HoldInv ==
    /\ \A p \in Proc : plock[p] = "hart0" <=> p = si /\ HoldsOwn
    /\ lk = "hart0" <=> cur # Scheduler /\ pc[cur] \in WithLk
    /\ lk = "hart1" <=> pc[Hart1] # "user"
    /\ noff = (IF lk = "hart0" THEN 1 ELSE 0) + (IF HoldsOwn THEN 1 ELSE 0)

StateInv ==
    \A p \in Proc :
        /\ cur # p \/ pc[p] \in {"sched", "schedYield"} => state[p] # "RUNNING"
        /\ state[p] = "SLEEPING" => onChan[p] /\ (cur = p => pc[p] = "sched")
        /\ cur = p /\ pc[p] = "state" => onChan[p]

EventInv ==
    /\ \A p \in Proc : pc[p] \in {"sleep", "release", "chan", "state"} => event # "hart0"
    /\ pc[Hart1] # "user" => event = "hart1"

PanicInv == ~Asserts => ~panicked

IInv == TypeOK /\ PlaceInv /\ HoldInv /\ StateInv /\ EventInv /\ PanicInv /\ NoLostWakeup

-----------------------------------------------------------------------------
(* Steps *)

\* Who the numbers stand for
LEMMA Harts ==
    /\ Proc \subseteq Wakers /\ Hart1 \in Wakers
    /\ Hart1 \notin Proc /\ Scheduler \notin Proc /\ Scheduler # Hart1
    /\ \A a \in Wakers : a \in Proc \/ a = Hart1
    /\ 1 \in Proc
  BY SchedAssumption DEF Proc, Wakers, Hart1, Scheduler

\* The same for a table of slots
LEMMA Slots ==
    /\ \A i \in Proc : i \in Nat /\ i >= 1 /\ i <= NProc
    /\ \A i \in 1..NProc + 1 : i \in Nat /\ (~(i > NProc) => i \in Proc)
    /\ \A i \in Proc : i \in 1..NProc + 1 /\ i + 1 \in 1..NProc + 1
    /\ \A i \in Proc : (i % NProc) + 1 \in Proc
<1>1. \A i \in Nat : i % NProc \in 0..NProc - 1
  BY SchedAssumption
<1> QED
  BY <1>1, SchedAssumption DEF Proc

\* Every step leaves everybody but whom hart 0 runs at a pswitch.
LEMMA PlaceNext ==
    ASSUME IInv, [Next]_vars
    PROVE  PlaceInv'
<1> USE Harts DEF TypeOK, PlaceInv, Parked
<1>0. TypeOK /\ PlaceInv
  BY DEF IInv
<1>1. ASSUME NEW p \in Proc, Enter(p) PROVE PlaceInv'
  BY <1>0, <1>1 DEF Enter, Runs, Goto, switch
<1>2. ASSUME NEW p \in Proc, Test(p) PROVE PlaceInv'
  BY <1>0, <1>2 DEF Test, Runs, Goto, switch
<1>3. ASSUME NEW p \in Proc, Leave(p) PROVE PlaceInv'
  BY <1>0, <1>3 DEF Leave, Runs, Goto, switch
<1>4. ASSUME NEW p \in Proc, SleepAcquire(p) PROVE PlaceInv'
  BY <1>0, <1>4 DEF SleepAcquire, Runs, Goto, switch, Panic, PopPanics
<1>5. ASSUME NEW p \in Proc, SleepRelease(p) PROVE PlaceInv'
  BY <1>0, <1>5 DEF SleepRelease, Runs, Goto, switch, Panic, PopPanics
<1>6. ASSUME NEW p \in Proc, SleepChan(p) PROVE PlaceInv'
  BY <1>0, <1>6 DEF SleepChan, Runs, Goto, switch
<1>7. ASSUME NEW p \in Proc, SleepState(p) PROVE PlaceInv'
  BY <1>0, <1>7 DEF SleepState, Runs, Goto, switch
<1>8. ASSUME NEW p \in Proc, Yield(p) PROVE PlaceInv'
  BY <1>0, <1>8 DEF Yield, Runs, Goto, switch
<1>9. ASSUME NEW p \in Proc, PrepareSched(p) PROVE PlaceInv'
  BY <1>0, <1>9 DEF PrepareSched, Runs, Goto, Panic, SchedPanics
<1>10. ASSUME NEW p \in Proc, ReturnToSleep(p) PROVE PlaceInv'
  BY <1>0, <1>10 DEF ReturnToSleep, Runs, Goto, switch
<1>11. ASSUME NEW p \in Proc, Reacquire(p) PROVE PlaceInv'
  BY <1>0, <1>11 DEF Reacquire, Runs, Goto, switch
<1>12. ASSUME NEW p \in Proc, ReturnToYield(p) PROVE PlaceInv'
  BY <1>0, <1>12 DEF ReturnToYield, Runs, Goto, switch
<1>13. CASE SchedAcquire
  BY <1>0, <1>13 DEF SchedAcquire
<1>14. CASE SchedLook
  BY <1>0, <1>14 DEF SchedLook
<1>15. CASE SchedRelease
  BY <1>0, <1>15 DEF SchedRelease
<1>16. ASSUME NEW a \in Wakers, Raise(a) PROVE PlaceInv'
  BY <1>0, <1>16 DEF Raise, CanRun, Holder, Count, Goto, switch
<1>17. ASSUME NEW a \in Wakers, WakeTest(a) PROVE PlaceInv'
  BY <1>0, <1>17, Slots DEF WakeTest, CanRun, Goto, switch
<1>18. ASSUME NEW a \in Wakers, WakeWrite(a) PROVE PlaceInv'
  BY <1>0, <1>18 DEF WakeWrite, CanRun, Goto, switch
<1>19. CASE HandlerReturn
  BY <1>0, <1>19 DEF HandlerReturn, CanRun, Goto, switch
<1>20. CASE UNCHANGED vars
  BY <1>0, <1>20 DEF vars
<1> QED
  BY <1>1, <1>2, <1>3, <1>4, <1>5, <1>6, <1>7, <1>8, <1>9, <1>10, <1>11, <1>12, <1>13,
     <1>14, <1>15, <1>16, <1>17, <1>18, <1>19, <1>20
     DEF Next, Hart0Step, Hart1Step, SchedStep, ProcStep

\* Every step leaves hart 0 with the locks its place calls for, and noff with their number.
LEMMA HoldNext ==
    ASSUME IInv, [Next]_vars
    PROVE  HoldInv'
<1> USE Harts DEF TypeOK, PlaceInv, HoldInv, HoldsOwn, WithLk, WithOwn, Parked
<1>0. TypeOK /\ PlaceInv /\ HoldInv
  BY DEF IInv
<1>1. ASSUME NEW p \in Proc, Enter(p) PROVE HoldInv'
  BY <1>0, <1>1 DEF Enter, Runs, Goto, switch
<1>2. ASSUME NEW p \in Proc, Test(p) PROVE HoldInv'
  BY <1>0, <1>2 DEF Test, Runs, Goto, switch
<1>3. ASSUME NEW p \in Proc, Leave(p) PROVE HoldInv'
  BY <1>0, <1>3 DEF Leave, Runs, Goto, switch
<1>4. ASSUME NEW p \in Proc, SleepAcquire(p) PROVE HoldInv'
  BY <1>0, <1>4 DEF SleepAcquire, Runs, Goto, switch, Panic, PopPanics
<1>5. ASSUME NEW p \in Proc, SleepRelease(p) PROVE HoldInv'
  BY <1>0, <1>5 DEF SleepRelease, Runs, Goto, switch, Panic, PopPanics
<1>6. ASSUME NEW p \in Proc, SleepChan(p) PROVE HoldInv'
  BY <1>0, <1>6 DEF SleepChan, Runs, Goto, switch
<1>7. ASSUME NEW p \in Proc, SleepState(p) PROVE HoldInv'
  BY <1>0, <1>7 DEF SleepState, Runs, Goto, switch
<1>8. ASSUME NEW p \in Proc, Yield(p) PROVE HoldInv'
  BY <1>0, <1>8 DEF Yield, Runs, Goto, switch
<1>9. ASSUME NEW p \in Proc, PrepareSched(p) PROVE HoldInv'
  BY <1>0, <1>9 DEF PrepareSched, Runs, Goto, Panic, SchedPanics
<1>10. ASSUME NEW p \in Proc, ReturnToSleep(p) PROVE HoldInv'
  BY <1>0, <1>10 DEF ReturnToSleep, Runs, Goto, switch
<1>11. ASSUME NEW p \in Proc, Reacquire(p) PROVE HoldInv'
  BY <1>0, <1>11 DEF Reacquire, Runs, Goto, switch
<1>12. ASSUME NEW p \in Proc, ReturnToYield(p) PROVE HoldInv'
  BY <1>0, <1>12 DEF ReturnToYield, Runs, Goto, switch
<1>13. CASE SchedAcquire
  BY <1>0, <1>13 DEF SchedAcquire
<1>14. CASE SchedLook
  BY <1>0, <1>14 DEF SchedLook
<1>15. CASE SchedRelease
  BY <1>0, <1>15 DEF SchedRelease
<1>16. ASSUME NEW a \in Wakers, Raise(a) PROVE HoldInv'
  BY <1>0, <1>16 DEF Raise, CanRun, Holder, Count, Goto, switch
<1>17. ASSUME NEW a \in Wakers, WakeTest(a) PROVE HoldInv'
  BY <1>0, <1>17 DEF WakeTest, CanRun, Goto, switch
<1>18. ASSUME NEW a \in Wakers, WakeWrite(a) PROVE HoldInv'
  BY <1>0, <1>18 DEF WakeWrite, CanRun, Goto, switch
<1>19. CASE HandlerReturn
  BY <1>0, <1>19 DEF HandlerReturn, CanRun, Goto, switch
<1>20. CASE UNCHANGED vars
  BY <1>0, <1>20 DEF vars
<1> QED
  BY <1>1, <1>2, <1>3, <1>4, <1>5, <1>6, <1>7, <1>8, <1>9, <1>10, <1>11, <1>12, <1>13,
     <1>14, <1>15, <1>16, <1>17, <1>18, <1>19, <1>20
     DEF Next, Hart0Step, Hart1Step, SchedStep, ProcStep

\* Every step keeps what a state says of its process, remote writes of RUNNABLE included.
LEMMA StateNext ==
    ASSUME IInv, [Next]_vars
    PROVE  StateInv'
<1> USE Harts DEF TypeOK, PlaceInv, StateInv, Parked
<1>0. TypeOK /\ PlaceInv /\ StateInv
  BY DEF IInv
<1>1. ASSUME NEW p \in Proc, Enter(p) PROVE StateInv'
  BY <1>0, <1>1 DEF Enter, Runs, Goto, switch
<1>2. ASSUME NEW p \in Proc, Test(p) PROVE StateInv'
  BY <1>0, <1>2 DEF Test, Runs, Goto, switch
<1>3. ASSUME NEW p \in Proc, Leave(p) PROVE StateInv'
  BY <1>0, <1>3 DEF Leave, Runs, Goto, switch
<1>4. ASSUME NEW p \in Proc, SleepAcquire(p) PROVE StateInv'
  BY <1>0, <1>4 DEF SleepAcquire, Runs, Goto, switch, Panic, PopPanics
<1>5. ASSUME NEW p \in Proc, SleepRelease(p) PROVE StateInv'
  BY <1>0, <1>5 DEF SleepRelease, Runs, Goto, switch, Panic, PopPanics
<1>6. ASSUME NEW p \in Proc, SleepChan(p) PROVE StateInv'
  BY <1>0, <1>6 DEF SleepChan, Runs, Goto, switch
<1>7. ASSUME NEW p \in Proc, SleepState(p) PROVE StateInv'
  BY <1>0, <1>7 DEF SleepState, Runs, Goto, switch
<1>8. ASSUME NEW p \in Proc, Yield(p) PROVE StateInv'
  BY <1>0, <1>8 DEF Yield, Runs, Goto, switch
<1>9. ASSUME NEW p \in Proc, PrepareSched(p) PROVE StateInv'
  BY <1>0, <1>9 DEF PrepareSched, Runs, Goto, Panic, SchedPanics
<1>10. ASSUME NEW p \in Proc, ReturnToSleep(p) PROVE StateInv'
  BY <1>0, <1>10 DEF ReturnToSleep, Runs, Goto, switch
<1>11. ASSUME NEW p \in Proc, Reacquire(p) PROVE StateInv'
  BY <1>0, <1>11 DEF Reacquire, Runs, Goto, switch
<1>12. ASSUME NEW p \in Proc, ReturnToYield(p) PROVE StateInv'
  BY <1>0, <1>12 DEF ReturnToYield, Runs, Goto, switch
<1>13. CASE SchedAcquire
  BY <1>0, <1>13 DEF SchedAcquire
<1>14. CASE SchedLook
  BY <1>0, <1>14 DEF SchedLook
<1>15. CASE SchedRelease
  BY <1>0, <1>15 DEF SchedRelease
<1>16. ASSUME NEW a \in Wakers, Raise(a) PROVE StateInv'
  BY <1>0, <1>16 DEF Raise, CanRun, Holder, Count, Goto, switch
<1>17. ASSUME NEW a \in Wakers, WakeTest(a) PROVE StateInv'
  BY <1>0, <1>17 DEF WakeTest, CanRun, Goto, switch
<1>18. ASSUME NEW a \in Wakers, WakeWrite(a) PROVE StateInv'
  BY <1>0, <1>18 DEF WakeWrite, CanRun, Goto, switch
<1>19. CASE HandlerReturn
  BY <1>0, <1>19 DEF HandlerReturn, CanRun, Goto, switch
<1>20. CASE UNCHANGED vars
  BY <1>0, <1>20 DEF vars
<1> QED
  BY <1>1, <1>2, <1>3, <1>4, <1>5, <1>6, <1>7, <1>8, <1>9, <1>10, <1>11, <1>12, <1>13,
     <1>14, <1>15, <1>16, <1>17, <1>18, <1>19, <1>20
     DEF Next, Hart0Step, Hart1Step, SchedStep, ProcStep

\* Every step keeps the event from the processes of hart 0 while one decides to sleep.
LEMMA EventNext ==
    ASSUME IInv, [Next]_vars
    PROVE  EventInv'
<1> USE Harts DEF TypeOK, PlaceInv, HoldInv, EventInv, WithLk, Parked
<1>0. TypeOK /\ PlaceInv /\ HoldInv /\ EventInv
  BY DEF IInv
<1>1. ASSUME NEW p \in Proc, Enter(p) PROVE EventInv'
  BY <1>0, <1>1 DEF Enter, Runs, Goto, switch
<1>2. ASSUME NEW p \in Proc, Test(p) PROVE EventInv'
  BY <1>0, <1>2 DEF Test, Runs, Goto, switch
<1>3. ASSUME NEW p \in Proc, Leave(p) PROVE EventInv'
  BY <1>0, <1>3 DEF Leave, Runs, Goto, switch
<1>4. ASSUME NEW p \in Proc, SleepAcquire(p) PROVE EventInv'
  BY <1>0, <1>4 DEF SleepAcquire, Runs, Goto, switch, Panic, PopPanics
<1>5. ASSUME NEW p \in Proc, SleepRelease(p) PROVE EventInv'
  BY <1>0, <1>5 DEF SleepRelease, Runs, Goto, switch, Panic, PopPanics
<1>6. ASSUME NEW p \in Proc, SleepChan(p) PROVE EventInv'
  BY <1>0, <1>6 DEF SleepChan, Runs, Goto, switch
<1>7. ASSUME NEW p \in Proc, SleepState(p) PROVE EventInv'
  BY <1>0, <1>7 DEF SleepState, Runs, Goto, switch
<1>8. ASSUME NEW p \in Proc, Yield(p) PROVE EventInv'
  BY <1>0, <1>8 DEF Yield, Runs, Goto, switch
<1>9. ASSUME NEW p \in Proc, PrepareSched(p) PROVE EventInv'
  BY <1>0, <1>9 DEF PrepareSched, Runs, Goto, Panic, SchedPanics
<1>10. ASSUME NEW p \in Proc, ReturnToSleep(p) PROVE EventInv'
  BY <1>0, <1>10 DEF ReturnToSleep, Runs, Goto, switch
<1>11. ASSUME NEW p \in Proc, Reacquire(p) PROVE EventInv'
  BY <1>0, <1>11 DEF Reacquire, Runs, Goto, switch
<1>12. ASSUME NEW p \in Proc, ReturnToYield(p) PROVE EventInv'
  BY <1>0, <1>12 DEF ReturnToYield, Runs, Goto, switch
<1>13. CASE SchedAcquire
  BY <1>0, <1>13 DEF SchedAcquire
<1>14. CASE SchedLook
  BY <1>0, <1>14 DEF SchedLook
<1>15. CASE SchedRelease
  BY <1>0, <1>15 DEF SchedRelease
<1>16. ASSUME NEW a \in Wakers, Raise(a) PROVE EventInv'
  BY <1>0, <1>16 DEF Raise, CanRun, Holder, Count, Goto, switch
<1>17. ASSUME NEW a \in Wakers, WakeTest(a) PROVE EventInv'
  BY <1>0, <1>17 DEF WakeTest, CanRun, Goto, switch
<1>18. ASSUME NEW a \in Wakers, WakeWrite(a) PROVE EventInv'
  BY <1>0, <1>18 DEF WakeWrite, CanRun, Goto, switch
<1>19. CASE HandlerReturn
  BY <1>0, <1>19 DEF HandlerReturn, CanRun, Goto, switch
<1>20. CASE UNCHANGED vars
  BY <1>0, <1>20 DEF vars
<1> QED
  BY <1>1, <1>2, <1>3, <1>4, <1>5, <1>6, <1>7, <1>8, <1>9, <1>10, <1>11, <1>12, <1>13,
     <1>14, <1>15, <1>16, <1>17, <1>18, <1>19, <1>20
     DEF Next, Hart0Step, Hart1Step, SchedStep, ProcStep

\* Every step leaves whoever is asleep to a waker that has still to come to it.
LEMMA WakeNext ==
    ASSUME IInv, [Next]_vars
    PROVE  NoLostWakeup'
<1> USE Harts DEF TypeOK, PlaceInv, StateInv, EventInv, NoLostWakeup, Missed
<1>0. TypeOK /\ PlaceInv /\ StateInv /\ EventInv /\ NoLostWakeup
  BY DEF IInv
<1>1. ASSUME NEW p \in Proc, Enter(p) PROVE NoLostWakeup'
  BY <1>0, <1>1 DEF Enter, Runs, Goto, switch
<1>2. ASSUME NEW p \in Proc, Test(p) PROVE NoLostWakeup'
  BY <1>0, <1>2 DEF Test, Runs, Goto, switch
<1>3. ASSUME NEW p \in Proc, Leave(p) PROVE NoLostWakeup'
  BY <1>0, <1>3 DEF Leave, Runs, Goto, switch
<1>4. ASSUME NEW p \in Proc, SleepAcquire(p) PROVE NoLostWakeup'
  BY <1>0, <1>4 DEF SleepAcquire, Runs, Goto, switch, Panic, PopPanics
<1>5. ASSUME NEW p \in Proc, SleepRelease(p) PROVE NoLostWakeup'
  BY <1>0, <1>5 DEF SleepRelease, Runs, Goto, switch, Panic, PopPanics
<1>6. ASSUME NEW p \in Proc, SleepChan(p) PROVE NoLostWakeup'
  BY <1>0, <1>6 DEF SleepChan, Runs, Goto, switch
<1>7. ASSUME NEW p \in Proc, SleepState(p) PROVE NoLostWakeup'
  BY <1>0, <1>7 DEF SleepState, Runs, Goto, switch
<1>8. ASSUME NEW p \in Proc, Yield(p) PROVE NoLostWakeup'
  BY <1>0, <1>8 DEF Yield, Runs, Goto, switch
<1>9. ASSUME NEW p \in Proc, PrepareSched(p) PROVE NoLostWakeup'
  BY <1>0, <1>9 DEF PrepareSched, Runs, Goto, Panic, SchedPanics
<1>10. ASSUME NEW p \in Proc, ReturnToSleep(p) PROVE NoLostWakeup'
  BY <1>0, <1>10 DEF ReturnToSleep, Runs, Goto, switch
<1>11. ASSUME NEW p \in Proc, Reacquire(p) PROVE NoLostWakeup'
  BY <1>0, <1>11 DEF Reacquire, Runs, Goto, switch
<1>12. ASSUME NEW p \in Proc, ReturnToYield(p) PROVE NoLostWakeup'
  BY <1>0, <1>12 DEF ReturnToYield, Runs, Goto, switch
<1>13. CASE SchedAcquire
  BY <1>0, <1>13 DEF SchedAcquire
<1>14. CASE SchedLook
  BY <1>0, <1>14 DEF SchedLook
<1>15. CASE SchedRelease
  BY <1>0, <1>15 DEF SchedRelease
<1>16. ASSUME NEW a \in Wakers, Raise(a) PROVE NoLostWakeup'
  <2>1. CASE a = Hart1
    BY <1>0, <1>16, <2>1 DEF Raise, Goto, switch, Holder
  <2>2. CASE a \in Proc
    BY <1>0, <1>16, <2>2, Slots DEF Raise, Goto, switch, Holder
  <2> QED
    BY <2>1, <2>2
<1>17. ASSUME NEW a \in Wakers, WakeTest(a) PROVE NoLostWakeup'
  <2>1. /\ pc[a] = "scan" /\ UNCHANGED <<state, onChan, event>>
        /\ \A b \in Wakers : b # a => pc'[b] = pc[b] /\ wi'[b] = wi[b]
        /\ ~(wi[a] > NProc) =>
             \/ state[wi[a]] = "SLEEPING" /\ onChan[wi[a]] /\ pc'[a] = "write" /\ wi'[a] = wi[a]
             \/ /\ ~(state[wi[a]] = "SLEEPING" /\ onChan[wi[a]])
                /\ pc'[a] = "scan" /\ wi'[a] = wi[a] + 1
    BY <1>0, <1>17 DEF WakeTest, Goto, switch
  <2>2. SUFFICES ASSUME NEW p \in Proc, event' = "hart0", Missed(p)' PROVE FALSE
    OBVIOUS
  <2>3. PICK b \in Wakers : pc[b] \in {"scan", "write"} /\ ~(wi[b] > p)
    BY <1>0, <2>1, <2>2
  <2>4. b = a
    BY <2>1, <2>2, <2>3
  <2>5. ~(wi[a] > NProc) /\ wi[a] \in Nat
    BY <1>0, <2>3, <2>4, Slots, SchedAssumption
  <2>6. pc'[a] \in {"scan", "write"} /\ wi'[a] > p
    <3>1. pc'[a] \in {"scan", "write"}
      BY <2>1, <2>5
    <3> QED
      BY <2>2, <3>1
  <2>7. wi[a] = p /\ ~(state[p] = "SLEEPING" /\ onChan[p])
    <3>1. ~(wi[a] > p) /\ p \in Nat
      BY <2>3, <2>4, Slots
    <3>2. wi'[a] = wi[a] + 1 /\ ~(state[wi[a]] = "SLEEPING" /\ onChan[wi[a]])
      BY <2>1, <2>5, <2>6, <3>1
    <3>3. wi[a] = p
      BY <2>5, <2>6, <3>1, <3>2
    <3> QED
      BY <3>2, <3>3
  <2> QED
    BY <1>0, <2>1, <2>2, <2>7
<1>18. ASSUME NEW a \in Wakers, WakeWrite(a) PROVE NoLostWakeup'
  BY <1>0, <1>18, Slots DEF WakeWrite, CanRun, Goto, switch
<1>19. CASE HandlerReturn
  BY <1>0, <1>19 DEF HandlerReturn, CanRun, Goto, switch
<1>20. CASE UNCHANGED vars
  BY <1>0, <1>20 DEF vars
<1> QED
  BY <1>1, <1>2, <1>3, <1>4, <1>5, <1>6, <1>7, <1>8, <1>9, <1>10, <1>11, <1>12, <1>13,
     <1>14, <1>15, <1>16, <1>17, <1>18, <1>19, <1>20
     DEF Next, Hart0Step, Hart1Step, SchedStep, ProcStep

\* No step panics when the assertions are those that the comments describe.
LEMMA PanicNext ==
    ASSUME IInv, [Next]_vars
    PROVE  PanicInv'
<1> USE Harts DEF PanicInv, TypeOK, PlaceInv, HoldInv, StateInv, HoldsOwn, WithLk, WithOwn, Parked
<1>0. TypeOK /\ PlaceInv /\ HoldInv /\ StateInv /\ PanicInv
  BY DEF IInv
<1>1. ASSUME NEW p \in Proc, Enter(p) PROVE PanicInv'
  BY <1>0, <1>1 DEF Enter, Runs, Goto, switch
<1>2. ASSUME NEW p \in Proc, Test(p) PROVE PanicInv'
  BY <1>0, <1>2 DEF Test, Runs, Goto, switch
<1>3. ASSUME NEW p \in Proc, Leave(p) PROVE PanicInv'
  BY <1>0, <1>3 DEF Leave, Runs, Goto, switch
<1>4. ASSUME NEW p \in Proc, SleepAcquire(p) PROVE PanicInv'
  BY <1>0, <1>4 DEF SleepAcquire, Runs, Goto, switch, Panic, PopPanics
<1>5. ASSUME NEW p \in Proc, SleepRelease(p) PROVE PanicInv'
  BY <1>0, <1>5 DEF SleepRelease, Runs, Goto, switch, Panic, PopPanics
<1>6. ASSUME NEW p \in Proc, SleepChan(p) PROVE PanicInv'
  BY <1>0, <1>6 DEF SleepChan, Runs, Goto, switch
<1>7. ASSUME NEW p \in Proc, SleepState(p) PROVE PanicInv'
  BY <1>0, <1>7 DEF SleepState, Runs, Goto, switch
<1>8. ASSUME NEW p \in Proc, Yield(p) PROVE PanicInv'
  BY <1>0, <1>8 DEF Yield, Runs, Goto, switch
<1>9. ASSUME NEW p \in Proc, PrepareSched(p) PROVE PanicInv'
  BY <1>0, <1>9 DEF PrepareSched, Runs, Goto, Panic, SchedPanics
<1>10. ASSUME NEW p \in Proc, ReturnToSleep(p) PROVE PanicInv'
  BY <1>0, <1>10 DEF ReturnToSleep, Runs, Goto, switch
<1>11. ASSUME NEW p \in Proc, Reacquire(p) PROVE PanicInv'
  BY <1>0, <1>11 DEF Reacquire, Runs, Goto, switch
<1>12. ASSUME NEW p \in Proc, ReturnToYield(p) PROVE PanicInv'
  BY <1>0, <1>12 DEF ReturnToYield, Runs, Goto, switch
<1>13. CASE SchedAcquire
  BY <1>0, <1>13 DEF SchedAcquire
<1>14. CASE SchedLook
  BY <1>0, <1>14 DEF SchedLook
<1>15. CASE SchedRelease
  BY <1>0, <1>15 DEF SchedRelease
<1>16. ASSUME NEW a \in Wakers, Raise(a) PROVE PanicInv'
  BY <1>0, <1>16 DEF Raise, CanRun, Holder, Count, Goto, switch
<1>17. ASSUME NEW a \in Wakers, WakeTest(a) PROVE PanicInv'
  BY <1>0, <1>17 DEF WakeTest, CanRun, Goto, switch
<1>18. ASSUME NEW a \in Wakers, WakeWrite(a) PROVE PanicInv'
  BY <1>0, <1>18 DEF WakeWrite, CanRun, Goto, switch
<1>19. CASE HandlerReturn
  BY <1>0, <1>19 DEF HandlerReturn, CanRun, Goto, switch
<1>20. CASE UNCHANGED vars
  BY <1>0, <1>20 DEF vars
<1> QED
  BY <1>1, <1>2, <1>3, <1>4, <1>5, <1>6, <1>7, <1>8, <1>9, <1>10, <1>11, <1>12, <1>13,
     <1>14, <1>15, <1>16, <1>17, <1>18, <1>19, <1>20
     DEF Next, Hart0Step, Hart1Step, SchedStep, ProcStep

\* Every step keeps the types; noff is bounded because it counts two locks.
LEMMA TypeNext ==
    ASSUME IInv, [Next]_vars
    PROVE  TypeOK'
<1> USE Harts DEF TypeOK, PCs, Parked
<1>0. TypeOK /\ PlaceInv /\ HoldInv /\ noff' \in 0..2
  BY HoldNext DEF IInv, HoldInv
<1>1. ASSUME NEW p \in Proc, Enter(p) PROVE TypeOK'
  BY <1>0, <1>1 DEF Enter, Runs, Goto, switch
<1>2. ASSUME NEW p \in Proc, Test(p) PROVE TypeOK'
  BY <1>0, <1>2 DEF Test, Runs, Goto, switch
<1>3. ASSUME NEW p \in Proc, Leave(p) PROVE TypeOK'
  BY <1>0, <1>3 DEF Leave, Runs, Goto, switch
<1>4. ASSUME NEW p \in Proc, SleepAcquire(p) PROVE TypeOK'
  BY <1>0, <1>4 DEF SleepAcquire, Runs, Goto, switch, Panic, PopPanics
<1>5. ASSUME NEW p \in Proc, SleepRelease(p) PROVE TypeOK'
  BY <1>0, <1>5 DEF SleepRelease, Runs, Goto, switch, Panic, PopPanics
<1>6. ASSUME NEW p \in Proc, SleepChan(p) PROVE TypeOK'
  BY <1>0, <1>6 DEF SleepChan, Runs, Goto, switch
<1>7. ASSUME NEW p \in Proc, SleepState(p) PROVE TypeOK'
  BY <1>0, <1>7 DEF SleepState, Runs, Goto, switch
<1>8. ASSUME NEW p \in Proc, Yield(p) PROVE TypeOK'
  BY <1>0, <1>8 DEF Yield, Runs, Goto, switch
<1>9. ASSUME NEW p \in Proc, PrepareSched(p) PROVE TypeOK'
  BY <1>0, <1>9 DEF PrepareSched, Runs, Goto, Panic, SchedPanics
<1>10. ASSUME NEW p \in Proc, ReturnToSleep(p) PROVE TypeOK'
  BY <1>0, <1>10 DEF ReturnToSleep, Runs, Goto, switch
<1>11. ASSUME NEW p \in Proc, Reacquire(p) PROVE TypeOK'
  BY <1>0, <1>11 DEF Reacquire, Runs, Goto, switch
<1>12. ASSUME NEW p \in Proc, ReturnToYield(p) PROVE TypeOK'
  BY <1>0, <1>12 DEF ReturnToYield, Runs, Goto, switch
<1>13. CASE SchedAcquire
  BY <1>0, <1>13 DEF SchedAcquire
<1>14. CASE SchedLook
  BY <1>0, <1>14 DEF SchedLook
<1>15. CASE SchedRelease
  BY <1>0, <1>15, Slots DEF SchedRelease
<1>16. ASSUME NEW a \in Wakers, Raise(a) PROVE TypeOK'
  BY <1>0, <1>16, Slots DEF Raise, CanRun, Holder, Goto, switch
<1>17. ASSUME NEW a \in Wakers, WakeTest(a) PROVE TypeOK'
  BY <1>0, <1>17, Slots DEF WakeTest, Goto, switch
<1>18. ASSUME NEW a \in Wakers, WakeWrite(a) PROVE TypeOK'
  BY <1>0, <1>18, Slots DEF WakeWrite, Goto, switch, PlaceInv
<1>19. CASE HandlerReturn
  BY <1>0, <1>19 DEF HandlerReturn, CanRun, Goto, switch
<1>20. CASE UNCHANGED vars
  BY <1>0, <1>20 DEF vars
<1> QED
  BY <1>1, <1>2, <1>3, <1>4, <1>5, <1>6, <1>7, <1>8, <1>9, <1>10, <1>11, <1>12, <1>13,
     <1>14, <1>15, <1>16, <1>17, <1>18, <1>19, <1>20
     DEF Next, Hart0Step, Hart1Step, SchedStep, ProcStep

-----------------------------------------------------------------------------
(* Theorems *)

\* procinit's table is in order: every process parked, the scheduler on slot 1.
LEMMA InitHolds == Init => IInv
<1> SUFFICES ASSUME Init PROVE IInv
  OBVIOUS
<1>1. /\ \A a \in Wakers : pc[a] = (IF a \in Proc THEN "yielded" ELSE "user") /\ wi[a] = 1
      /\ \A p \in Proc : pc[p] = "yielded" /\ state[p] = "RUNNABLE" /\ plock[p] = "free"
      /\ pc[Hart1] = "user" /\ cur = Scheduler /\ spc = "acquire" /\ lk = "free"
  BY Harts DEF Init
<1>2. TypeOK
  <2>1. pc \in [Wakers -> PCs]
    BY DEF Init, PCs, Parked
  <2>2. 1 \in 1..NProc + 1
    BY SchedAssumption
  <2>3. wi \in [Wakers -> 1..NProc + 1]
    BY <2>2 DEF Init
  <2>4. /\ state \in [Proc -> {"RUNNABLE", "RUNNING", "SLEEPING"}]
        /\ onChan \in [Proc -> BOOLEAN]
        /\ plock \in [Proc -> {"free", "hart0"}]
    BY DEF Init
  <2>5. cur \in Proc \cup {Scheduler} /\ si \in Proc /\ noff \in 0..2
    BY Harts DEF Init
  <2> QED
    BY <2>1, <2>3, <2>4, <2>5 DEF Init, TypeOK
<1>3. PlaceInv /\ HoldInv /\ StateInv
  BY <1>1, Harts DEF Init, PlaceInv, HoldInv, StateInv, HoldsOwn, Parked
<1>4. EventInv /\ PanicInv /\ NoLostWakeup
  BY <1>1 DEF Init, EventInv, PanicInv, NoLostWakeup
<1> QED
  BY <1>2, <1>3, <1>4 DEF IInv

\* IInv is inductive.
LEMMA IInvNext == ASSUME IInv, [Next]_vars PROVE IInv'
  BY TypeNext, PlaceNext, HoldNext, StateNext, EventNext, PanicNext, WakeNext DEF IInv

\* scheduler, sleep, wakeup and yield keep p->state, the locks, noff and wakeup's
\* loop variables in their ranges, for a table of any length.
THEOREM TypeCorrect == Spec => []TypeOK
<1>1. IInv => TypeOK
  BY DEF IInv
<1> QED
  BY <1>1, InitHolds, IInvNext, PTL DEF Spec

\* The hand-over of p->lock through pswitch: whoever comes back from a switch holds
\* the lock it is about to release, and no other process's lock is taken.
THEOREM HandedOver == Spec => []LockHandoff
<1>1. IInv => LockHandoff
  BY Harts DEF IInv, TypeOK, PlaceInv, HoldInv, HoldsOwn, WithOwn, LockHandoff
<1> QED
  BY <1>1, InitHolds, IInvNext, PTL DEF Spec

\* No process is left RUNNING on no hart, whatever hart 1 writes to its state.
THEOREM NobodyIsStranded == Spec => []NobodyStranded
<1>1. IInv => NobodyStranded
  BY DEF IInv, TypeOK, PlaceInv, StateInv, NobodyStranded
<1> QED
  BY <1>1, InitHolds, IInvNext, PTL DEF Spec

\* sleep's order (p->lock before release(lock), chan before state) and wakeup's
\* loop without p->lock lose no wakeup between processes of hart 0.
THEOREM NoWakeupLost == Spec => []NoLostWakeup
<1>1. IInv => NoLostWakeup
  BY DEF IInv
<1> QED
  BY <1>1, InitHolds, IInvNext, PTL DEF Spec

\* pop_off and prepareSched, with the assertions their comments describe, never
\* panic: every switch is made with p->lock held, noff 1 and a state that is not
\* RUNNING.
THEOREM NeverPanics == Spec => [](~Asserts => ~panicked)
<1>1. IInv => (~Asserts => ~panicked)
  BY DEF IInv, PanicInv
<1> QED
  BY <1>1, InitHolds, IInvNext, PTL DEF Spec
=============================================================================
